---------------------------- MODULE ShadesRecovery -----------------------------
(***************************************************************************)
(* Recovery of the storage manager: replaying the pinfo lists of the last  *)
(* root block rebuilds the state of that commit, whatever the sizes of     *)
(* memory, disk and generations.                                           *)
(***************************************************************************)
EXTENDS ShadesLog

--------------------------------------------------------------------------------
(* Recovery.                                                               *)

InMemory(e) == \A i \in 1 .. Len(e.page) : rvyDisk[e.page[i]] = e.diskPage[i]
AllocatedOnDisk(e) == \A d \in ToSet(e.diskPage) : diskStatus[d] = "ALLOCATED"

(* A table t of generations read so far, whose disk pages are all needed;  *)
(* the memory pages they were read to, and the generations these belong to.*)
TableRead(t, N) ==
  /\ t \in [Gens -> GenInfo]
  /\ \A g \in Gens : Distinct(t[g].page)
  /\ \A g \in Gens : t[g].status \in Live => Len(t[g].page) = Len(t[g].diskPage)
  /\ \A f, g \in Gens : f # g /\ t[f].status # "NONEXISTENT" /\ t[g].status # "NONEXISTENT" =>
       ToSet(t[f].diskPage) \cap ToSet(t[g].diskPage) = {}
  /\ \A g \in Gens : t[g].status # "NONEXISTENT" =>
       \A d \in ToSet(t[g].diskPage) : \E x \in N : x[1] = d
PagesRead(t, st, rd, m, D) ==
  /\ rd \in [Pages -> DiskPages \cup {NoDiskPage}] /\ DOMAIN m = Pages
  /\ \A p \in Pages : rd[p] # NoDiskPage =>
       /\ m[p] = D[rd[p]] /\ st[rd[p]] = "ALLOCATED"
       /\ \E g \in Gens : t[g].status # "NONEXISTENT" /\ rd[p] \in ToSet(t[g].diskPage)
  /\ \A d \in DiskPages : st[d] = "ALLOCATED" =>
       \E g \in Gens : t[g].status # "NONEXISTENT" /\ d \in ToSet(t[g].diskPage)
PagesOwned(t, w, rd, nf) ==
  /\ w \in [Pages -> Gens \cup {NoGen}]
  /\ \A p \in Pages : w[p] # NoGen =>
       /\ t[w[p]].status \in Live
       /\ \E i \in 1 .. Len(t[w[p]].page) : t[w[p]].page[i] = p /\ t[w[p]].diskPage[i] = rd[p]
  /\ \A g \in Gens : t[g].status \in Live => \A i \in 1 .. Len(t[g].page) :
       rd[t[g].page[i]] = t[g].diskPage[i] => w[t[g].page[i]] = g
  /\ nf = Cardinality({p \in Pages : w[p] = NoGen})
RvyTable(t, w, st, rd, m, nf, D, N) ==
  TableRead(t, N) /\ PagesRead(t, st, rd, m, D) /\ PagesOwned(t, w, rd, nf)

(* What was read is what the commit wrote, and belongs to generations that *)
(* are known.                                                              *)
RvyPages ==
  /\ NeededPagesIntact /\ lists = root.lists
  /\ RvyTable(gen, owner, diskStatus, rvyDisk, mem, nfree, disk, needs)
  /\ ngens \in 1 .. MaxGenerations /\ \A g \in Existing : g < ngens
  /\ order \in Seq(Gens) /\ Distinct(order)

(* The active calls of rvy_batch are those for the events after event j.   *)
StackOf(h, j) ==
  [x \in 1 .. h.m - j |->
     [gn |-> h.ev[j + x].gn, nfrom |-> h.ev[j + x].nfrom, first |-> First(h, j + x)]]
StackAt(h, j) == rvyStack = StackOf(h, j)

(* On the way down, before event j: later generations are known, the new   *)
(* ones listed, and the one with the next pinfo is in memory.              *)
KnownAfter(h, j) ==
  /\ \A e \in j + 1 .. h.m + 1 : gen[h.ev[e].gn] = InfoOf(h.ev[e])
  /\ \A g \in Gens : (\A e \in j + 1 .. h.m + 1 : h.ev[e].gn # g) => gen[g] = NoInfo
  /\ prevTo = NoGen /\ isCollecting = FALSE
  /\ \A e \in j + 1 .. h.m + 1 : New(h, e) \/ e <= h.b => AllocatedOnDisk(h.ev[e])
  /\ \E k \in j + 1 .. h.m + 1 :
       NextNew(h, j, k) /\ InMemory(h.ev[k]) /\ rvyArgs.younger = h.ev[k].gn
UpTo(h, j) == <<h.ev[h.m + 1].gn>> \o h.up[j]
Down(h, j) ==
  /\ phase = "rvy_batch" /\ j \in h.b + 1 .. h.m
  /\ KnownAfter(h, j) /\ StackAt(h, j)
  /\ rvyArgs.lists =
       [list |-> h.ptr[j], prev |-> h.ptr[Start(h, j)],
        prevPrev |-> IF h.c < j /\ h.b < h.c THEN h.ptr[h.b] ELSE NullPtr]
  /\ order = UpTo(h, j)
  /\ rvyArgs.younger = order[Len(order)]

(* In the base round, before event j.                                      *)
BaseTaken(h, p, q) ==
  (UpTo(h, h.b) \o SubSeq(h.ord[h.b], 1, p)) \o SubSeq(h.ord[h.b], q, Len(h.ord[h.b]))
Placed(h, j, o, younger) ==
  \E p \in 0 .. Len(h.ord[h.b]), q \in 1 .. Len(h.ord[h.b]) + 1 :
    /\ p < q
    /\ o = BaseTaken(h, p, q)
    /\ younger = o[Len(UpTo(h, h.b)) + p]
    /\ \A x \in 1 .. Len(h.ord[h.b]), e \in h.a + 1 .. h.b : h.ord[h.b][x] = h.ev[e].gn =>
         (x <= p <=> New(h, e) /\ j < e) /\ (q <= x <=> ~New(h, e) /\ j < e)
InBase(h, j) ==
  /\ phase = "rvy_batch" /\ j \in h.a .. h.b
  /\ KnownAfter(h, j) /\ StackAt(h, h.b)
  /\ rvyArgs.lists = [list |-> IF j = h.a THEN NullPtr ELSE h.ptr[j],
                      prev |-> NullPtr, prevPrev |-> NullPtr]
  /\ \A e \in j + 1 .. h.b : InMemory(h.ev[e])
  /\ Placed(h, j, order, rvyArgs.younger)

(* On the way back, after event j.                                         *)
Back(h, j) ==
  /\ phase = "rvy_return" /\ j \in h.b .. h.m
  /\ TableAt(gen, h, j, h.m + 1) /\ StackAt(h, j)
  /\ order = UpTo(h, j) \o h.ord[j]
  /\ prevTo = h.pt[j]
  /\ isCollecting \in BOOLEAN
  /\ isCollecting <=> \E g \in Gens : gen[g].status = "TO_BE_COLLECTED"
  /\ \A e \in h.a + 1 .. h.m + 1 : New(h, e) \/ e <= j => AllocatedOnDisk(h.ev[e])
  /\ \A e \in h.a + 1 .. j : ~Gone(h, e, j) => InMemory(h.ev[e])
RvyLog(h) ==
  /\ RvyPages
  /\ phase = "rvy_batch" => \E j \in h.a .. h.m : Down(h, j) \/ InBase(h, j)
  /\ phase = "rvy_return" => \E j \in h.b .. h.m : Back(h, j)
  /\ phase = "recovered" => RecoveredFaithfully

ReplayInv ==
  /\ Inv
  /\ DOMAIN mem = Pages
  /\ snap.exists => root.exists
  /\ Running => MemOK /\ \E h \in Log : RunLog(h)
  /\ snap.exists => \E h \in Log : SnapLog(h) /\ (Recovering => RvyLog(h))

--------------------------------------------------------------------------------
(* What recovery has read.                                                 *)

LEMMA AddGen ==
  ASSUME NEW t, NEW w, NEW st, NEW rd, NEW m, NEW nf, NEW D, NEW N,
         RvyTable(t, w, st, rd, m, nf, D, N),
         NEW g \in Gens, t[g].status = "NONEXISTENT", NEW info \in GenInfo, info.status = "NORMAL",
         Distinct(info.page), Len(info.page) = Len(info.diskPage),
         \A f \in Gens : t[f].status # "NONEXISTENT" =>
           ToSet(t[f].diskPage) \cap ToSet(info.diskPage) = {},
         \A d \in ToSet(info.diskPage) : \E x \in N : x[1] = d
  PROVE  RvyTable([t EXCEPT ![g] = info], w, st, rd, m, nf, D, N)
<1> DEFINE u == [t EXCEPT ![g] = info]
<1>1. TableRead(t, N) /\ PagesRead(t, st, rd, m, D) /\ PagesOwned(t, w, rd, nf)
  BY DEF RvyTable
<1>2. u \in [Gens -> GenInfo] /\ u[g] = info /\ \A f \in Gens : f # g => u[f] = t[f]
  BY <1>1 DEF TableRead
<1>3. \A f \in Gens : t[f].status # "NONEXISTENT" => u[f] = t[f]
  BY <1>2
<1> HIDE DEF u
<1>4. TableRead(u, N)
  <2>1. \A f, k \in Gens : f # k /\ u[f].status # "NONEXISTENT" /\ u[k].status # "NONEXISTENT" =>
          ToSet(u[f].diskPage) \cap ToSet(u[k].diskPage) = {}
    BY <1>1, <1>2 DEF TableRead
  <2>2. \A f \in Gens : u[f].status # "NONEXISTENT" =>
          \A d \in ToSet(u[f].diskPage) : \E x \in N : x[1] = d
    BY <1>1, <1>2 DEF TableRead
  <2>3. QED
    BY <1>1, <1>2, <2>1, <2>2 DEF TableRead
<1>5. PagesRead(u, st, rd, m, D)
  BY <1>1, <1>3 DEF PagesRead
<1>6. PagesOwned(u, w, rd, nf)
  <2>1. \A p \in Pages : w[p] # NoGen => u[w[p]] = t[w[p]]
    <3>1. \A p \in Pages : w[p] # NoGen => w[p] \in Gens /\ t[w[p]].status # "NONEXISTENT"
      BY <1>1 DEF PagesOwned, Live
    <3>2. QED
      BY <1>3, <3>1
  <2>2. ASSUME NEW i \in 1 .. Len(info.page) PROVE rd[info.page[i]] # info.diskPage[i]
    <3>1. info.page \in Seq(Pages) /\ info.diskPage \in Seq(DiskPages)
      BY DEF GenInfo
    <3>2. info.page[i] \in Pages /\ info.diskPage[i] \in DiskPages
          /\ info.diskPage[i] \in ToSet(info.diskPage)
      BY <3>1, Members
    <3>3. info.diskPage[i] # NoDiskPage
      BY <3>2, PagesAssumption DEF DiskPages, NoDiskPage
    <3>4. QED
      BY <1>1, <3>2, <3>3 DEF PagesRead
  <2>3. \A f \in Gens : u[f].status \in Live => \A i \in 1 .. Len(u[f].page) :
          rd[u[f].page[i]] = u[f].diskPage[i] => w[u[f].page[i]] = f
    <3>1. TAKE f \in Gens
    <3>2. CASE f = g
      BY <1>2, <2>2, <3>2
    <3>3. CASE f # g
      BY <1>1, <1>2, <3>3 DEF PagesOwned
    <3>4. QED
      BY <3>2, <3>3
  <2>4. QED
    BY <1>1, <2>1, <2>3 DEF PagesOwned
<1>7. QED
  BY <1>4, <1>5, <1>6 DEF RvyTable, u

LEMMA MarkGens ==
  ASSUME NEW t, NEW w, NEW st, NEW rd, NEW m, NEW nf, NEW D, NEW N,
         RvyTable(t, w, st, rd, m, nf, D, N), NEW u \in [Gens -> GenInfo],
         \A g \in Gens :
           /\ u[g].page = t[g].page /\ u[g].diskPage = t[g].diskPage
           /\ u[g].status = "NONEXISTENT" <=> t[g].status = "NONEXISTENT"
           /\ u[g].status \in Live <=> t[g].status \in Live
  PROVE  RvyTable(u, w, st, rd, m, nf, D, N)
<1>1. TableRead(t, N) /\ PagesRead(t, st, rd, m, D) /\ PagesOwned(t, w, rd, nf)
  BY DEF RvyTable
<1>2. TableRead(u, N)
  BY <1>1 DEF TableRead
<1>3. PagesRead(u, st, rd, m, D)
  BY <1>1 DEF PagesRead
<1>4. PagesOwned(u, w, rd, nf)
  <2>1. \A p \in Pages : w[p] # NoGen => w[p] \in Gens
    BY <1>1 DEF PagesOwned
  <2>2. QED
    BY <1>1, <2>1 DEF PagesOwned
<1>5. QED
  BY <1>2, <1>3, <1>4 DEF RvyTable

GensCollected(t, u, w, gone) ==
  /\ u \in [Gens -> GenInfo]
  /\ \A g \in Gens :
       /\ u[g].diskPage = t[g].diskPage
       /\ u[g].status = "NONEXISTENT" <=> t[g].status = "NONEXISTENT"
       /\ u[g].status \in Live => t[g].status \in Live
       /\ u[g].page = t[g].page \/ (u[g].page = <<>> /\ u[g].status \notin Live)
  /\ gone \in Seq(Pages) /\ Distinct(gone)
  /\ \A p \in Pages : p \in ToSet(gone) <=> w[p] # NoGen /\ u[w[p]].status \notin Live

LEMMA CollectGens ==
  ASSUME NEW t, NEW w, NEW st, NEW rd, NEW m, NEW nf, NEW D, NEW N,
         RvyTable(t, w, st, rd, m, nf, D, N), NEW u, NEW gone, GensCollected(t, u, w, gone)
  PROVE  RvyTable(u, [p \in Pages |-> IF p \in ToSet(gone) THEN NoGen ELSE w[p]], st, rd, m,
                  nf + Len(gone), D, N)
<1> DEFINE v == [p \in Pages |-> IF p \in ToSet(gone) THEN NoGen ELSE w[p]]
<1>0. /\ u \in [Gens -> GenInfo]
      /\ \A g \in Gens :
           /\ u[g].diskPage = t[g].diskPage
           /\ u[g].status = "NONEXISTENT" <=> t[g].status = "NONEXISTENT"
           /\ u[g].status \in Live => t[g].status \in Live
           /\ u[g].page = t[g].page \/ (u[g].page = <<>> /\ u[g].status \notin Live)
      /\ gone \in Seq(Pages) /\ Distinct(gone)
      /\ \A p \in Pages : p \in ToSet(gone) <=> w[p] # NoGen /\ u[w[p]].status \notin Live
  BY Zenon DEF GensCollected
<1> USE <1>0
<1>1. TableRead(t, N) /\ PagesRead(t, st, rd, m, D) /\ PagesOwned(t, w, rd, nf)
  BY DEF RvyTable
<1>2. TableRead(u, N)
  <2>1. Distinct(<<>>)
    BY DEF Distinct
  <2>2. \A g \in Gens : Distinct(u[g].page)
    BY <1>1, <2>1 DEF TableRead
  <2>3. \A g \in Gens : u[g].status \in Live => Len(u[g].page) = Len(u[g].diskPage)
    <3>1. \A g \in Gens : u[g].status \in Live => u[g].page = t[g].page /\ t[g].status \in Live
      OBVIOUS
    <3>2. QED
      BY <1>1, <3>1 DEF TableRead
  <2>4. \A f, g \in Gens : f # g /\ u[f].status # "NONEXISTENT" /\ u[g].status # "NONEXISTENT" =>
          ToSet(u[f].diskPage) \cap ToSet(u[g].diskPage) = {}
    <3>1. TAKE f, g \in Gens
    <3>2. u[f].diskPage = t[f].diskPage /\ u[g].diskPage = t[g].diskPage
          /\ (u[f].status = "NONEXISTENT" <=> t[f].status = "NONEXISTENT")
          /\ (u[g].status = "NONEXISTENT" <=> t[g].status = "NONEXISTENT")
      OBVIOUS
    <3>3. QED
      BY ONLY <1>1, <3>2, f \in Gens, g \in Gens DEF TableRead
  <2>5. \A g \in Gens : u[g].status # "NONEXISTENT" =>
          \A d \in ToSet(u[g].diskPage) : \E x \in N : x[1] = d
    BY <1>1 DEF TableRead
  <2>6. QED
    BY <2>2, <2>3, <2>4, <2>5 DEF TableRead
<1>3. PagesRead(u, st, rd, m, D)
  BY <1>1 DEF PagesRead
<1>4. \A p \in Pages : v[p] = IF p \in ToSet(gone) THEN NoGen ELSE w[p]
  OBVIOUS
<1>5. v \in [Pages -> Gens \cup {NoGen}]
  BY <1>1 DEF PagesOwned
<1> HIDE DEF v
<1>6. \A p \in Pages : w[p] # NoGen => w[p] \in Gens
  BY <1>1 DEF PagesOwned
<1>7. ASSUME NEW p \in Pages, v[p] # NoGen
      PROVE  /\ u[v[p]].status \in Live
             /\ \E i \in 1 .. Len(u[v[p]].page) :
                  u[v[p]].page[i] = p /\ u[v[p]].diskPage[i] = rd[p]
  <2>1. p \notin ToSet(gone) /\ v[p] = w[p] /\ w[p] # NoGen /\ w[p] \in Gens
    BY <1>4, <1>6, <1>7
  <2>2. u[w[p]].status \in Live
    BY <2>1
  <2>3. u[w[p]].page = t[w[p]].page /\ u[w[p]].diskPage = t[w[p]].diskPage
    BY <2>1, <2>2
  <2>4. QED
    BY <1>1, <2>1, <2>2, <2>3 DEF PagesOwned
<1>8. ASSUME NEW g \in Gens, u[g].status \in Live, NEW i \in 1 .. Len(u[g].page),
             rd[u[g].page[i]] = u[g].diskPage[i]
      PROVE  v[u[g].page[i]] = g
  <2>1. u[g].page = t[g].page /\ u[g].diskPage = t[g].diskPage /\ t[g].status \in Live
    BY <1>8
  <2>2. w[u[g].page[i]] = g
    BY <1>1, <1>8, <2>1 DEF PagesOwned
  <2>3. u[g].page[i] \in Pages
    <3>1. u[g].page \in Seq(Pages)
      BY DEF GenInfo
    <3>2. QED
      BY <3>1
  <2>4. u[g].page[i] \notin ToSet(gone)
    BY <1>8, <2>2, <2>3
  <2>5. QED
    BY <1>4, <2>2, <2>3, <2>4
<1>9. nf + Len(gone) = Cardinality({p \in Pages : v[p] = NoGen})
  <2> DEFINE free == {p \in Pages : w[p] = NoGen}
  <2>1. IsFiniteSet(ToSet(gone)) /\ Cardinality(ToSet(gone)) = Len(gone)
    BY DistinctCount
  <2>2. IsFiniteSet(free)
    <3>1. IsFiniteSet(Pages)
      BY PagesAssumption, FS_Interval DEF Pages
    <3>2. QED
      BY <3>1, FS_Subset
  <2>3. ToSet(gone) \subseteq Pages
    BY Members
  <2>4. free \cap ToSet(gone) = {}
    BY <2>3
  <2>5. {p \in Pages : v[p] = NoGen} = free \cup ToSet(gone)
    BY <1>4, <2>3
  <2>6. nf = Cardinality(free)
    BY <1>1 DEF PagesOwned
  <2> HIDE DEF free
  <2>7. Cardinality(free \cup ToSet(gone)) = Cardinality(free) + Cardinality(ToSet(gone)) - Cardinality({})
    BY <2>1, <2>2, <2>4, FS_Union
  <2>8. Cardinality({}) = 0 /\ Cardinality(free) \in Nat /\ Cardinality(ToSet(gone)) \in Nat
    BY <2>1, <2>2, FS_EmptySet, FS_CardinalityType
  <2>9. Cardinality(free \cup ToSet(gone)) = nf + Len(gone)
    BY ONLY <2>1, <2>6, <2>7, <2>8
  <2>10. QED
    BY ONLY <2>5, <2>9
<1>10. PagesOwned(u, v, rd, nf + Len(gone))
  BY <1>5, <1>7, <1>8, <1>9 DEF PagesOwned
<1>11. QED
  BY <1>2, <1>3, <1>10 DEF RvyTable, v

LEMMA ReadGen ==
  ASSUME NEW t, NEW g \in Gens, NEW info, t[g].status \in Live,
         info.page = t[g].page, info.diskPage = t[g].diskPage,
         diskStatus \in [DiskPages -> {"FREE", "ALLOCATED", "UNKNOWN"}],
         RvyTable(t, owner, diskStatus, rvyDisk, mem, nfree, disk, needs)
  PROVE  LET rd == Put(rvyDisk, info.page, info.diskPage) IN
         /\ RvyTable(t, OwnerRead(g, info), StatusRead(info), rd, MemRead(info), NFreeRead(info),
                     disk, needs)
         /\ \A i \in 1 .. Len(info.page) : rd[info.page[i]] = info.diskPage[i]
         /\ \A p \in Pages : p \notin ToSet(info.page) => rd[p] = rvyDisk[p]
         /\ \A d \in ToSet(info.diskPage) : StatusRead(info)[d] = "ALLOCATED"
         /\ \A d \in DiskPages : diskStatus[d] = "ALLOCATED" => StatusRead(info)[d] = "ALLOCATED"
<1> DEFINE rd == Put(rvyDisk, info.page, info.diskPage)
           w == OwnerRead(g, info)
           st == StatusRead(info)
           md == MemRead(info)
<1>1. /\ TableRead(t, needs) /\ PagesRead(t, diskStatus, rvyDisk, mem, disk)
      /\ PagesOwned(t, owner, rvyDisk, nfree)
  BY DEF RvyTable
<1>2. PICK page, diskPage : page = info.page /\ diskPage = info.diskPage
  OBVIOUS
<1>3. page = t[g].page /\ diskPage = t[g].diskPage /\ t[g] \in GenInfo
  BY <1>1, <1>2 DEF TableRead
<1>4. /\ page \in Seq(Pages) /\ diskPage \in Seq(DiskPages) /\ Distinct(page)
      /\ Len(page) = Len(diskPage) /\ Len(page) \in Nat
      /\ DOMAIN page = 1 .. Len(page)
  BY <1>1, <1>3, Members DEF TableRead, GenInfo
<1>5. /\ \A i \in 1 .. Len(page) : page[i] \in Pages /\ page[i] \in ToSet(page)
                                   /\ diskPage[i] \in DiskPages /\ diskPage[i] \in ToSet(diskPage)
      /\ \A p : p \in ToSet(page) <=> \E i \in 1 .. Len(page) : page[i] = p
      /\ \A d : d \in ToSet(diskPage) <=> \E i \in 1 .. Len(page) : diskPage[i] = d
      /\ ToSet(diskPage) \subseteq DiskPages
  BY <1>4, Members
<1>6. \A d \in DiskPages : d # NoDiskPage
  BY PagesAssumption DEF DiskPages, NoDiskPage
<1>7. rvyDisk \in [Pages -> DiskPages \cup {NoDiskPage}] /\ DOMAIN mem = Pages
      /\ owner \in [Pages -> Gens \cup {NoGen}]
  BY <1>1 DEF PagesRead, PagesOwned
<1>8. PICK read : read = {i \in 1 .. Len(page) : rvyDisk[page[i]] # diskPage[i]}
  OBVIOUS
<1>9. ToRead(info) = read
  BY <1>2, <1>4, <1>8 DEF ToRead
<1>10. /\ rd = Put(rvyDisk, page, diskPage) /\ DOMAIN rd = Pages
       /\ \A p \in Pages : p \notin ToSet(page) => rd[p] = rvyDisk[p]
  BY <1>2, <1>7, PutFunction
<1>11. \A i \in 1 .. Len(page) : rd[page[i]] = diskPage[i]
  <2>1. TAKE i \in 1 .. Len(page)
  <2>2. Put(rvyDisk, page, diskPage)[page[i]] = diskPage[i]
    <3>1. DOMAIN rvyDisk = Pages /\ page[i] \in DOMAIN rvyDisk
      BY <1>5, <1>7
    <3>2. \A k, l \in 1 .. Len(page) : page[k] = page[l] => k = l
      BY <1>4 DEF Distinct
    <3>3. (CHOOSE k \in DOMAIN page : page[k] = page[i]) = i
      <4>1. i \in DOMAIN page /\ page[i] = page[i] /\ DOMAIN page = 1 .. Len(page)
        BY <1>4
      <4>2. (CHOOSE k \in DOMAIN page : page[k] = page[i]) \in DOMAIN page
            /\ page[CHOOSE k \in DOMAIN page : page[k] = page[i]] = page[i]
        BY ONLY <4>1
      <4>3. QED
        BY ONLY <3>2, <4>1, <4>2
    <3>4. QED
      BY <3>1, <3>3, <1>4 DEF Put
  <2>3. QED
    BY <1>10, <2>2
<1>12. rd \in [Pages -> DiskPages \cup {NoDiskPage}]
  <2>1. ASSUME NEW p \in Pages PROVE rd[p] \in DiskPages \cup {NoDiskPage}
    BY <1>5, <1>7, <1>10, <1>11
  <2>2. rd = [p \in Pages |-> rd[p]]
    BY <1>7, <1>10, PutFunction
  <2>3. QED
    BY <2>1, <2>2
<1>13. \A p \in Pages : w[p] = IF \E i \in read : page[i] = p THEN g ELSE owner[p]
  BY <1>2, <1>9 DEF OwnerRead
<1>14. w \in [Pages -> Gens \cup {NoGen}]
  BY <1>7 DEF OwnerRead
<1>15. \A d \in DiskPages : st[d] = IF \E i \in read : diskPage[i] = d THEN "ALLOCATED" ELSE diskStatus[d]
  BY <1>2, <1>9 DEF StatusRead
<1>16. /\ DOMAIN md = Pages
       /\ \A i \in read : md[page[i]] = disk[diskPage[i]]
       /\ \A p \in Pages : (\A i \in read : page[i] # p) => md[p] = mem[p]
  <2>1. md = [p \in Pages |-> IF \E i \in read : page[i] = p
                              THEN disk[diskPage[CHOOSE i \in read : page[i] = p]] ELSE mem[p]]
    BY <1>2, <1>9 DEF MemRead
  <2>2. ASSUME NEW i \in read PROVE md[page[i]] = disk[diskPage[i]]
    <3>1. PICK k : k = CHOOSE l \in read : page[l] = page[i]
      OBVIOUS
    <3>2. k \in read /\ page[k] = page[i]
      BY <3>1
    <3>3. k = i
      BY <1>4, <1>8, <3>2 DEF Distinct
    <3>4. page[i] \in Pages
      BY <1>5, <1>8
    <3>5. md[page[i]] = disk[diskPage[CHOOSE l \in read : page[l] = page[i]]]
      BY <2>1, <3>4
    <3>6. QED
      BY ONLY <3>1, <3>3, <3>5
  <2>3. QED
    BY <2>1, <2>2
<1>17. \A d \in DiskPages : diskStatus[d] = "ALLOCATED" => st[d] = "ALLOCATED"
  BY <1>15
<1>18. \A i \in 1 .. Len(page) : st[diskPage[i]] = "ALLOCATED"
  <2>1. TAKE i \in 1 .. Len(page)
  <2>2. CASE i \in read
    BY <1>5, <1>15, <2>2
  <2>3. CASE i \notin read
    <3>1. rvyDisk[page[i]] = diskPage[i] /\ page[i] \in Pages /\ diskPage[i] \in DiskPages
      BY <1>5, <1>8, <2>3
    <3>2. diskStatus[diskPage[i]] = "ALLOCATED"
      BY <1>1, <1>6, <3>1 DEF PagesRead
    <3>3. QED
      BY <1>17, <3>1, <3>2
  <2>4. QED
    BY <2>2, <2>3
<1>19. t[g].status # "NONEXISTENT"
  BY DEF Live
<1> HIDE DEF rd, w, st, md
<1>20. \A p \in Pages : (\A i \in read : page[i] # p) => rd[p] = rvyDisk[p]
  <2>1. TAKE p \in Pages
  <2>2. HAVE \A i \in read : page[i] # p
  <2>3. CASE p \in ToSet(page)
    <3>1. PICK i \in 1 .. Len(page) : page[i] = p
      BY <1>5, <2>3
    <3>2. i \notin read
      BY <2>2, <3>1
    <3>3. QED
      BY <1>8, <1>11, <3>1, <3>2
  <2>4. QED
    BY <1>10, <2>3
<1>21. PagesRead(t, st, rd, md, disk)
  <2>1. ASSUME NEW p \in Pages, rd[p] # NoDiskPage
        PROVE  /\ md[p] = disk[rd[p]] /\ st[rd[p]] = "ALLOCATED"
               /\ \E f \in Gens : t[f].status # "NONEXISTENT" /\ rd[p] \in ToSet(t[f].diskPage)
    <3>1. CASE \E i \in read : page[i] = p
      <4>1. PICK i \in read : page[i] = p
        BY <3>1
      <4>2. i \in 1 .. Len(page)
        BY <1>8
      <4>3. rd[p] = diskPage[i] /\ diskPage[i] \in ToSet(t[g].diskPage)
        BY <1>3, <1>5, <1>11, <4>1, <4>2
      <4>4. QED
        BY <1>16, <1>18, <1>19, <4>1, <4>2, <4>3
    <3>2. CASE \A i \in read : page[i] # p
      <4>1. rd[p] = rvyDisk[p] /\ md[p] = mem[p]
        BY <1>16, <1>20, <3>2
      <4>2. rvyDisk[p] \in DiskPages
        BY <1>7, <2>1, <4>1
      <4>3. /\ mem[p] = disk[rvyDisk[p]] /\ diskStatus[rvyDisk[p]] = "ALLOCATED"
            /\ \E f \in Gens : t[f].status # "NONEXISTENT" /\ rvyDisk[p] \in ToSet(t[f].diskPage)
        BY <1>1, <2>1, <4>1 DEF PagesRead
      <4>4. QED
        BY <1>17, <4>1, <4>2, <4>3
    <3>3. QED
      BY <3>1, <3>2
  <2>2. ASSUME NEW d \in DiskPages, st[d] = "ALLOCATED"
        PROVE  \E f \in Gens : t[f].status # "NONEXISTENT" /\ d \in ToSet(t[f].diskPage)
    <3>1. CASE \E i \in read : diskPage[i] = d
      <4>1. d \in ToSet(t[g].diskPage)
        BY <1>3, <1>5, <1>8, <3>1
      <4>2. QED
        BY <1>19, <4>1
    <3>2. CASE ~\E i \in read : diskPage[i] = d
      <4>1. diskStatus[d] = "ALLOCATED"
        BY <1>15, <2>2, <3>2
      <4>2. QED
        BY <1>1, <4>1 DEF PagesRead
    <3>3. QED
      BY <3>1, <3>2
  <2>3. QED
    BY <1>12, <1>16, <2>1, <2>2 DEF PagesRead
<1>22. ASSUME NEW p \in Pages, w[p] # NoGen
       PROVE  /\ t[w[p]].status \in Live
              /\ \E i \in 1 .. Len(t[w[p]].page) :
                   t[w[p]].page[i] = p /\ t[w[p]].diskPage[i] = rd[p]
  <2>1. CASE \E i \in read : page[i] = p
    <3>1. PICK i \in read : page[i] = p
      BY <2>1
    <3>2. i \in 1 .. Len(page) /\ w[p] = g
      BY <1>8, <1>13, <2>1
    <3>3. rd[p] = diskPage[i]
      BY <1>11, <3>1, <3>2
    <3>4. QED
      BY <1>3, <3>1, <3>2, <3>3
  <2>2. CASE \A i \in read : page[i] # p
    <3>1. w[p] = owner[p] /\ rd[p] = rvyDisk[p]
      BY <1>13, <1>20, <2>2
    <3>2. /\ t[owner[p]].status \in Live
          /\ \E i \in 1 .. Len(t[owner[p]].page) :
               t[owner[p]].page[i] = p /\ t[owner[p]].diskPage[i] = rvyDisk[p]
      BY <1>1, <1>22, <3>1 DEF PagesOwned
    <3>3. QED
      BY <3>1, <3>2
  <2>3. QED
    BY <2>1, <2>2
<1>23. ASSUME NEW f \in Gens, t[f].status \in Live, NEW i \in 1 .. Len(t[f].page),
              rd[t[f].page[i]] = t[f].diskPage[i]
       PROVE  w[t[f].page[i]] = f
  <2>1. PICK p : p = t[f].page[i]
    OBVIOUS
  <2>2. /\ p \in Pages /\ t[f].diskPage[i] \in DiskPages
        /\ t[f].diskPage[i] \in ToSet(t[f].diskPage)
    <3>1. t[f].page \in Seq(Pages) /\ t[f].diskPage \in Seq(DiskPages)
          /\ Len(t[f].page) = Len(t[f].diskPage)
      BY <1>1, <1>23 DEF TableRead, GenInfo
    <3>2. QED
      BY <2>1, <3>1, Members
  <2>3. CASE \E k \in read : page[k] = p
    <3>1. PICK k \in read : page[k] = p
      BY <2>3
    <3>2. k \in 1 .. Len(page) /\ w[p] = g
      BY <1>8, <1>13, <2>2, <2>3
    <3>3. rd[p] = diskPage[k] /\ diskPage[k] \in ToSet(t[g].diskPage)
      BY <1>3, <1>5, <1>11, <3>1, <3>2
    <3>4. t[f].diskPage[i] \in ToSet(t[f].diskPage) \cap ToSet(t[g].diskPage)
      BY <1>23, <2>1, <2>2, <3>3
    <3>5. t[f].status # "NONEXISTENT"
      BY <1>23 DEF Live
    <3>6. f = g
      BY <1>1, <1>19, <3>4, <3>5 DEF TableRead
    <3>7. QED
      BY <2>1, <3>2, <3>6
  <2>4. CASE \A k \in read : page[k] # p
    <3>1. rd[p] = rvyDisk[p] /\ w[p] = owner[p]
      BY <1>13, <1>20, <2>2, <2>4
    <3>2. rvyDisk[t[f].page[i]] = t[f].diskPage[i]
      BY <1>23, <2>1, <3>1
    <3>3. \A e \in Gens : t[e].status \in Live => \A k \in 1 .. Len(t[e].page) :
            rvyDisk[t[e].page[k]] = t[e].diskPage[k] => owner[t[e].page[k]] = e
      BY <1>1 DEF PagesOwned
    <3>4. owner[t[f].page[i]] = f
      BY ONLY <1>23, <3>2, <3>3
    <3>5. QED
      BY ONLY <2>1, <3>1, <3>4
  <2>5. QED
    BY <2>3, <2>4
<1>24. NFreeRead(info) = Cardinality({p \in Pages : w[p] = NoGen})
  <2> DEFINE free == {p \in Pages : owner[p] = NoGen}
             now == {p \in Pages : w[p] = NoGen}
             R == {i \in read : owner[page[i]] = NoGen}
             taken == {p \in free : \E i \in read : page[i] = p}
             f == [i \in R |-> page[i]]
  <2>1. IsFiniteSet(free) /\ nfree = Cardinality(free)
    <3>1. IsFiniteSet(Pages)
      BY PagesAssumption, FS_Interval DEF Pages
    <3>2. IsFiniteSet(free)
      BY <3>1, FS_Subset
    <3>3. QED
      BY <1>1, <3>2 DEF PagesOwned
  <2>2. IsFiniteSet(R) /\ Cardinality(R) = Cardinality(taken)
    <3>1. IsFiniteSet(R)
      <4>1. IsFiniteSet(1 .. Len(page))
        BY <1>4, FS_Interval
      <4>2. R \subseteq 1 .. Len(page)
        BY <1>8
      <4>3. QED
        BY <4>1, <4>2, FS_Subset
    <3>2. f \in Bijection(R, taken)
      <4>1. \A i \in R : i \in 1 .. Len(page) /\ page[i] \in taken
        BY <1>5, <1>8
      <4>2. f \in [R -> taken]
        BY <4>1
      <4>3. \A i, k \in R : f[i] = f[k] => i = k
        BY <1>4, <4>1 DEF Distinct
      <4>4. \A p \in taken : \E i \in R : f[i] = p
        OBVIOUS
      <4>5. QED
        BY <4>2, <4>3, <4>4 DEF Bijection, Injection, Surjection, IsInjective
    <3>3. ExistsBijection(R, taken)
      BY <3>2 DEF ExistsBijection
    <3>4. QED
      BY <3>1, <3>3, FS_Bijection
  <2>3. now = free \ taken /\ taken \subseteq free
    <3>1. g # NoGen
      BY GenerationsAssumption DEF Gens, NoGen
    <3>2. QED
      BY <1>13, <3>1
  <2>4. NFreeRead(info) = nfree - Cardinality(R)
    BY <1>2, <1>9 DEF NFreeRead
  <2> HIDE DEF free, now, R, taken, f
  <2>5. /\ IsFiniteSet(taken) /\ Cardinality(taken) \in Nat /\ Cardinality(free) \in Nat
        /\ Cardinality(free \ taken) = Cardinality(free) - Cardinality(free \cap taken)
    BY <2>1, <2>3, FS_Subset, FS_Difference, FS_CardinalityType
  <2>6. free \cap taken = taken
    BY <2>3
  <2>7. Cardinality(now) = nfree - Cardinality(R)
    BY ONLY <2>1, <2>2, <2>3, <2>5, <2>6
  <2>8. QED
    BY ONLY <2>4, <2>7 DEF now
<1>25. PagesOwned(t, w, rd, NFreeRead(info))
  BY <1>14, <1>22, <1>23, <1>24 DEF PagesOwned
<1>26. RvyTable(t, w, st, rd, md, NFreeRead(info), disk, needs)
  BY <1>1, <1>21, <1>25 DEF RvyTable
<1>27. \A d \in ToSet(info.diskPage) : st[d] = "ALLOCATED"
  BY <1>2, <1>5, <1>18
<1>28. (\A i \in 1 .. Len(info.page) : rd[info.page[i]] = info.diskPage[i])
       /\ (\A p \in Pages : p \notin ToSet(info.page) => rd[p] = rvyDisk[p])
  BY ONLY <1>2, <1>10, <1>11, Zenon
<1>29. QED
  BY ONLY <1>17, <1>26, <1>27, <1>28, Zenon DEF rd, w, st, md

(* A generation linked in behind the last one of u.                        *)
LEMMA InsertedAfter ==
  ASSUME order \in Seq(Gens), Distinct(order), NEW u \in Seq(Gens), NEW v \in Seq(Gens),
         order = u \o v, u # <<>>, NEW g \in Gens
  PROVE  insert_generation_after(u[Len(u)], g) = (u \o <<g>>) \o v
<1>1. PICK n \in Nat : n = Len(u)
  OBVIOUS
<1>2. PICK l \in Nat : l = Len(v)
  OBVIOUS
<1>3. n >= 1 /\ u[n] \in Gens /\ Len(order) = n + l /\ order[n] = u[n]
  BY <1>1, <1>2
<1>4. u[n] # NoGen
  BY <1>3, GenerationsAssumption DEF Gens, NoGen
<1>5. IndexOf(u[n]) = n
  BY <1>3 DEF IndexOf, Distinct
<1>6. insert_generation_after(u[n], g) = InsertAt(order, n + 1, g)
  BY <1>4, <1>5 DEF insert_generation_after
<1>7. InsertAt(order, n + 1, g) = SubSeq(order, 1, n) \o <<g>> \o SubSeq(order, n + 1, n + l)
  <2>1. (n + 1) - 1 = n
    OBVIOUS
  <2>2. QED
    BY <1>3, <2>1 DEF InsertAt
<1>8. SubSeq(order, 1, n) = u
  <2>1. SubSeq(order, 1, n) \in Seq(Gens) /\ Len(SubSeq(order, 1, n)) = n
        /\ \A i \in 1 .. n : SubSeq(order, 1, n)[i] = order[i]
    BY <1>3
  <2>2. \A i \in 1 .. n : order[i] = u[i]
    BY <1>1, <1>2
  <2>3. QED
    BY <1>1, <2>1, <2>2, SameSeq
<1>9. SubSeq(order, n + 1, n + l) = v
  <2>1. SubSeq(order, n + 1, n + l) \in Seq(Gens) /\ Len(SubSeq(order, n + 1, n + l)) = l
        /\ \A i \in 1 .. l : SubSeq(order, n + 1, n + l)[i] = order[n + i]
    <3>1. n \in 0 .. Len(order) /\ Len(order) - n = l
      BY ONLY <1>3, n \in Nat, l \in Nat
    <3>2. PICK s : s = order
      OBVIOUS
    <3>3. s \in Seq(Gens) /\ n \in 0 .. Len(s) /\ Len(s) - n = l /\ Len(s) = n + l
      BY <1>3, <3>1, <3>2
    <3>4. /\ SubSeq(s, n + 1, Len(s)) \in Seq(Gens) /\ Len(SubSeq(s, n + 1, Len(s))) = Len(s) - n
          /\ \A i \in 1 .. Len(s) - n : SubSeq(s, n + 1, Len(s))[i] = s[n + i]
      BY ONLY <3>3, Cut
    <3>5. QED
      BY ONLY <3>2, <3>3, <3>4
  <2>2. \A i \in 1 .. l : order[n + i] = v[i]
    BY <1>1, <1>2
  <2>3. QED
    BY <1>2, <2>1, <2>2, SameSeq
<1>10. QED
  BY <1>1, <1>6, <1>7, <1>8, <1>9

LEMMA Regrouped ==
  ASSUME NEW u \in Seq(Gens), NEW a \in Seq(Gens), NEW x \in Gens, NEW b \in Seq(Gens)
  PROVE  ((u \o a) \o <<x>>) \o b = u \o ((a \o <<x>>) \o b)
<1>1. PICK y : y = <<x>>
  OBVIOUS
<1>2. y \in Seq(Gens)
  BY <1>1
<1>3. (u \o a) \o y = u \o (a \o y)
  BY <1>2
<1>4. PICK c : c = a \o y
  OBVIOUS
<1>5. c \in Seq(Gens)
  BY <1>2, <1>4
<1>6. (u \o c) \o b = u \o (c \o b)
  BY <1>5
<1>7. QED
  BY ONLY <1>1, <1>3, <1>4, <1>6

(* A step of the collector that starts behind u.                           *)
LEMMA SplicedBehind ==
  ASSUME NEW u \in Seq(Gens), NEW o \in Seq(Gens), NEW i \in 1 .. Len(o),
         NEW k \in 1 .. Len(o) - i + 1, NEW x \in Gens
  PROVE  /\ Splice(u \o o, Len(u) + i, k, x) = u \o Splice(o, i, k, x)
         /\ Splice(o, i, k, x) \in Seq(Gens)
<1>1. PICK n \in Nat : n = Len(u)
  OBVIOUS
<1>2. PICK l \in Nat : l = Len(o)
  OBVIOUS
<1>3. PICK w : w = u \o o
  OBVIOUS
<1>4. /\ w \in Seq(Gens) /\ Len(w) = n + l /\ \A j \in 1 .. n : w[j] = u[j]
      /\ \A j \in 1 .. l : w[n + j] = o[j]
  BY <1>1, <1>2, <1>3
<1>5. i \in Nat /\ k \in Nat /\ 1 <= i /\ 1 <= k /\ i + k - 1 <= l
  BY <1>2
<1>6. PICK a : a = SubSeq(o, 1, i - 1)
  OBVIOUS
<1>7. PICK b : b = SubSeq(o, i + k, l)
  OBVIOUS
<1>8. a \in Seq(Gens) /\ Len(a) = i - 1 /\ \A j \in 1 .. i - 1 : a[j] = o[j]
  <2>1. i - 1 \in 0 .. Len(o)
    BY <1>2, <1>5
  <2>2. QED
    BY <1>6, <2>1, Cut
<1>9. b \in Seq(Gens) /\ Len(b) = l - (i + k - 1) /\ \A j \in 1 .. l - (i + k - 1) : b[j] = o[(i + k - 1) + j]
  <2>1. PICK c \in Nat : c = i + k - 1
    BY <1>5
  <2>2. c \in 0 .. Len(o) /\ c + 1 = i + k
    BY <1>2, <1>5, <2>1
  <2>3. b = SubSeq(o, c + 1, Len(o))
    BY <1>2, <1>7, <2>2
  <2>4. b \in Seq(Gens) /\ Len(b) = Len(o) - c /\ \A j \in 1 .. Len(o) - c : b[j] = o[c + j]
    BY <2>2, <2>3, Cut
  <2>5. QED
    BY <1>2, <2>1, <2>4
<1>10. SubSeq(w, 1, n + i - 1) = u \o a
  <2>1. PICK c \in Nat : c = n + i - 1
    BY <1>5
  <2>2. c \in 0 .. Len(w)
    BY <1>4, <1>5, <2>1
  <2>3. SubSeq(w, 1, c) \in Seq(Gens) /\ Len(SubSeq(w, 1, c)) = c /\ \A j \in 1 .. c : SubSeq(w, 1, c)[j] = w[j]
    BY <1>4, <2>2, Cut
  <2>4. u \o a \in Seq(Gens) /\ Len(u \o a) = c
    BY <1>1, <1>8, <2>1
  <2>5. ASSUME NEW j \in 1 .. c PROVE (u \o a)[j] = w[j]
    <3>1. CASE j <= n
      BY <1>1, <1>4, <1>8, <3>1
    <3>2. CASE n < j
      <4>1. j - n \in 1 .. i - 1 /\ j - n \in 1 .. l /\ n + (j - n) = j
        BY <1>5, <2>1, <3>2
      <4>2. (u \o a)[j] = a[j - n]
        BY <1>1, <1>8, <3>2, <4>1
      <4>3. QED
        BY <1>4, <1>8, <4>1, <4>2
    <3>3. j \in Nat
      BY <2>1
    <3>4. j <= n \/ n < j
      BY ONLY <3>3, n \in Nat
    <3>5. QED
      BY ONLY <3>1, <3>2, <3>4, Zenon
  <2>6. SubSeq(w, 1, c) = u \o a
    BY <2>3, <2>4, <2>5, SameSeq
  <2>7. QED
    BY <2>1, <2>6
<1>11. SubSeq(w, (n + i) + k, Len(w)) = b
  <2>1. PICK c \in Nat : c = n + (i + k - 1)
    BY <1>5
  <2>2. c \in 0 .. Len(w) /\ c + 1 = (n + i) + k /\ Len(w) - c = l - (i + k - 1)
    BY <1>4, <1>5, <2>1
  <2>3. /\ SubSeq(w, c + 1, Len(w)) \in Seq(Gens) /\ Len(SubSeq(w, c + 1, Len(w))) = Len(w) - c
        /\ \A j \in 1 .. Len(w) - c : SubSeq(w, c + 1, Len(w))[j] = w[c + j]
    BY <1>4, <2>2, Cut
  <2>4. ASSUME NEW j \in 1 .. Len(w) - c PROVE w[c + j] = b[j]
    <3>1. j \in 1 .. l - (i + k - 1) /\ (i + k - 1) + j \in 1 .. l
          /\ c + j = n + ((i + k - 1) + j)
      BY <1>5, <2>1, <2>2
    <3>2. QED
      BY <1>4, <1>9, <3>1
  <2>5. SubSeq(w, c + 1, Len(w)) = b
    BY <1>9, <2>2, <2>3, <2>4, SameSeq
  <2>6. QED
    BY <2>2, <2>5
<1>12. Splice(o, i, k, x) = (a \o <<x>>) \o b
  BY <1>2, <1>6, <1>7 DEF Splice
<1>13. Splice(w, n + i, k, x) = ((u \o a) \o <<x>>) \o b
  <2>1. (n + i) - 1 = n + i - 1
    BY <1>5
  <2>2. SubSeq(w, 1, (n + i) - 1) = u \o a
    BY ONLY <1>10, <2>1
  <2>3. QED
    BY ONLY <1>11, <2>2, Zenon DEF Splice
<1>14. a \o <<x>> \in Seq(Gens) /\ (a \o <<x>>) \o b \in Seq(Gens)
  BY <1>8, <1>9
<1>15. ((u \o a) \o <<x>>) \o b = u \o ((a \o <<x>>) \o b)
  BY <1>8, <1>9, Regrouped
<1>16. QED
  BY ONLY <1>1, <1>3, <1>12, <1>13, <1>14, <1>15

--------------------------------------------------------------------------------
(* The way down.                                                           *)

(* The new generations after event j.                                      *)
LEMMA UpEvents ==
  ASSUME NEW h \in Log, LogOK(h), NEW j \in h.b .. h.m
  PROVE  \A q \in 1 .. Len(h.up[j]) : \E e \in j + 1 .. h.m : New(h, e) /\ h.up[j][q] = h.ev[e].gn
<1> DEFINE Good(i) == \A q \in 1 .. Len(h.up[i]) :
                        \E e \in i + 1 .. h.m : New(h, e) /\ h.up[i][q] = h.ev[e].gn
           bad == {i \in h.b .. h.m : ~Good(i)}
<1>1. h.m \in Nat /\ h.b \in Nat
  BY LogTypes
<1>2. SUFFICES bad = {}
  OBVIOUS
<1>3. SUFFICES ASSUME bad # {} PROVE FALSE
  OBVIOUS
<1>4. PICK i \in bad : \A k \in bad : k <= i
  <2>1. bad \in SUBSET Nat /\ \A k \in bad : k <= h.m
    BY <1>1
  <2>2. Max(bad) \in bad /\ \A k \in bad : k <= Max(bad)
    BY <1>1, <1>3, <2>1, LargestNumber
  <2>3. QED
    BY <2>2
<1>5. i \in h.b .. h.m /\ ~Good(i)
  OBVIOUS
<1>6. i # h.m
  <2>1. h.up[h.m] = <<>>
    BY DEF LogOK, LogUp
  <2>2. Good(h.m)
    BY <2>1
  <2>3. QED
    BY <1>5, <2>2
<1>7. i + 1 \in h.b + 1 .. h.m /\ i + 1 \in h.b .. h.m /\ (i + 1) - 1 = i /\ ~(i + 1 <= i)
  BY <1>1, <1>5, <1>6
<1>8. Good(i + 1)
  <2>1. i + 1 \notin bad
    BY <1>4, <1>7
  <2>2. QED
    BY <1>7, <2>1
<1>9. h.up[i] = IF New(h, i + 1) THEN Append(h.up[i + 1], h.ev[i + 1].gn) ELSE h.up[i + 1]
  <2>1. \A k \in h.b + 1 .. h.m :
          h.up[k - 1] = IF New(h, k) THEN Append(h.up[k], h.ev[k].gn) ELSE h.up[k]
    BY DEF LogOK, LogUp
  <2>2. QED
    BY ONLY <1>7, <2>1
<1>10. \A q \in 1 .. Len(h.up[i + 1]) :
         \E e \in i + 1 .. h.m : New(h, e) /\ h.up[i + 1][q] = h.ev[e].gn
  <2>1. \A e \in (i + 1) + 1 .. h.m : e \in i + 1 .. h.m
    BY <1>1, <1>5
  <2>2. QED
    BY <1>8, <2>1
<1> HIDE DEF bad
<1>11. Good(i)
  <2>1. CASE New(h, i + 1)
    <3>1. h.up[i + 1] \in Seq(Gens) /\ h.ev[i + 1].gn \in Gens
      BY <1>1, <1>7, EventTypes
    <3>2. PICK u \in Seq(Gens) : u = h.up[i + 1]
      BY <3>1
    <3>3. PICK g \in Gens : g = h.ev[i + 1].gn
      BY <3>1
    <3>4. h.up[i] = Append(u, g)
      BY <1>9, <2>1, <3>2, <3>3
    <3>5. TAKE q \in 1 .. Len(h.up[i])
    <3>6. CASE q = Len(u) + 1
      <4>1. h.up[i][q] = g
        BY <3>4, <3>6
      <4>2. i + 1 \in i + 1 .. h.m
        BY <1>1, <1>5, <1>6
      <4>3. QED
        BY <2>1, <3>3, <4>1, <4>2
    <3>7. CASE q # Len(u) + 1
      <4>1. q \in 1 .. Len(u) /\ h.up[i][q] = u[q]
        BY <3>4, <3>7
      <4>2. QED
        BY <1>10, <3>2, <4>1
    <3>8. QED
      BY <3>6, <3>7
  <2>2. CASE ~New(h, i + 1)
    BY <1>9, <1>10, <2>2
  <2>3. QED
    BY <2>1, <2>2
<1>12. QED
  BY <1>5, <1>11

(* The next new generation is one only.                                    *)
LEMMA NextNewIs ==
  ASSUME NEW h \in Log, NEW j \in Nat, NEW k, NEW l, NextNew(h, j, k), NextNew(h, j, l)
  PROVE  k = l
<1>1. h.m \in Nat
  BY LogTypes
<1>2. k \in Nat /\ l \in Nat /\ j + 1 <= k /\ j + 1 <= l
  BY <1>1 DEF NextNew
<1>3. ~(k < l)
  BY <1>2 DEF NextNew
<1>4. ~(l < k)
  BY <1>2 DEF NextNew
<1>5. QED
  BY ONLY <1>2, <1>3, <1>4

(* The pinfo of event j is at the address where the next one says it is.   *)
LEMMA CellRead ==
  ASSUME NEW h \in Log, SnapLog(h), RvyPages, NEW j \in h.a + 1 .. h.m, KnownAfter(h, j)
  PROVE  /\ h.ptr[j].page \in Pages /\ owner[h.ptr[j].page] # NoGen
         /\ h.ptr[j].slot \in DOMAIN mem[h.ptr[j].page].pinfos
         /\ Deref(h.ptr[j]) = Cell(h, j)
         /\ gen[h.ev[j].gn] = NoInfo /\ h.ptr[j] # NullPtr
<1>1. h.m \in Nat /\ h.a \in Nat
  BY LogTypes
<1>2. j \in Nat /\ h.a < j /\ j <= h.m
  BY <1>1
<1>3. /\ \A e \in j + 1 .. h.m + 1 : gen[h.ev[e].gn] = InfoOf(h.ev[e])
      /\ \A g \in Gens : (\A e \in j + 1 .. h.m + 1 : h.ev[e].gn # g) => gen[g] = NoInfo
      /\ \E k \in j + 1 .. h.m + 1 : NextNew(h, j, k) /\ InMemory(h.ev[k])
  BY DEF KnownAfter
<1>4. PICK k \in j + 1 .. h.m + 1 : NextNew(h, j, k) /\ InMemory(h.ev[k])
  BY <1>3
<1>5. /\ LogEvents(h, h.m + 1) /\ CellOnDisk(h, j, needs) /\ h.ptr[j].page \in Pages
      /\ \A x \in needs : x[1] \in DiskPages
  BY DEF SnapLog
<1>6. PICK i \in 1 .. Len(h.ev[k].page), x \in needs :
        /\ h.ev[k].page[i] = h.ptr[j].page /\ h.ev[k].diskPage[i] = x[1]
        /\ h.ptr[j].slot \in DOMAIN x[2].pinfos
        /\ x[2].pinfos[h.ptr[j].slot] = Cell(h, j)
  <2>1. PICK l \in j + 1 .. h.m + 1 :
          /\ NextNew(h, j, l)
          /\ \E i \in 1 .. Len(h.ev[l].page), x \in needs :
               /\ h.ev[l].page[i] = h.ptr[j].page /\ h.ev[l].diskPage[i] = x[1]
               /\ h.ptr[j].slot \in DOMAIN x[2].pinfos
               /\ x[2].pinfos[h.ptr[j].slot] = Cell(h, j)
    BY <1>5 DEF CellOnDisk
  <2>2. l = k
    BY <1>2, <1>4, <2>1, NextNewIs
  <2>3. QED
    BY <2>1, <2>2
<1>7. PICK p : p = h.ptr[j].page
  OBVIOUS
<1>8. rvyDisk[p] = x[1]
  BY <1>4, <1>6, <1>7 DEF InMemory
<1>9. /\ NeededPagesIntact /\ PagesRead(gen, diskStatus, rvyDisk, mem, disk)
      /\ PagesOwned(gen, owner, rvyDisk, nfree)
  BY DEF RvyPages, RvyTable
<1>10. mem[p] = x[2]
  <2>1. rvyDisk[p] # NoDiskPage
    BY <1>5, <1>8, PagesAssumption DEF DiskPages, NoDiskPage
  <2>2. mem[p] = disk[rvyDisk[p]]
    BY <1>5, <1>7, <1>9, <2>1 DEF PagesRead
  <2>3. disk[x[1]] = x[2]
    BY <1>9 DEF NeededPagesIntact
  <2>4. QED
    BY <1>8, <2>2, <2>3
<1>11. owner[p] # NoGen
  <2>1. k \in Nat
    BY <1>1, <1>2
  <2>2. h.ev[k].gn \in Gens
    BY <2>1, EventTypes
  <2>3. PICK g \in Gens : g = h.ev[k].gn
    BY <2>2
  <2>4. gen[g].status \in Live /\ gen[g].page = h.ev[k].page /\ gen[g].diskPage = h.ev[k].diskPage
    <3>1. gen[g] = InfoOf(h.ev[k])
      BY <1>3, <2>3
    <3>2. QED
      BY ONLY <3>1 DEF InfoOf, Live
  <2>5. rvyDisk[gen[g].page[i]] = gen[g].diskPage[i] /\ i \in 1 .. Len(gen[g].page)
    BY <1>6, <1>7, <1>8, <2>4
  <2>6. owner[gen[g].page[i]] = g
    BY <1>9, <2>4, <2>5 DEF PagesOwned
  <2>7. gen[g].page[i] = p /\ g # NoGen
    BY <1>6, <1>7, <2>4, GenerationsAssumption DEF Gens, NoGen
  <2>8. QED
    BY <2>6, <2>7
<1>12. gen[h.ev[j].gn] = NoInfo
  <2>1. \A e \in j + 1 .. h.m + 1 : h.ev[e].gn # h.ev[j].gn
    <3>1. TAKE e \in j + 1 .. h.m + 1
    <3>2. e \in h.a + 1 .. h.m + 1 /\ j \in h.a + 1 .. h.m + 1 /\ e # j
      BY <1>1, <1>2
    <3>3. QED
      BY <1>5, <3>2 DEF LogEvents
  <2>2. h.ev[j].gn \in Gens
    BY <1>2, EventTypes
  <2>3. QED
    BY <1>3, <2>1, <2>2
<1>13. h.ptr[j] # NullPtr
  BY <1>5, PagesAssumption DEF NullPtr, Nil, Pages
<1>14. Deref(h.ptr[j]) = Cell(h, j) /\ h.ptr[j].slot \in DOMAIN mem[h.ptr[j].page].pinfos
  BY <1>6, <1>7, <1>10 DEF Deref
<1>15. QED
  BY <1>5, <1>7, <1>11, <1>12, <1>13, <1>14

(* The generation of event j becomes known.                                *)
KnownWith(t, h, j) ==
  /\ RvyTable(t, owner, diskStatus, rvyDisk, mem, nfree, disk, needs)
  /\ \A e \in j .. h.m + 1 : t[h.ev[e].gn] = InfoOf(h.ev[e])
  /\ \A g \in Gens : (\A e \in j .. h.m + 1 : h.ev[e].gn # g) => t[g] = NoInfo
  /\ Grown(h.ev[j].gn) \in 1 .. MaxGenerations
  /\ \A g \in Gens : t[g].status # "NONEXISTENT" => g < Grown(h.ev[j].gn)

LEMMA Learned ==
  ASSUME Inv, NEW h \in Log, SnapLog(h), RvyPages, NEW j \in h.a + 1 .. h.m, KnownAfter(h, j),
         NEW t, t = [gen EXCEPT ![h.ev[j].gn] = InfoOf(h.ev[j])]
  PROVE  KnownWith(t, h, j)
<1>1. h.m \in Nat /\ h.a \in Nat
  BY LogTypes
<1>2. j \in Nat /\ h.a < j /\ j <= h.m
  BY <1>1
<1>3. /\ \A e \in j + 1 .. h.m + 1 : gen[h.ev[e].gn] = InfoOf(h.ev[e])
      /\ \A g \in Gens : (\A e \in j + 1 .. h.m + 1 : h.ev[e].gn # g) => gen[g] = NoInfo
  BY DEF KnownAfter
<1>4. /\ RvyTable(gen, owner, diskStatus, rvyDisk, mem, nfree, disk, needs)
      /\ ngens \in 1 .. MaxGenerations /\ \A g \in Existing : g < ngens
      /\ gen \in [Gens -> GenInfo]
  BY DEF RvyPages, RvyTable, TableRead
<1>5. /\ LogEvents(h, h.m + 1)
      /\ \A e \in h.a + 1 .. h.m + 1 : \A i \in 1 .. Len(h.ev[e].diskPage) :
           \E x \in needs : x[1] = h.ev[e].diskPage[i]
  BY DEF SnapLog
<1>6. PICK g \in Gens : g = h.ev[j].gn
  BY <1>2, EventTypes
<1>7. \A e \in j + 1 .. h.m + 1 : /\ e \in h.a + 1 .. h.m + 1 /\ j \in h.a + 1 .. h.m + 1
                                  /\ e # j /\ e \in Nat
  BY <1>1, <1>2
<1>8. \A e \in j + 1 .. h.m + 1 : h.ev[e].gn # g
  BY <1>5, <1>6, <1>7 DEF LogEvents
<1>9. gen[g] = NoInfo
  BY <1>3, <1>8
<1>10. PICK info \in GenInfo : info = InfoOf(h.ev[j])
  BY <1>2, InfoType
<1>11. info.status = "NORMAL" /\ info.page = h.ev[j].page /\ info.diskPage = h.ev[j].diskPage
  BY <1>10, StatusFacts
<1>12. Distinct(info.page) /\ Len(info.page) = Len(info.diskPage)
  BY <1>1, <1>2, <1>5, <1>11 DEF LogEvents
<1>13. ASSUME NEW f \in Gens, gen[f].status # "NONEXISTENT"
       PROVE  ToSet(gen[f].diskPage) \cap ToSet(info.diskPage) = {}
  <2>1. PICK e \in j + 1 .. h.m + 1 : h.ev[e].gn = f
    BY <1>3, <1>13 DEF NoInfo
  <2>2. gen[f].diskPage = h.ev[e].diskPage
    <3>1. gen[f] = InfoOf(h.ev[e])
      BY <1>3, <2>1
    <3>2. QED
      BY ONLY <3>1 DEF InfoOf
  <2>3. QED
    BY <1>5, <1>7, <1>11, <2>2 DEF LogEvents
<1>14. \A d \in ToSet(info.diskPage) : \E x \in needs : x[1] = d
  <2>1. j \in h.a + 1 .. h.m + 1
    BY <1>1, <1>2
  <2>2. h.ev[j].diskPage \in Seq(DiskPages)
    BY <1>2, EventTypes
  <2>3. ToSet(h.ev[j].diskPage) = {h.ev[j].diskPage[i] : i \in 1 .. Len(h.ev[j].diskPage)}
    BY <2>2, Members
  <2>4. QED
    BY <1>5, <1>11, <2>1, <2>3
<1>15. t = [gen EXCEPT ![g] = info]
  BY <1>6, <1>10
<1>16. RvyTable(t, owner, diskStatus, rvyDisk, mem, nfree, disk, needs)
  <2>1. gen[g].status = "NONEXISTENT"
    BY <1>9 DEF NoInfo
  <2>2. RvyTable([gen EXCEPT ![g] = info], owner, diskStatus, rvyDisk, mem, nfree, disk, needs)
    BY ONLY <1>4, <1>11, <1>12, <1>13, <1>14, <2>1, g \in Gens, info \in GenInfo, AddGen
  <2>3. QED
    BY ONLY <1>15, <2>2
<1>17. t[g] = info /\ \A f \in Gens : f # g => t[f] = gen[f]
  BY <1>4, <1>15
<1>18. ASSUME NEW e \in j .. h.m + 1 PROVE t[h.ev[e].gn] = InfoOf(h.ev[e])
  <2>1. CASE e = j
    BY <1>6, <1>10, <1>17, <2>1
  <2>2. CASE e # j
    <3>1. e \in j + 1 .. h.m + 1
      BY <1>1, <1>2, <2>2
    <3>2. h.ev[e].gn \in Gens
      BY <1>7, <3>1, EventTypes
    <3>3. QED
      BY <1>3, <1>8, <1>17, <3>1, <3>2
  <2>3. QED
    BY <2>1, <2>2
<1>19. ASSUME NEW f \in Gens, \A e \in j .. h.m + 1 : h.ev[e].gn # f PROVE t[f] = NoInfo
  <2>1. j \in j .. h.m + 1 /\ \A e \in j + 1 .. h.m + 1 : e \in j .. h.m + 1
    BY <1>1, <1>2
  <2>2. f # g
    BY <1>6, <1>19, <2>1
  <2>3. QED
    BY <1>3, <1>17, <1>19, <2>1, <2>2
<1>20. PICK r : r = Grown(g)
  OBVIOUS
<1>21. r \in 1 .. MaxGenerations /\ ngens <= r /\ g < r
  <2>1. g \in 0 .. MaxGenerations - 1 /\ MaxGenerations \in Nat
    BY GenerationsAssumption DEF Gens
  <2>2. ngens \in Nat /\ ngens >= 1 /\ ngens <= MaxGenerations
    BY <1>4, <2>1
  <2>3. {ngens, g + 1} \in SUBSET Nat /\ {ngens, g + 1} # {}
        /\ \A n \in {ngens, g + 1} : n <= MaxGenerations
    BY <2>1, <2>2
  <2>4. r \in {ngens, g + 1} /\ \A n \in {ngens, g + 1} : n <= r
    BY <1>20, <2>1, <2>3, LargestNumber DEF Grown
  <2>5. ngens <= r /\ g + 1 <= r /\ (r = ngens \/ r = g + 1)
    BY <2>4
  <2>6. QED
    BY ONLY <2>1, <2>2, <2>5
<1>22. ASSUME NEW f \in Gens, t[f].status # "NONEXISTENT" PROVE f < r
  <2>1. CASE f = g
    BY <1>21, <2>1
  <2>2. CASE f # g
    <3>1. f < ngens
      BY <1>4, <1>17, <1>22, <2>2 DEF Existing
    <3>2. f \in Nat /\ ngens \in Nat /\ r \in Nat
      BY <1>4, <1>21, GenerationsAssumption DEF Gens
    <3>3. QED
      BY ONLY <1>21, <3>1, <3>2
  <2>3. QED
    BY <2>1, <2>2
<1>23. QED
  BY <1>6, <1>16, <1>18, <1>19, <1>20, <1>21, <1>22 DEF KnownWith

(* What was in memory stays there when other pages are read.               *)
LEMMA StaysInMemory ==
  ASSUME NEW e \in Event, InMemory(e), NEW page,
         \A p \in Pages : p \notin ToSet(page) => rvyDisk'[p] = rvyDisk[p],
         ToSet(page) \cap ToSet(e.page) = {}
  PROVE  InMemory(e)'
<1>1. e.page \in Seq(Pages)
  BY DEF Event
<1>2. \A i \in 1 .. Len(e.page) : e.page[i] \in Pages /\ e.page[i] \in ToSet(e.page)
  BY <1>1, Members
<1>3. \A i \in 1 .. Len(e.page) : rvyDisk[e.page[i]] = e.diskPage[i]
  BY DEF InMemory
<1>4. \A i \in 1 .. Len(e.page) : rvyDisk'[e.page[i]] = e.diskPage[i]
  BY <1>2, <1>3
<1>5. QED
  BY <1>4 DEF InMemory

(* Generations of the base list were in memory together.                   *)
LEMMA BasePages ==
  ASSUME NEW h \in Log, LogOK(h), LogEvents(h, h.m + 1), NEW j \in h.a + 1 .. h.b
  PROVE  /\ \A e \in j + 1 .. h.b + 1 :
              e \in h.a + 1 .. h.m + 1 /\ ToSet(h.ev[j].page) \cap ToSet(h.ev[e].page) = {}
         /\ \A k : NextNew(h, j, k) => k \in j + 1 .. h.b + 1
<1>1. h.m \in Nat /\ h.a \in Nat /\ h.b \in Nat /\ h.c \in Nat
  BY LogTypes
<1>2. h.a <= h.b /\ h.b <= h.m /\ (h.b = h.m \/ (h.c # h.m /\ h.b < h.m)) /\ LogShape(h) /\ LogColl(h)
  BY <1>1 DEF LogOK, LogShape
<1>3. j \in Nat /\ h.a < j /\ j <= h.b
  BY <1>1
<1>4. ASSUME NEW e \in j + 1 .. h.b + 1
      PROVE  e \in h.a + 1 .. h.m + 1 /\ ToSet(h.ev[j].page) \cap ToSet(h.ev[e].page) = {}
  <2>1. e \in h.a + 1 .. h.m + 1 /\ j \in h.a + 1 .. h.m + 1 /\ j < e /\ e <= h.b + 1
    BY <1>1, <1>2, <1>3
  <2>2. h.coll[j] # 0 => h.b < h.coll[j] /\ h.coll[j] \in Nat
    BY <1>2, <1>3, CollRange
  <2>3. h.coll[j] = 0 \/ h.coll[j] >= e
    BY ONLY <1>1, <2>1, <2>2, e \in j + 1 .. h.b + 1, <1>3
  <2>4. QED
    BY <2>1, <2>3 DEF LogEvents
<1>5. ASSUME NEW k, NextNew(h, j, k) PROVE k \in j + 1 .. h.b + 1
  <2>1. k \in Nat /\ j + 1 <= k /\ k <= h.m + 1
    BY <1>1, <1>3, <1>5 DEF NextNew
  <2>2. CASE h.b = h.m
    BY <1>1, <1>3, <2>1, <2>2
  <2>3. CASE h.b # h.m
    <3>1. New(h, h.b + 1)
      <4>1. h.b + 1 \in h.a + 1 .. h.m + 1 /\ First(h, h.b + 1)
        BY <1>1, <1>2 DEF First
      <4>2. QED
        BY <4>1 DEF LogEvents
    <3>2. ~(h.b + 1 < k)
      <4>1. h.b + 1 < k => h.b + 1 \in j + 1 .. k - 1
        BY <1>1, <1>3, <2>1
      <4>2. QED
        BY <1>5, <3>1, <4>1 DEF NextNew
    <3>3. QED
      BY <1>1, <1>3, <2>1, <3>2
  <2>4. QED
    BY <2>2, <2>3
<1>6. QED
  BY <1>4, <1>5

(* Event j is read.                                                        *)
LEMMA EventRead ==
  ASSUME Inv, NEW h \in Log, SnapLog(h), RvyPages, NEW j \in h.a + 1 .. h.m, KnownAfter(h, j),
         New(h, j) \/ j <= h.b,
         NEW p, p = Cell(h, j),
         gen' = [gen EXCEPT ![p.gn] = InfoOf(p)], ngens' = Grown(p.gn),
         owner' = OwnerRead(p.gn, p), nfree' = NFreeRead(p), rvy_read_generation(p),
         diskStatus' = StatusRead(p),
         UNCHANGED <<disk, needs, lists, root, prevTo, isCollecting>>,
         order' \in Seq(Gens), Distinct(order'),
         rvyArgs'.younger = IF New(h, j) THEN h.ev[j].gn ELSE rvyArgs.younger
  PROVE  /\ RvyPages' /\ KnownAfter(h, j - 1)'
         /\ InMemory(h.ev[j])'
         /\ j <= h.b => \A e \in j + 1 .. h.b : InMemory(h.ev[e]) => InMemory(h.ev[e])'
<1>1. h.m \in Nat /\ h.a \in Nat /\ h.b \in Nat /\ h.c \in Nat
  BY LogTypes
<1>2. j \in Nat /\ h.a < j /\ j <= h.m /\ (j - 1) + 1 = j /\ j - 1 \in Nat
  BY <1>1
<1>3. LogOK(h) /\ LogEvents(h, h.m + 1) /\ h.b <= h.m
  <2>1. LogOK(h) /\ LogEvents(h, h.m + 1)
    BY DEF SnapLog
  <2>2. LogShape(h)
    BY <2>1 DEF LogOK
  <2>3. h.b <= h.m
    BY ONLY <1>1, <2>2 DEF LogShape
  <2>4. QED
    BY <2>1, <2>3
<1>4. PICK g \in Gens : g = h.ev[j].gn
  BY <1>2, EventTypes
<1>5. p.gn = g /\ p.page = h.ev[j].page /\ p.diskPage = h.ev[j].diskPage /\ InfoOf(p) = InfoOf(h.ev[j])
  BY <1>4 DEF Cell, InfoOf
<1>6. PICK t : t = [gen EXCEPT ![h.ev[j].gn] = InfoOf(h.ev[j])]
  OBVIOUS
<1>7. gen' = t
  BY <1>4, <1>5, <1>6
<1>8. /\ RvyTable(t, owner, diskStatus, rvyDisk, mem, nfree, disk, needs)
      /\ \A e \in j .. h.m + 1 : t[h.ev[e].gn] = InfoOf(h.ev[e])
      /\ \A f \in Gens : (\A e \in j .. h.m + 1 : h.ev[e].gn # f) => t[f] = NoInfo
      /\ Grown(h.ev[j].gn) \in 1 .. MaxGenerations
      /\ \A f \in Gens : t[f].status # "NONEXISTENT" => f < Grown(h.ev[j].gn)
  <2>1. KnownWith(t, h, j)
    BY <1>6, Learned
  <2>2. QED
    BY ONLY <2>1 DEF KnownWith
<1>9. t[g].status \in Live /\ t[g].page = p.page /\ t[g].diskPage = p.diskPage
  <2>1. j \in j .. h.m + 1
    BY <1>1, <1>2
  <2>2. t[g] = InfoOf(h.ev[j])
    BY <1>4, <1>8, <2>1
  <2>3. QED
    BY ONLY <1>5, <2>2 DEF InfoOf, Live
<1>10. PICK rd : rd = Put(rvyDisk, p.page, p.diskPage)
  OBVIOUS
<1>11. /\ RvyTable(t, OwnerRead(g, p), StatusRead(p), rd, MemRead(p), NFreeRead(p), disk, needs)
       /\ \A i \in 1 .. Len(p.page) : rd[p.page[i]] = p.diskPage[i]
       /\ \A q \in Pages : q \notin ToSet(p.page) => rd[q] = rvyDisk[q]
       /\ \A d \in ToSet(p.diskPage) : StatusRead(p)[d] = "ALLOCATED"
       /\ \A d \in DiskPages : diskStatus[d] = "ALLOCATED" => StatusRead(p)[d] = "ALLOCATED"
  <2>1. diskStatus \in [DiskPages -> {"FREE", "ALLOCATED", "UNKNOWN"}]
    BY DEF Inv
  <2>2. QED
    BY ONLY <1>8, <1>9, <1>10, <2>1, g \in Gens, ReadGen
<1>12. rvyDisk' = rd /\ mem' = MemRead(p) /\ owner' = OwnerRead(g, p)
  BY <1>5, <1>10 DEF rvy_read_generation
<1>13. RvyPages'
  <2>1. RvyTable(gen, owner, diskStatus, rvyDisk, mem, nfree, disk, needs)'
    BY <1>7, <1>11, <1>12
  <2>2. NeededPagesIntact' /\ lists' = root'.lists
    BY DEF RvyPages, NeededPagesIntact
  <2>3. ngens' \in 1 .. MaxGenerations /\ \A f \in Existing' : f < ngens'
    BY <1>4, <1>5, <1>7, <1>8 DEF Existing
  <2>4. QED
    BY <2>1, <2>2, <2>3 DEF RvyPages
<1>14. InMemory(h.ev[j])'
  BY <1>5, <1>11, <1>12 DEF InMemory
<1>15. \A q \in Pages : q \notin ToSet(h.ev[j].page) => rvyDisk'[q] = rvyDisk[q]
  BY <1>5, <1>11, <1>12
<1>16. ASSUME j <= h.b, NEW e \in j + 1 .. h.b + 1, InMemory(h.ev[e])
       PROVE  InMemory(h.ev[e])'
  <2>1. j \in h.a + 1 .. h.b
    BY <1>1, <1>2, <1>16
  <2>2. ToSet(h.ev[j].page) \cap ToSet(h.ev[e].page) = {}
    BY <1>3, <2>1, BasePages
  <2>3. h.ev[e] \in Event
    BY <1>1, <1>2, LogTypes
  <2>4. QED
    BY <1>15, <1>16, <2>2, <2>3, StaysInMemory
<1>17. \A e \in j + 1 .. h.m + 1 : AllocatedOnDisk(h.ev[e]) => AllocatedOnDisk(h.ev[e])'
  <2>1. TAKE e \in j + 1 .. h.m + 1
  <2>2. e \in Nat
    BY <1>1, <1>2
  <2>3. h.ev[e].diskPage \in Seq(DiskPages)
    BY <2>2, EventTypes
  <2>4. ToSet(h.ev[e].diskPage) \subseteq DiskPages
    BY <2>3, Members
  <2>5. QED
    BY <1>11, <2>4 DEF AllocatedOnDisk
<1>18. AllocatedOnDisk(h.ev[j])'
  BY <1>5, <1>11 DEF AllocatedOnDisk
<1>19. PICK k \in j + 1 .. h.m + 1 : NextNew(h, j, k) /\ InMemory(h.ev[k]) /\ rvyArgs.younger = h.ev[k].gn
  BY DEF KnownAfter
<1>20. \E l \in (j - 1) + 1 .. h.m + 1 :
         NextNew(h, j - 1, l) /\ InMemory(h.ev[l])' /\ rvyArgs'.younger = h.ev[l].gn
  <2>1. CASE New(h, j)
    <3>1. NextNew(h, j - 1, j)
      BY <1>1, <1>2, <2>1 DEF NextNew
    <3>2. j \in (j - 1) + 1 .. h.m + 1
      BY <1>1, <1>2
    <3>3. QED
      BY <1>14, <2>1, <3>1, <3>2
  <2>2. CASE ~New(h, j)
    <3>1. k \in Nat /\ j + 1 <= k /\ k <= h.m + 1
      BY <1>1, <1>2
    <3>2. NextNew(h, j - 1, k)
      <4>1. \A x \in (j - 1) + 1 .. k - 1 : x = j \/ x \in j + 1 .. k - 1
        BY <1>2, <3>1
      <4>2. New(h, k) /\ \A x \in j + 1 .. k - 1 : ~New(h, x)
        BY <1>19 DEF NextNew
      <4>3. k \in (j - 1) + 1 .. h.m + 1
        BY <1>1, <1>2, <3>1
      <4>4. QED
        BY ONLY <2>2, <4>1, <4>2, <4>3 DEF NextNew
    <3>3. j <= h.b /\ j \in h.a + 1 .. h.b
      BY <1>1, <1>2, <2>2
    <3>4. k \in j + 1 .. h.b + 1
      BY <1>3, <1>19, <3>3, BasePages
    <3>5. InMemory(h.ev[k])'
      BY <1>16, <1>19, <3>3, <3>4
    <3>6. k \in (j - 1) + 1 .. h.m + 1
      BY <1>2, <3>1
    <3>7. QED
      BY <1>19, <2>2, <3>2, <3>5, <3>6
  <2>3. QED
    BY <2>1, <2>2
<1>21. KnownAfter(h, j - 1)'
  <2>1. \A e \in (j - 1) + 1 .. h.m + 1 : gen'[h.ev[e].gn] = InfoOf(h.ev[e])
    BY <1>2, <1>7, <1>8
  <2>2. \A f \in Gens : (\A e \in (j - 1) + 1 .. h.m + 1 : h.ev[e].gn # f) => gen'[f] = NoInfo
    BY <1>2, <1>7, <1>8
  <2>3. prevTo' = NoGen /\ isCollecting' = FALSE
    BY DEF KnownAfter
  <2>4. \A e \in (j - 1) + 1 .. h.m + 1 : New(h, e) \/ e <= h.b => AllocatedOnDisk(h.ev[e])'
    <3>1. TAKE e \in (j - 1) + 1 .. h.m + 1
    <3>2. e = j \/ e \in j + 1 .. h.m + 1
      BY <1>1, <1>2
    <3>3. QED
      BY <1>17, <1>18, <3>2 DEF KnownAfter
  <2>5. QED
    BY ONLY <1>20, <2>1, <2>2, <2>3, <2>4, Zenon DEF KnownAfter
<1>22. \A e \in j + 1 .. h.b : e \in j + 1 .. h.b + 1
  BY <1>1, <1>2
<1>23. QED
  BY <1>13, <1>14, <1>16, <1>21, <1>22

(* Where the base list is, with names for what it is made of.              *)
PlacedAt(h, j, o, y, s, n, u, l) ==
  \E p \in 0 .. n, q \in 1 .. n + 1 :
    /\ p < q
    /\ o = (u \o SubSeq(s, 1, p)) \o SubSeq(s, q, n)
    /\ y = o[l + p]
    /\ \A x \in 1 .. n, e \in h.a + 1 .. h.b : s[x] = h.ev[e].gn =>
         (x <= p <=> New(h, e) /\ j < e) /\ (q <= x <=> ~New(h, e) /\ j < e)
LEMMA PlacedIs ==
  ASSUME NEW h, NEW j, NEW o, NEW y, Placed(h, j, o, y), NEW s, s = h.ord[h.b],
         NEW n, n = Len(s), NEW u, u = UpTo(h, h.b), NEW l, l = Len(u)
  PROVE  PlacedAt(h, j, o, y, s, n, u, l)
<1>1. \E p \in 0 .. Len(h.ord[h.b]), q \in 1 .. Len(h.ord[h.b]) + 1 :
        /\ p < q
        /\ o = (UpTo(h, h.b) \o SubSeq(h.ord[h.b], 1, p))
                 \o SubSeq(h.ord[h.b], q, Len(h.ord[h.b]))
        /\ y = o[Len(UpTo(h, h.b)) + p]
        /\ \A x \in 1 .. Len(h.ord[h.b]), e \in h.a + 1 .. h.b : h.ord[h.b][x] = h.ev[e].gn =>
             (x <= p <=> New(h, e) /\ j < e) /\ (q <= x <=> ~New(h, e) /\ j < e)
  BY ONLY Placed(h, j, o, y), Zenon DEF Placed, BaseTaken
<1>2. PICK p \in 0 .. n, q \in 1 .. n + 1 :
        /\ p < q
        /\ o = (UpTo(h, h.b) \o SubSeq(h.ord[h.b], 1, p))
                 \o SubSeq(h.ord[h.b], q, Len(h.ord[h.b]))
        /\ y = o[Len(UpTo(h, h.b)) + p]
        /\ \A x \in 1 .. n, e \in h.a + 1 .. h.b : h.ord[h.b][x] = h.ev[e].gn =>
             (x <= p <=> New(h, e) /\ j < e) /\ (q <= x <=> ~New(h, e) /\ j < e)
  <2>1. Len(h.ord[h.b]) = n
    BY ONLY s = h.ord[h.b], n = Len(s)
  <2>2. QED
    BY ONLY <1>1, <2>1, Zenon
<1>3. o = (u \o SubSeq(s, 1, p)) \o SubSeq(s, q, n)
  BY ONLY <1>2, s = h.ord[h.b], n = Len(s), u = UpTo(h, h.b)
<1>4. y = o[l + p]
  BY ONLY <1>2, u = UpTo(h, h.b), l = Len(u)
<1>5. \A x \in 1 .. n, e \in h.a + 1 .. h.b : s[x] = h.ev[e].gn =>
        (x <= p <=> New(h, e) /\ j < e) /\ (q <= x <=> ~New(h, e) /\ j < e)
  BY ONLY <1>2, s = h.ord[h.b]
<1>6. QED
  BY ONLY <1>2, <1>3, <1>4, <1>5, Zenon DEF PlacedAt

(* The new generations after event j, youngest first.                      *)
LEMMA UpToFacts ==
  ASSUME NEW h \in Log, LogOK(h), NEW j \in h.b .. h.m
  PROVE  /\ UpTo(h, j) \in Seq(Gens) /\ Len(UpTo(h, j)) = Len(h.up[j]) + 1
         /\ \A q \in 1 .. Len(UpTo(h, j)) : \E e \in j + 1 .. h.m + 1 :
              (e = h.m + 1 \/ New(h, e)) /\ UpTo(h, j)[q] = h.ev[e].gn
<1>1. h.m \in Nat /\ h.b \in Nat /\ j \in Nat /\ h.m + 1 \in Nat
  BY LogTypes
<1>2. PICK g \in Gens : g = h.ev[h.m + 1].gn
  BY <1>1, EventTypes
<1>3. PICK u \in Seq(Gens) : u = h.up[j]
  BY <1>1, EventTypes
<1>4. PICK w : w = <<g>> \o u
  OBVIOUS
<1>5. /\ w \in Seq(Gens) /\ Len(w) = Len(u) + 1 /\ w[1] = g
      /\ \A q \in 1 .. Len(w) : q # 1 => q - 1 \in 1 .. Len(u) /\ w[q] = u[q - 1]
  BY <1>4
<1>6. w = UpTo(h, j)
  BY <1>2, <1>3, <1>4 DEF UpTo
<1>7. ASSUME NEW q \in 1 .. Len(w)
      PROVE  \E e \in j + 1 .. h.m + 1 : (e = h.m + 1 \/ New(h, e)) /\ w[q] = h.ev[e].gn
  <2>1. CASE q = 1
    <3>1. h.m + 1 \in j + 1 .. h.m + 1
      BY <1>1
    <3>2. QED
      BY <1>2, <1>5, <2>1, <3>1
  <2>2. CASE q # 1
    <3>1. q - 1 \in 1 .. Len(u) /\ w[q] = u[q - 1]
      BY <1>5, <2>2
    <3>2. PICK e \in j + 1 .. h.m : New(h, e) /\ h.up[j][q - 1] = h.ev[e].gn
      BY <1>3, <3>1, UpEvents
    <3>3. e \in j + 1 .. h.m + 1
      BY <1>1
    <3>4. QED
      BY <1>3, <3>1, <3>2, <3>3
  <2>3. QED
    BY <2>1, <2>2
<1>8. QED
  BY <1>3, <1>5, <1>6, <1>7

LEMMA UpToBefore ==
  ASSUME NEW h \in Log, LogOK(h), NEW j \in h.b + 1 .. h.m
  PROVE  UpTo(h, j - 1) = IF New(h, j) THEN UpTo(h, j) \o <<h.ev[j].gn>> ELSE UpTo(h, j)
<1>1. h.m \in Nat /\ h.b \in Nat /\ j \in Nat /\ h.m + 1 \in Nat
  BY LogTypes
<1>2. h.up[j - 1] = IF New(h, j) THEN Append(h.up[j], h.ev[j].gn) ELSE h.up[j]
  BY DEF LogOK, LogUp
<1>3. CASE New(h, j)
  <2>1. PICK g \in Gens : g = h.ev[h.m + 1].gn
    BY <1>1, EventTypes
  <2>2. PICK x \in Gens : x = h.ev[j].gn
    BY <1>1, EventTypes
  <2>3. PICK u \in Seq(Gens) : u = h.up[j]
    BY <1>1, EventTypes
  <2>4. PICK y : y = <<x>>
    OBVIOUS
  <2>5. PICK z : z = <<g>>
    OBVIOUS
  <2>6. y \in Seq(Gens) /\ z \in Seq(Gens)
    BY <2>4, <2>5
  <2>7. Append(u, x) = u \o y
    BY <2>4
  <2>8. z \o (u \o y) = (z \o u) \o y
    BY <2>6
  <2>9. UpTo(h, j - 1) = z \o Append(u, x) /\ UpTo(h, j) = z \o u
    BY <1>2, <1>3, <2>1, <2>2, <2>3, <2>5 DEF UpTo
  <2>10. QED
    BY <1>3, <2>2, <2>4, <2>7, <2>8, <2>9
<1>4. CASE ~New(h, j)
  BY <1>2, <1>4 DEF UpTo
<1>5. QED
  BY <1>3, <1>4

(* The base round begins with an empty list to fill in.                    *)
LEMMA BaseBegins ==
  ASSUME NEW h \in Log, LogOK(h), NEW o, o = UpTo(h, h.b)
  PROVE  Placed(h, h.b, o, o[Len(o)])
<1>1. h.m \in Nat /\ h.b \in Nat /\ h.a \in Nat /\ h.b <= h.m
  <2>1. h.m \in Nat /\ h.b \in Nat /\ h.a \in Nat /\ h.c \in Nat /\ LogShape(h)
    BY LogTypes DEF LogOK
  <2>2. QED
    BY ONLY <2>1 DEF LogShape
<1>2. PICK s \in Seq(Gens) : s = h.ord[h.b]
  BY <1>1, EventTypes
<1>3. PICK n \in Nat : n = Len(s)
  OBVIOUS
<1>4. SubSeq(s, 1, 0) = <<>> /\ SubSeq(s, n + 1, n) = <<>>
  BY <1>3
<1>5. o \in Seq(Gens)
  <2>1. h.b \in h.b .. h.m
    BY <1>1
  <2>2. QED
    BY <2>1, UpToFacts
<1>6. o = (o \o <<>>) \o <<>>
  BY <1>5
<1>7. o = BaseTaken(h, 0, n + 1)
  BY <1>2, <1>3, <1>4, <1>6 DEF BaseTaken
<1>8. o[Len(o)] = o[Len(UpTo(h, h.b)) + 0]
  BY <1>5
<1>9. \A x \in 1 .. n, e \in h.a + 1 .. h.b : s[x] = h.ev[e].gn =>
        (x <= 0 <=> New(h, e) /\ h.b < e) /\ (n + 1 <= x <=> ~New(h, e) /\ h.b < e)
  BY <1>1
<1>10. 0 \in 0 .. n /\ n + 1 \in 1 .. n + 1 /\ 0 < n + 1
  OBVIOUS
<1>11. QED
  BY ONLY <1>2, <1>3, <1>7, <1>8, <1>9, <1>10 DEF Placed

(* Numbers of generations still to be found are not among those listed.    *)
LEMMA NotListed ==
  ASSUME NEW h \in Log, LogOK(h), LogEvents(h, h.m + 1), NEW j \in h.b + 1 .. h.m
  PROVE  \A q \in 1 .. Len(UpTo(h, j)) : UpTo(h, j)[q] # h.ev[j].gn
<1>1. h.m \in Nat /\ h.a \in Nat /\ h.b \in Nat /\ h.a <= h.b
  BY LogTypes, StartRange DEF LogOK
<1>2. TAKE q \in 1 .. Len(UpTo(h, j))
<1>3. j \in h.b .. h.m
  BY <1>1
<1>4. PICK e \in j + 1 .. h.m + 1 : UpTo(h, j)[q] = h.ev[e].gn
  BY <1>3, UpToFacts
<1>5. e \in h.a + 1 .. h.m + 1 /\ j \in h.a + 1 .. h.m + 1 /\ e # j
  BY <1>1
<1>6. h.ev[e].gn # h.ev[j].gn
  BY <1>5 DEF LogEvents
<1>7. QED
  BY <1>4, <1>6

(* rvy_batch up to its recursive call.                                     *)
LEMMA StackPushed ==
  ASSUME NEW h \in Log, NEW j \in Nat, j <= h.m, 1 <= j
  PROVE  /\ StackOf(h, j - 1) =
              <<[gn |-> h.ev[j].gn, nfrom |-> h.ev[j].nfrom, first |-> First(h, j)]>> \o StackOf(h, j)
         /\ Head(StackOf(h, j - 1)) = [gn |-> h.ev[j].gn, nfrom |-> h.ev[j].nfrom, first |-> First(h, j)]
         /\ Tail(StackOf(h, j - 1)) = StackOf(h, j)
         /\ StackOf(h, j - 1) # <<>> /\ StackOf(h, h.m) = <<>>
<1> DEFINE Fr(x) == [gn |-> h.ev[x].gn, nfrom |-> h.ev[x].nfrom, first |-> First(h, x)]
           F == [gn : Gens, nfrom : Nat, first : BOOLEAN]
<1>1. h.m \in Nat
  BY LogTypes
<1>2. \A x \in Nat : Fr(x) \in F
  <2>1. TAKE x \in Nat
  <2>2. First(h, x) \in BOOLEAN
    BY DEF First
  <2>3. QED
    BY <2>2, EventTypes
<1>3. PICK m \in Nat : m = h.m
  BY <1>1
<1>4. StackOf(h, j) = [x \in 1 .. m - j |-> Fr(j + x)]
      /\ StackOf(h, j - 1) = [x \in 1 .. m - (j - 1) |-> Fr((j - 1) + x)]
      /\ StackOf(h, h.m) = [x \in 1 .. m - m |-> Fr(m + x)]
  BY <1>3 DEF StackOf
<1>5. PICK s : s = StackOf(h, j)
  OBVIOUS
<1>6. PICK r : r = StackOf(h, j - 1)
  OBVIOUS
<1>7. PICK y \in F : y = Fr(j)
  BY <1>2
<1> HIDE DEF Fr, F
<1>8. s \in Seq(F) /\ Len(s) = m - j /\ \A x \in 1 .. m - j : s[x] = Fr(j + x)
  <2>1. m - j \in Nat /\ \A x \in 1 .. m - j : j + x \in Nat
    BY <1>3
  <2>2. QED
    BY <1>2, <1>4, <1>5, <2>1
<1>9. /\ r \in Seq(F) /\ Len(r) = m - j + 1
      /\ \A x \in 1 .. m - j + 1 : r[x] = Fr((j - 1) + x)
  <2>1. m - (j - 1) = m - j + 1 /\ m - j + 1 \in Nat /\ \A x \in 1 .. m - j + 1 : (j - 1) + x \in Nat
    BY <1>3
  <2>2. QED
    BY <1>2, <1>4, <1>6, <2>1
<1>10. PICK z : z = <<y>> \o s
  OBVIOUS
<1>11. z \in Seq(F) /\ Len(z) = m - j + 1 /\ \A x \in 1 .. m - j + 1 : z[x] = IF x = 1 THEN y ELSE s[x - 1]
  BY <1>3, <1>8, <1>10
<1>12. \A x \in 1 .. Len(r) : r[x] = z[x]
  <2>1. TAKE x \in 1 .. Len(r)
  <2>2. x \in 1 .. m - j + 1
    BY <1>9
  <2>3. CASE x = 1
    <3>1. (j - 1) + 1 = j
      BY <1>3
    <3>2. QED
      BY <1>7, <1>9, <1>11, <2>2, <2>3, <3>1
  <2>4. CASE x # 1
    <3>1. x - 1 \in 1 .. m - j /\ j + (x - 1) = (j - 1) + x
      BY <1>3, <2>2, <2>4
    <3>2. QED
      BY <1>8, <1>9, <1>11, <2>2, <2>4, <3>1
  <2>5. QED
    BY <2>3, <2>4
<1>13. r = z
  BY <1>9, <1>11, <1>12, SameSeq
<1>14. Head(r) = y /\ Tail(r) = s /\ r # <<>>
  <2>1. Head(r) = y /\ r # <<>>
    BY <1>3, <1>9, <1>11, <1>13
  <2>2. Tail(r) \in Seq(F) /\ Len(Tail(r)) = m - j /\ \A x \in 1 .. m - j : Tail(r)[x] = r[x + 1]
    BY <1>3, <1>9
  <2>3. \A x \in 1 .. m - j : r[x + 1] = s[x]
    <3>1. TAKE x \in 1 .. m - j
    <3>2. x + 1 \in 1 .. m - j + 1 /\ x + 1 # 1 /\ (x + 1) - 1 = x
      BY <1>3
    <3>3. QED
      BY <1>11, <1>13, <3>2
  <2>4. QED
    BY <1>8, <2>1, <2>2, <2>3, SameSeq
<1>15. StackOf(h, h.m) = <<>>
  BY <1>3, <1>4
<1>16. QED
  BY ONLY <1>5, <1>6, <1>7, <1>10, <1>13, <1>14, <1>15 DEF Fr

(* The pinfo lists, on the way down.                                       *)
LEMMA CellPrev ==
  ASSUME NEW h \in Log, LogOK(h), NEW j \in h.b + 1 .. h.m,
         \A e \in h.a + 1 .. h.m : h.ptr[e] # NullPtr
  PROVE  /\ j \in h.a + 1 .. h.m /\ h.a < h.b /\ h.b <= h.c /\ h.c < h.m
         /\ Cell(h, j).prev = IF First(h, j) THEN NullPtr ELSE h.ptr[j - 1]
         /\ Cell(h, j).prev = NullPtr <=> First(h, j)
         /\ ~First(h, j) => j - 1 \in h.b + 1 .. h.m
<1>1. h.m \in Nat /\ h.a \in Nat /\ h.b \in Nat /\ h.c \in Nat /\ LogShape(h)
  BY LogTypes DEF LogOK
<1>2. h.a < h.b /\ h.b <= h.c /\ h.c < h.m
  BY ONLY <1>1, j \in h.b + 1 .. h.m DEF LogShape
<1>3. j \in h.a + 1 .. h.m /\ j # h.a + 1 /\ j - 1 \in h.a + 1 .. h.m
  BY <1>1, <1>2
<1>4. Cell(h, j).prev = IF First(h, j) THEN NullPtr ELSE h.ptr[j - 1]
  BY <1>3 DEF Cell
<1>5. ~First(h, j) => j # h.b + 1 /\ j - 1 \in h.b + 1 .. h.m
  BY <1>1 DEF First
<1>6. QED
  BY <1>2, <1>3, <1>4, <1>5

LEMMA BatchNewReplay ==
  ASSUME Inv, NEW h \in Log, SnapLog(h), RvyLog(h), rvy_batch_new
  PROVE  RvyLog(h)'
<1>1. h.m \in Nat /\ h.a \in Nat /\ h.b \in Nat /\ h.c \in Nat
  BY LogTypes
<1>2. LogOK(h) /\ LogEvents(h, h.m + 1) /\ RvyPages /\ LogShape(h)
  BY DEF SnapLog, RvyLog, LogOK
<1>3. \A e \in h.a + 1 .. h.m : h.ptr[e] # NullPtr
  BY PagesAssumption DEF SnapLog, NullPtr, Nil, Pages
<1>4. PICK j \in h.b + 1 .. h.m : Down(h, j)
  <2>1. PICK j \in h.a .. h.m : Down(h, j) \/ InBase(h, j)
    BY DEF RvyLog, rvy_batch_new
  <2>2. ~InBase(h, j)
    BY DEF InBase, rvy_batch_new, BaseRound
  <2>3. QED
    BY <2>1, <2>2 DEF Down
<1>5. j \in h.a + 1 .. h.m /\ j \in Nat /\ h.a < h.b /\ h.b <= h.c /\ h.c < h.m /\ h.b < j /\ j <= h.m
  BY <1>1, <1>2, <1>3, CellPrev
<1>6. PICK p : p = Cell(h, j)
  OBVIOUS
<1>7. RvyPinfo = p
  <2>1. rvyArgs.lists.list = h.ptr[j] /\ KnownAfter(h, j)
    BY <1>4 DEF Down
  <2>2. Deref(h.ptr[j]) = Cell(h, j)
    BY <1>2, <1>5, <2>1, CellRead
  <2>3. QED
    BY <1>6, <2>1, <2>2 DEF RvyPinfo
<1>8. New(h, j) /\ p.nfrom = 0 /\ p.gn = h.ev[j].gn
  BY <1>6, <1>7 DEF rvy_batch_new, Cell, New
<1>9. PICK g \in Gens : g = h.ev[j].gn
  BY <1>5, EventTypes
<1>10. PICK u \in Seq(Gens) : u = UpTo(h, j)
  BY <1>1, <1>2, <1>5, UpToFacts
<1>11. order = u /\ rvyArgs.younger = u[Len(u)] /\ Len(u) >= 1 /\ order \in Seq(Gens) /\ Distinct(order)
  <2>1. j \in h.b .. h.m
    BY <1>1
  <2>2. Len(u) = Len(h.up[j]) + 1 /\ h.up[j] \in Seq(Gens)
    BY <1>2, <1>5, <1>10, <2>1, UpToFacts, EventTypes
  <2>3. QED
    BY <1>2, <1>4, <1>10, <2>2 DEF Down, RvyPages
<1>12. order' = u \o <<g>>
  <2>1. order' = insert_generation_after(u[Len(u)], g)
    BY <1>7, <1>8, <1>9, <1>11 DEF rvy_batch_new
  <2>2. PICK e : e = <<>>
    OBVIOUS
  <2>3. e \in Seq(Gens)
    BY <2>2
  <2>a. order = u \o e
    BY <1>11, <2>2
  <2>b. u # <<>>
    BY <1>11
  <2>4. insert_generation_after(u[Len(u)], g) = (u \o <<g>>) \o e
    BY <1>11, <2>3, <2>a, <2>b, InsertedAfter
  <2>5. (u \o <<g>>) \o e = u \o <<g>>
    BY <2>2
  <2>6. QED
    BY <2>1, <2>4, <2>5
<1>13. order' = UpTo(h, j - 1)
  BY <1>2, <1>8, <1>9, <1>10, <1>12, UpToBefore
<1>14. order' \in Seq(Gens) /\ Distinct(order') /\ Len(order') = Len(u) + 1 /\ order'[Len(order')] = g
  <2>1. \A q \in 1 .. Len(u) : u[q] # g
    BY <1>2, <1>9, <1>10, NotListed
  <2>2. order' \in Seq(Gens) /\ Len(order') = Len(u) + 1 /\ order'[Len(u) + 1] = g
        /\ \A q \in 1 .. Len(u) : order'[q] = u[q]
    BY <1>12
  <2>3. Distinct(order')
    BY <1>11, <2>1, <2>2 DEF Distinct
  <2>4. QED
    BY <2>2, <2>3
<1>15. rvyArgs'.younger = g
  BY <1>7, <1>8, <1>9 DEF rvy_batch_new
<1>16. RvyPages' /\ KnownAfter(h, j - 1)'
  <2>1. KnownAfter(h, j)
    BY <1>4 DEF Down
  <2>2. /\ gen' = [gen EXCEPT ![p.gn] = InfoOf(p)] /\ ngens' = Grown(p.gn)
        /\ owner' = OwnerRead(p.gn, p) /\ nfree' = NFreeRead(p) /\ rvy_read_generation(p)
        /\ diskStatus' = StatusRead(p)
        /\ UNCHANGED <<disk, needs, lists, root, prevTo, isCollecting>>
    BY <1>7 DEF rvy_batch_new, gcVars, ghostVars
  <2>3. rvyArgs'.younger = IF New(h, j) THEN h.ev[j].gn ELSE rvyArgs.younger
    BY <1>8, <1>9, <1>15
  <2>4. QED
    BY <1>2, <1>5, <1>6, <1>8, <1>14, <2>1, <2>2, <2>3, EventRead
<1>17. p.prev = (IF First(h, j) THEN NullPtr ELSE h.ptr[j - 1]) /\ (p.prev = NullPtr <=> First(h, j))
       /\ (~First(h, j) => j - 1 \in h.b + 1 .. h.m)
  BY <1>2, <1>3, <1>6, CellPrev
<1>18. StackAt(h, j - 1)'
  <2>1. rvyStack' = <<[gn |-> p.gn, nfrom |-> 0, first |-> (p.prev = NullPtr)]>> \o rvyStack
    BY <1>7 DEF rvy_batch_new
  <2>2. (p.prev = NullPtr) = First(h, j)
    BY <1>17 DEF First
  <2>3. rvyStack = StackOf(h, j) /\ h.ev[j].nfrom = 0
    BY <1>4, <1>8 DEF Down, StackAt, New
  <2>4. StackOf(h, j - 1) =
          <<[gn |-> h.ev[j].gn, nfrom |-> h.ev[j].nfrom, first |-> First(h, j)]>> \o StackOf(h, j)
    <3>1. 1 <= j
      BY ONLY <1>1, <1>5
    <3>2. QED
      BY ONLY <1>5, <3>1, h \in Log, StackPushed
  <2>5. QED
    BY <1>8, <2>1, <2>2, <2>3, <2>4 DEF StackAt
<1>19. rvyArgs.lists = [list |-> h.ptr[j], prev |-> h.ptr[Start(h, j)],
                        prevPrev |-> IF h.c < j /\ h.b < h.c THEN h.ptr[h.b] ELSE NullPtr]
  BY <1>4 DEF Down
<1>20. /\ First(h, j) => rvyArgs'.lists = [list |-> rvyArgs.lists.prev, prev |-> rvyArgs.lists.prevPrev,
                                           prevPrev |-> NullPtr]
       /\ ~First(h, j) => rvyArgs'.lists = [rvyArgs.lists EXCEPT !.list = p.prev]
  BY <1>7, <1>17 DEF rvy_batch_new
<1>21. phase' = "rvy_batch"
  BY DEF rvy_batch_new
<1>22. First(h, j) => Start(h, j) = j - 1
  BY <1>2, StartSame
<1>23. ASSUME j - 1 \in h.b + 1 .. h.m,
              rvyArgs'.lists = [list |-> h.ptr[j - 1], prev |-> h.ptr[Start(h, j - 1)],
                 prevPrev |-> IF h.c < j - 1 /\ h.b < h.c THEN h.ptr[h.b] ELSE NullPtr]
       PROVE  Down(h, j - 1)'
  BY <1>13, <1>14, <1>15, <1>16, <1>18, <1>21, <1>23 DEF Down
<1>24. ASSUME j - 1 = h.b,
              rvyArgs'.lists = [list |-> h.ptr[h.b], prev |-> NullPtr, prevPrev |-> NullPtr]
       PROVE  InBase(h, h.b)'
  <2>1. Placed(h, h.b, order', order'[Len(order')])
    BY <1>2, <1>13, <1>24, BaseBegins
  <2>2. Placed(h, h.b, order', rvyArgs'.younger)
    BY <1>14, <1>15, <2>1
  <2>3. \A e \in h.b + 1 .. h.b : FALSE
    BY <1>1
  <2>4. h.b \in h.a .. h.b /\ h.b # h.a
    BY <1>1, <1>5
  <2>5. QED
    BY <1>16, <1>18, <1>21, <1>24, <2>2, <2>3, <2>4 DEF InBase
<1>25. Down(h, j - 1)' \/ InBase(h, j - 1)'
  <2>1. CASE ~First(h, j)
    <3>1. Start(h, j - 1) = Start(h, j) /\ (h.c < j - 1 <=> h.c < j)
      <4>1. h.c < j - 1 <=> h.c < j
        BY <1>1, <1>5, <2>1 DEF First
      <4>2. QED
        BY <1>2, <2>1, <4>1, StartSame
    <3>2. rvyArgs'.lists = [list |-> h.ptr[j - 1], prev |-> h.ptr[Start(h, j - 1)],
             prevPrev |-> IF h.c < j - 1 /\ h.b < h.c THEN h.ptr[h.b] ELSE NullPtr]
      BY <1>17, <1>19, <1>20, <2>1, <3>1
    <3>3. QED
      BY <1>17, <1>23, <2>1, <3>2
  <2>2. CASE First(h, j) /\ j # h.b + 1
    <3>1. j - 1 = h.c /\ h.b < h.c /\ h.c < j
      BY <1>1, <1>5, <2>2 DEF First
    <3>2. Start(h, j - 1) = h.b /\ Start(h, j) = j - 1 /\ ~(h.c < j - 1)
      BY <1>1, <1>22, <2>2, <3>1 DEF Start
    <3>3. rvyArgs'.lists = [list |-> h.ptr[j - 1], prev |-> h.ptr[Start(h, j - 1)],
             prevPrev |-> IF h.c < j - 1 /\ h.b < h.c THEN h.ptr[h.b] ELSE NullPtr]
      BY <1>19, <1>20, <2>2, <3>1, <3>2
    <3>4. j - 1 \in h.b + 1 .. h.m
      BY <1>1, <1>5, <2>2
    <3>5. QED
      BY <1>23, <3>3, <3>4
  <2>3. CASE j = h.b + 1
    <3>1. j - 1 = h.b /\ First(h, j) /\ ~(h.c < j /\ h.b < h.c)
      BY <1>1, <2>3 DEF First
    <3>2. rvyArgs'.lists = [list |-> h.ptr[h.b], prev |-> NullPtr, prevPrev |-> NullPtr]
      BY <1>19, <1>20, <1>22, <3>1
    <3>3. QED
      BY <1>24, <3>1, <3>2
  <2>4. QED
    BY <2>1, <2>2, <2>3
<1>26. j - 1 \in h.a .. h.m
  BY <1>1, <1>5
<1>27. QED
  BY <1>16, <1>21, <1>25, <1>26 DEF RvyLog

LEMMA BatchCollectedReplay ==
  ASSUME Inv, NEW h \in Log, SnapLog(h), RvyLog(h), rvy_batch_collected
  PROVE  RvyLog(h)'
<1>1. h.m \in Nat /\ h.a \in Nat /\ h.b \in Nat /\ h.c \in Nat
  BY LogTypes
<1>2. LogOK(h) /\ LogEvents(h, h.m + 1) /\ RvyPages /\ LogShape(h)
  BY DEF SnapLog, RvyLog, LogOK
<1>3. \A e \in h.a + 1 .. h.m : h.ptr[e] # NullPtr
  BY PagesAssumption DEF SnapLog, NullPtr, Nil, Pages
<1>4. PICK j \in h.b + 1 .. h.m : Down(h, j)
  <2>1. PICK j \in h.a .. h.m : Down(h, j) \/ InBase(h, j)
    BY DEF RvyLog, rvy_batch_collected
  <2>2. ~InBase(h, j)
    BY DEF InBase, rvy_batch_collected, BaseRound
  <2>3. QED
    BY <2>1, <2>2 DEF Down
<1>5. j \in h.a + 1 .. h.m /\ j \in Nat /\ h.a < h.b /\ h.b <= h.c /\ h.c < h.m /\ h.b < j /\ j <= h.m
  BY <1>1, <1>2, <1>3, CellPrev
<1>6. PICK p : p = Cell(h, j)
  OBVIOUS
<1>7. RvyPinfo = p
  <2>1. rvyArgs.lists.list = h.ptr[j] /\ KnownAfter(h, j)
    BY <1>4 DEF Down
  <2>2. Deref(h.ptr[j]) = Cell(h, j)
    BY <1>2, <1>5, <2>1, CellRead
  <2>3. QED
    BY <1>6, <2>1, <2>2 DEF RvyPinfo
<1>8. ~New(h, j) /\ p.nfrom = h.ev[j].nfrom /\ p.gn = h.ev[j].gn /\ InfoOf(p) = InfoOf(h.ev[j])
  BY <1>6, <1>7 DEF rvy_batch_collected, Cell, New, InfoOf
<1>9. ~First(h, j)
  <2>1. j \in h.a + 1 .. h.m + 1
    BY <1>1, <1>5
  <2>2. QED
    BY <1>2, <1>8, <2>1 DEF LogEvents
<1>10. p.prev = h.ptr[j - 1] /\ j - 1 \in h.b + 1 .. h.m
  BY <1>2, <1>3, <1>6, <1>9, CellPrev
<1>11. PICK t : t = [gen EXCEPT ![h.ev[j].gn] = InfoOf(h.ev[j])]
  OBVIOUS
<1>12. gen' = t /\ ngens' = Grown(h.ev[j].gn)
  BY <1>7, <1>8, <1>11 DEF rvy_batch_collected
<1>13. UNCHANGED <<owner, diskStatus, rvyDisk, mem, nfree, disk, needs, order, lists, root, prevTo,
                   isCollecting, phase>>
  BY DEF rvy_batch_collected, diskVars, gcVars, ghostVars
<1>14. /\ RvyTable(t, owner, diskStatus, rvyDisk, mem, nfree, disk, needs)
       /\ \A e \in j .. h.m + 1 : t[h.ev[e].gn] = InfoOf(h.ev[e])
       /\ \A f \in Gens : (\A e \in j .. h.m + 1 : h.ev[e].gn # f) => t[f] = NoInfo
       /\ Grown(h.ev[j].gn) \in 1 .. MaxGenerations
       /\ \A f \in Gens : t[f].status # "NONEXISTENT" => f < Grown(h.ev[j].gn)
  <2>1. KnownAfter(h, j)
    BY <1>4 DEF Down
  <2>2. KnownWith(t, h, j)
    BY <1>2, <1>5, <1>11, <2>1, Learned
  <2>3. QED
    BY ONLY <2>2 DEF KnownWith
<1>15. RvyPages'
  <2>1. RvyTable(gen, owner, diskStatus, rvyDisk, mem, nfree, disk, needs)'
    BY <1>12, <1>13, <1>14
  <2>2. NeededPagesIntact' /\ lists' = root'.lists /\ order' \in Seq(Gens) /\ Distinct(order')
    BY <1>2, <1>13 DEF RvyPages, NeededPagesIntact
  <2>3. ngens' \in 1 .. MaxGenerations /\ \A f \in Existing' : f < ngens'
    BY <1>12, <1>14 DEF Existing
  <2>4. QED
    BY <2>1, <2>2, <2>3 DEF RvyPages
<1>16. (j - 1) + 1 = j
  BY <1>5
<1>17. \E k \in (j - 1) + 1 .. h.m + 1 :
         NextNew(h, j - 1, k) /\ InMemory(h.ev[k])' /\ rvyArgs'.younger = h.ev[k].gn
  <2>1. PICK k \in j + 1 .. h.m + 1 :
          NextNew(h, j, k) /\ InMemory(h.ev[k]) /\ rvyArgs.younger = h.ev[k].gn
    BY <1>4 DEF Down, KnownAfter
  <2>2. k \in Nat /\ j + 1 <= k /\ k <= h.m + 1
    BY <1>1, <1>5
  <2>3. \A x \in (j - 1) + 1 .. k - 1 : x = j \/ x \in j + 1 .. k - 1
    BY <1>5, <2>2
  <2>4. New(h, k) /\ \A x \in j + 1 .. k - 1 : ~New(h, x)
    BY <2>1 DEF NextNew
  <2>5. k \in (j - 1) + 1 .. h.m + 1
    BY <1>1, <1>5, <2>2
  <2>6. NextNew(h, j - 1, k)
    BY ONLY <1>8, <2>3, <2>4, <2>5 DEF NextNew
  <2>7. rvyArgs'.younger = rvyArgs.younger
    BY DEF rvy_batch_collected
  <2>8. InMemory(h.ev[k])'
    BY <1>13, <2>1 DEF InMemory
  <2>9. QED
    BY <2>1, <2>5, <2>6, <2>7, <2>8
<1>18. KnownAfter(h, j - 1)'
  <2>1. \A e \in (j - 1) + 1 .. h.m + 1 : gen'[h.ev[e].gn] = InfoOf(h.ev[e])
    BY <1>12, <1>14, <1>16
  <2>2. \A f \in Gens : (\A e \in (j - 1) + 1 .. h.m + 1 : h.ev[e].gn # f) => gen'[f] = NoInfo
    BY <1>12, <1>14, <1>16
  <2>3. prevTo' = NoGen /\ isCollecting' = FALSE
    BY <1>4, <1>13 DEF Down, KnownAfter
  <2>4. \A e \in (j - 1) + 1 .. h.m + 1 : New(h, e) \/ e <= h.b => AllocatedOnDisk(h.ev[e])'
    <3>1. TAKE e \in (j - 1) + 1 .. h.m + 1
    <3>2. e = j \/ e \in j + 1 .. h.m + 1
      BY <1>1, <1>5
    <3>3. ~(j <= h.b)
      BY <1>1, <1>5
    <3>4. \A x \in j + 1 .. h.m + 1 : New(h, x) \/ x <= h.b => AllocatedOnDisk(h.ev[x])
      BY <1>4 DEF Down, KnownAfter
    <3>5. QED
      BY <1>8, <1>13, <3>2, <3>3, <3>4 DEF AllocatedOnDisk
  <2>5. QED
    BY ONLY <1>17, <2>1, <2>2, <2>3, <2>4, Zenon DEF KnownAfter
<1>19. StackAt(h, j - 1)'
  <2>1. rvyStack' = <<[gn |-> p.gn, nfrom |-> p.nfrom, first |-> FALSE]>> \o rvyStack
    BY <1>7 DEF rvy_batch_collected
  <2>2. First(h, j) = FALSE
    BY <1>9 DEF First
  <2>3. rvyStack = StackOf(h, j)
    BY <1>4 DEF Down, StackAt
  <2>4. StackOf(h, j - 1) =
          <<[gn |-> h.ev[j].gn, nfrom |-> h.ev[j].nfrom, first |-> First(h, j)]>> \o StackOf(h, j)
    <3>1. 1 <= j
      BY ONLY <1>1, <1>5
    <3>2. QED
      BY ONLY <1>5, <3>1, h \in Log, StackPushed
  <2>5. QED
    BY <1>8, <2>1, <2>2, <2>3, <2>4 DEF StackAt
<1>20. Down(h, j - 1)'
  <2>1. rvyArgs' = [rvyArgs EXCEPT !.lists.list = h.ptr[j - 1]]
    BY <1>7, <1>10 DEF rvy_batch_collected
  <2>2. h.c < j - 1 <=> h.c < j
    BY <1>1, <1>5, <1>9 DEF First
  <2>3. Start(h, j - 1) = Start(h, j)
    BY <1>2, <1>9, StartSame
  <2>4. rvyArgs'.lists = [list |-> h.ptr[j - 1], prev |-> h.ptr[Start(h, j - 1)],
           prevPrev |-> IF h.c < j - 1 /\ h.b < h.c THEN h.ptr[h.b] ELSE NullPtr]
    <3>1. rvyArgs.lists = [list |-> h.ptr[j], prev |-> h.ptr[Start(h, j)],
                        prevPrev |-> IF h.c < j /\ h.b < h.c THEN h.ptr[h.b] ELSE NullPtr]
      BY <1>4 DEF Down
    <3>2. rvyArgs'.lists = [rvyArgs.lists EXCEPT !.list = h.ptr[j - 1]]
      BY <2>1
    <3>3. QED
      BY <2>2, <2>3, <3>1, <3>2
  <2>5. rvyArgs'.younger = rvyArgs.younger
    BY <2>1
  <2>6. h.up[j - 1] = h.up[j]
    BY <1>2, <1>8 DEF LogOK, LogUp
  <2>7. order = UpTo(h, j) /\ rvyArgs.younger = order[Len(order)]
    BY <1>4 DEF Down
  <2>8. order' = UpTo(h, j - 1)
    BY <1>13, <2>6, <2>7 DEF UpTo
  <2>9. phase' = "rvy_batch"
    BY DEF rvy_batch_collected
  <2>10. rvyArgs'.younger = order'[Len(order')]
    BY <1>13, <2>5, <2>7
  <2>11. QED
    BY ONLY <1>10, <1>18, <1>19, <2>4, <2>8, <2>9, <2>10, Zenon DEF Down
<1>21. j - 1 \in h.a .. h.m
  BY <1>1, <1>5
<1>22. phase' = "rvy_batch"
  BY DEF rvy_batch_collected
<1>23. QED
  BY <1>15, <1>20, <1>21, <1>22 DEF RvyLog

(* The base round fills in the list from both ends.                        *)
LEMMA Rear ==
  ASSUME NEW s \in Seq(Gens), NEW q \in 1 .. Len(s) + 1
  PROVE  /\ SubSeq(s, q, Len(s)) \in Seq(Gens) /\ Len(SubSeq(s, q, Len(s))) = Len(s) + 1 - q
         /\ \A i \in 1 .. Len(s) + 1 - q : SubSeq(s, q, Len(s))[i] = s[(q - 1) + i]
<1>1. PICK n \in Nat : n = Len(s)
  OBVIOUS
<1>2. q - 1 \in 0 .. n /\ (q - 1) + 1 = q /\ n - (q - 1) = n + 1 - q
  BY <1>1
<1>3. PICK r : r = q - 1
  OBVIOUS
<1>4. r \in 0 .. Len(s) /\ r + 1 = q /\ Len(s) - r = n + 1 - q
  BY <1>1, <1>2, <1>3
<1>5. /\ SubSeq(s, r + 1, Len(s)) \in Seq(Gens) /\ Len(SubSeq(s, r + 1, Len(s))) = Len(s) - r
      /\ \A i \in 1 .. Len(s) - r : SubSeq(s, r + 1, Len(s))[i] = s[r + i]
  BY ONLY <1>4, s \in Seq(Gens), Cut
<1>6. QED
  BY ONLY <1>1, <1>3, <1>4, <1>5

LEMMA FrontNext ==
  ASSUME NEW s \in Seq(Gens), NEW p \in 0 .. Len(s) - 1
  PROVE  SubSeq(s, 1, p + 1) = SubSeq(s, 1, p) \o <<s[p + 1]>>
<1>1. PICK n \in Nat : n = Len(s)
  OBVIOUS
<1>2. p \in 0 .. Len(s) /\ p + 1 \in 0 .. Len(s) /\ p \in Nat /\ s[p + 1] \in Gens
  BY <1>1
<1>3. PICK a : a = SubSeq(s, 1, p)
  OBVIOUS
<1>4. PICK b : b = SubSeq(s, 1, p + 1)
  OBVIOUS
<1>5. a \in Seq(Gens) /\ Len(a) = p /\ \A i \in 1 .. p : a[i] = s[i]
  BY <1>2, <1>3
<1>6. b \in Seq(Gens) /\ Len(b) = p + 1 /\ \A i \in 1 .. p + 1 : b[i] = s[i]
  BY <1>2, <1>4
<1>7. PICK x \in Gens : x = s[p + 1]
  BY <1>2
<1>8. PICK c : c = a \o <<x>>
  OBVIOUS
<1>9. c \in Seq(Gens) /\ Len(c) = p + 1 /\ c[p + 1] = x /\ \A i \in 1 .. p : c[i] = a[i]
  BY <1>2, <1>5, <1>8
<1>10. \A i \in 1 .. p + 1 : b[i] = c[i]
  BY <1>2, <1>5, <1>6, <1>7, <1>9
<1>11. b = c
  BY <1>6, <1>9, <1>10, SameSeq
<1>12. QED
  BY <1>3, <1>4, <1>7, <1>8, <1>11

LEMMA RearNext ==
  ASSUME NEW s \in Seq(Gens), NEW q \in 2 .. Len(s) + 1
  PROVE  SubSeq(s, q - 1, Len(s)) = <<s[q - 1]>> \o SubSeq(s, q, Len(s))
<1>1. PICK n \in Nat : n = Len(s)
  OBVIOUS
<1>2. PICK r \in Nat : r = q - 1
  BY <1>1
<1>3. /\ r \in 1 .. Len(s) + 1 /\ q \in 1 .. Len(s) + 1 /\ r \in 1 .. n /\ s[r] \in Gens
      /\ r - 1 \in Nat /\ q = r + 1
  BY <1>1, <1>2
<1>4. PICK a : a = SubSeq(s, q, Len(s))
  OBVIOUS
<1>5. PICK b : b = SubSeq(s, r, Len(s))
  OBVIOUS
<1>6. a \in Seq(Gens) /\ Len(a) = Len(s) + 1 - q /\ \A i \in 1 .. Len(s) + 1 - q : a[i] = s[(q - 1) + i]
  BY ONLY <1>3, <1>4, s \in Seq(Gens), Rear
<1>7. b \in Seq(Gens) /\ Len(b) = Len(s) + 1 - r /\ \A i \in 1 .. Len(s) + 1 - r : b[i] = s[(r - 1) + i]
  BY ONLY <1>3, <1>5, s \in Seq(Gens), Rear
<1>8. PICK x \in Gens : x = s[r]
  BY <1>3
<1>9. PICK c : c = <<x>> \o a
  OBVIOUS
<1>10. c \in Seq(Gens) /\ Len(c) = Len(a) + 1 /\ c[1] = x
       /\ \A i \in 1 .. Len(c) : i # 1 => i - 1 \in 1 .. Len(a) /\ c[i] = a[i - 1]
  <2>1. a \in Seq(Gens)
    BY <1>6
  <2>2. QED
    BY ONLY <1>9, <2>1, x \in Gens
<1>11. Len(c) = Len(b)
  BY <1>1, <1>3, <1>6, <1>7, <1>10
<1>12. \A i \in 1 .. Len(b) : b[i] = c[i]
  <2>1. TAKE i \in 1 .. Len(b)
  <2>2. i \in 1 .. Len(s) + 1 - r /\ i \in Nat
    BY <1>1, <1>3, <1>7
  <2>3. b[i] = s[(r - 1) + i]
    BY <1>7, <2>2
  <2>4. CASE i = 1
    <3>1. (r - 1) + 1 = r
      BY <1>3
    <3>2. QED
      BY <1>8, <1>10, <2>3, <2>4, <3>1
  <2>5. CASE i # 1
    <3>1. i - 1 \in 1 .. Len(a) /\ c[i] = a[i - 1]
      BY <1>10, <1>11, <2>5
    <3>2. a[i - 1] = s[(q - 1) + (i - 1)]
      BY <1>6, <3>1
    <3>3. (q - 1) + (i - 1) = (r - 1) + i
      BY <1>3, <2>2
    <3>4. QED
      BY <2>3, <3>1, <3>2, <3>3
  <2>6. QED
    BY <2>4, <2>5
<1>13. b = c
  BY <1>7, <1>10, <1>11, <1>12, SameSeq
<1>14. QED
  BY <1>2, <1>4, <1>5, <1>8, <1>9, <1>13

LEMMA InsertedDistinct ==
  ASSUME NEW u \in Seq(Gens), NEW v \in Seq(Gens), NEW g \in Gens, Distinct(u \o v),
         \A i \in 1 .. Len(u \o v) : (u \o v)[i] # g
  PROVE  (u \o <<g>>) \o v \in Seq(Gens) /\ Distinct((u \o <<g>>) \o v)
<1>1. PICK n \in Nat : n = Len(u)
  OBVIOUS
<1>2. PICK m \in Nat : m = Len(v)
  OBVIOUS
<1>3. PICK w : w = u \o v
  OBVIOUS
<1>4. PICK y : y = (u \o <<g>>) \o v
  OBVIOUS
<1>5. /\ w \in Seq(Gens) /\ Len(w) = n + m /\ \A i \in 1 .. n : w[i] = u[i]
      /\ \A i \in 1 .. m : w[n + i] = v[i]
  BY <1>1, <1>2, <1>3
<1>6. /\ y \in Seq(Gens) /\ Len(y) = n + 1 + m
      /\ \A i \in 1 .. Len(y) : y[i] = IF i <= n THEN u[i] ELSE IF i = n + 1 THEN g ELSE v[i - (n + 1)]
  <2>1. PICK x : x = u \o <<g>>
    OBVIOUS
  <2>2. x \in Seq(Gens) /\ Len(x) = n + 1 /\ \A i \in 1 .. n + 1 : x[i] = IF i <= n THEN u[i] ELSE g
    BY <1>1, <2>1
  <2>3. y = x \o v
    BY <1>4, <2>1
  <2>4. y \in Seq(Gens) /\ Len(y) = n + 1 + m
        /\ \A i \in 1 .. Len(y) : y[i] = IF i <= n + 1 THEN x[i] ELSE v[i - (n + 1)]
    <3>1. PICK l \in Nat : l = n + 1
      OBVIOUS
    <3>2. Len(x) = l /\ x \in Seq(Gens)
      BY <2>2, <3>1
    <3>3. y \in Seq(Gens) /\ Len(y) = l + m
          /\ \A i \in 1 .. Len(y) : y[i] = IF i <= l THEN x[i] ELSE v[i - l]
      <4>1. /\ x \o v \in Seq(Gens) /\ Len(x \o v) = Len(x) + Len(v)
            /\ \A i \in 1 .. Len(x) + Len(v) : (x \o v)[i] = IF i <= Len(x) THEN x[i] ELSE v[i - Len(x)]
        BY ONLY <3>2, v \in Seq(Gens)
      <4>2. QED
        BY ONLY <1>2, <2>3, <3>2, <4>1, Zenon
    <3>4. QED
      BY ONLY <3>1, <3>3
  <2>5. \A i \in 1 .. Len(y) : y[i] = IF i <= n THEN u[i] ELSE IF i = n + 1 THEN g ELSE v[i - (n + 1)]
    BY <2>2, <2>4
  <2>6. QED
    BY <2>4, <2>5
<1>7. \A i \in 1 .. Len(y) : i # n + 1 =>
        \E k \in 1 .. n + m : k = (IF i <= n THEN i ELSE i - 1) /\ y[i] = w[k]
  <2>1. TAKE i \in 1 .. Len(y)
  <2>2. CASE i <= n
    <3>1. i \in 1 .. n /\ i \in 1 .. n + m
      BY <1>6, <2>2
    <3>2. y[i] = w[i]
      BY <1>5, <1>6, <2>2, <3>1
    <3>3. QED
      BY <2>2, <3>1, <3>2
  <2>3. CASE i > n + 1
    <3>1. i - 1 \in 1 .. n + m /\ i - (n + 1) \in 1 .. m /\ n + (i - (n + 1)) = i - 1
      BY <1>6, <2>3
    <3>2. y[i] = v[i - (n + 1)] /\ w[n + (i - (n + 1))] = v[i - (n + 1)]
      BY <1>5, <1>6, <2>3, <3>1
    <3>3. QED
      BY <2>3, <3>1, <3>2
  <2>4. QED
    BY <1>6, <2>2, <2>3
<1>8. \A i \in 1 .. Len(y) : y[i] = g <=> i = n + 1
  <2>1. y[n + 1] = g
    BY <1>6
  <2>2. \A i \in 1 .. n + m : w[i] # g
    BY <1>3, <1>5
  <2>3. QED
    BY <1>7, <2>1, <2>2
<1>9. Distinct(y)
  <2>1. SUFFICES ASSUME NEW i \in 1 .. Len(y), NEW k \in 1 .. Len(y), y[i] = y[k] PROVE i = k
    BY DEF Distinct
  <2>2. i = n + 1 <=> k = n + 1
    BY <1>8, <2>1
  <2>3. CASE i # n + 1
    <3>1. PICK x \in 1 .. n + m : x = (IF i <= n THEN i ELSE i - 1) /\ y[i] = w[x]
      BY <1>7, <2>3
    <3>2. PICK z \in 1 .. n + m : z = (IF k <= n THEN k ELSE k - 1) /\ y[k] = w[z]
      BY <1>7, <2>2, <2>3
    <3>3. x = z
      BY <1>3, <1>5, <2>1, <3>1, <3>2 DEF Distinct
    <3>4. i \in Nat /\ k \in Nat
      BY <1>6
    <3>5. QED
      BY <2>2, <2>3, <3>1, <3>2, <3>3, <3>4
  <2>4. QED
    BY <2>2, <2>3
<1>10. QED
  BY <1>4, <1>6, <1>9

LEMMA JoinedIs ==
  ASSUME NEW u \in Seq(Gens), NEW v \in Seq(Gens)
  PROVE  /\ u \o v \in Seq(Gens) /\ Len(u \o v) = Len(u) + Len(v)
         /\ Len(u) \in Nat /\ Len(v) \in Nat
         /\ \A i \in 1 .. Len(u) : (u \o v)[i] = u[i]
         /\ \A i \in 1 .. Len(v) : (u \o v)[Len(u) + i] = v[i]
OBVIOUS

LEMMA JoinedTwice ==
  ASSUME NEW u \in Seq(Gens), NEW v \in Seq(Gens), NEW w \in Seq(Gens)
  PROVE  (u \o v) \o w = u \o (v \o w)
OBVIOUS

(* Event j is next in the list as it was when the base list was closed.    *)
LEMMA PlacedNext ==
  ASSUME NEW h \in Log, LogOK(h), LogEvents(h, h.m + 1), NEW j \in h.a + 1 .. h.b,
         NEW o, NEW y, Placed(h, j, o, y)
  PROVE  \E w \in Seq(Gens), v \in Seq(Gens) :
           /\ o = w \o v /\ w # <<>> /\ y = w[Len(w)]
           /\ \A i \in 1 .. Len(w \o v) : (w \o v)[i] # h.ev[j].gn
           /\ Placed(h, j - 1, (w \o <<h.ev[j].gn>>) \o v, IF New(h, j) THEN h.ev[j].gn ELSE y)
<1>1. h.m \in Nat /\ h.a \in Nat /\ h.b \in Nat /\ h.a <= h.b /\ h.b <= h.m
  <2>1. h.m \in Nat /\ h.a \in Nat /\ h.b \in Nat /\ h.c \in Nat /\ LogShape(h)
    BY LogTypes DEF LogOK
  <2>2. QED
    BY ONLY <2>1 DEF LogShape
<1>2. j \in Nat /\ h.a < j /\ j <= h.b /\ LogShape(h) /\ LogColl(h) /\ OrdAt(h, h.b)
  BY <1>1 DEF LogOK, LogOrd
<1>3. PICK g \in Gens : g = h.ev[j].gn
  BY <1>2, EventTypes
<1>4. PICK s \in Seq(Gens) : s = h.ord[h.b]
  BY <1>1, EventTypes
<1>5. PICK n \in Nat : n = Len(s)
  OBVIOUS
<1>6. PICK u \in Seq(Gens) : u = UpTo(h, h.b)
  BY <1>1, UpToFacts
<1>7. PICK l \in Nat : l = Len(u)
  OBVIOUS
<1>8. l >= 1 /\ \A i \in 1 .. l : u[i] # g
  <2>1. h.b \in h.b .. h.m
    BY <1>1
  <2>2. Len(u) = Len(h.up[h.b]) + 1 /\ h.up[h.b] \in Seq(Gens)
    BY <1>1, <1>6, <2>1, UpToFacts, EventTypes
  <2>3. ASSUME NEW i \in 1 .. l PROVE u[i] # g
    <3>1. PICK e \in h.b + 1 .. h.m + 1 : u[i] = h.ev[e].gn
      BY <1>6, <1>7, <2>1, UpToFacts
    <3>2. e \in h.a + 1 .. h.m + 1 /\ j \in h.a + 1 .. h.m + 1 /\ e # j
      BY <1>1, <1>2
    <3>3. QED
      BY <1>3, <3>1, <3>2 DEF LogEvents
  <2>4. QED
    BY <1>7, <2>2, <2>3
<1>9. PICK p \in 0 .. n, q \in 1 .. n + 1 :
        /\ p < q
        /\ o = (u \o SubSeq(s, 1, p)) \o SubSeq(s, q, n)
        /\ y = o[l + p]
        /\ \A x \in 1 .. n, e \in h.a + 1 .. h.b : s[x] = h.ev[e].gn =>
             (x <= p <=> New(h, e) /\ j < e) /\ (q <= x <=> ~New(h, e) /\ j < e)
  <2>1. PlacedAt(h, j, o, y, s, n, u, l)
    BY ONLY <1>4, <1>5, <1>6, <1>7, Placed(h, j, o, y), PlacedIs
  <2>2. QED
    BY ONLY <2>1, Zenon DEF PlacedAt
<1>10. PICK a : a = SubSeq(s, 1, p)
  OBVIOUS
<1>11. PICK v : v = SubSeq(s, q, n)
  OBVIOUS
<1>12. a \in Seq(Gens) /\ Len(a) = p /\ \A i \in 1 .. p : a[i] = s[i]
  BY <1>5, <1>10
<1>13. v \in Seq(Gens) /\ Len(v) = n + 1 - q /\ \A i \in 1 .. n + 1 - q : v[i] = s[(q - 1) + i]
  <2>1. q \in 1 .. Len(s) + 1
    BY <1>5
  <2>2. QED
    BY ONLY <1>5, <1>11, <2>1, s \in Seq(Gens), Rear
<1>14. PICK w : w = u \o a
  OBVIOUS
<1>15. /\ w \in Seq(Gens) /\ Len(w) = l + p /\ \A i \in 1 .. l : w[i] = u[i]
       /\ \A i \in 1 .. p : w[l + i] = a[i]
  <2>1. a \in Seq(Gens)
    BY <1>12
  <2>2. /\ u \o a \in Seq(Gens) /\ Len(u \o a) = Len(u) + Len(a)
        /\ \A i \in 1 .. Len(u) : (u \o a)[i] = u[i]
        /\ \A i \in 1 .. Len(a) : (u \o a)[Len(u) + i] = a[i]
    BY ONLY <2>1, u \in Seq(Gens), JoinedIs
  <2>3. QED
    BY ONLY <1>7, <1>12, <1>14, <2>2
<1>16. /\ Distinct(s)
       /\ \A x \in 1 .. n : \E e \in h.a + 1 .. h.b : s[x] = h.ev[e].gn
       /\ \A e \in h.a + 1 .. h.b : \E x \in 1 .. n : s[x] = h.ev[e].gn
       /\ \A x, z \in 1 .. n, d, e \in h.a + 1 .. h.b :
            x < z /\ s[x] = h.ev[d].gn /\ s[z] = h.ev[e].gn => Before(h, d, e)
  <2>1. \A e \in h.a + 1 .. h.b : ~Gone(h, e, h.b)
    BY <1>2, BaseInfo
  <2>2. Start(h, h.b) = h.a
    BY <1>1 DEF Start
  <2>3. QED
    BY <1>2, <1>4, <1>5, <2>1, <2>2 DEF OrdAt
<1>17. PICK z \in 1 .. n : s[z] = g
  BY <1>3, <1>16
<1>18. p < z /\ z < q
  <2>1. s[z] = h.ev[j].gn /\ j \in h.a + 1 .. h.b /\ ~(j < j)
    BY <1>1, <1>2, <1>3, <1>17
  <2>2. (z <= p <=> New(h, j) /\ j < j) /\ (q <= z <=> ~New(h, j) /\ j < j)
    BY ONLY <1>9, <2>1, z \in 1 .. n
  <2>3. QED
    BY ONLY <2>1, <2>2, n \in Nat, z \in 1 .. n, p \in 0 .. n, q \in 1 .. n + 1
<1>19. \A x \in 1 .. n, e \in h.a + 1 .. h.b : s[x] = h.ev[e].gn => (x = z <=> e = j)
  <2>1. TAKE x \in 1 .. n, e \in h.a + 1 .. h.b
  <2>2. HAVE s[x] = h.ev[e].gn
  <2>3. e \in h.a + 1 .. h.m + 1 /\ j \in h.a + 1 .. h.m + 1
    BY <1>1, <1>2
  <2>4. h.ev[e].gn = h.ev[j].gn => e = j
    BY <2>3 DEF LogEvents
  <2>5. s[x] = s[z] => x = z
    BY <1>5, <1>16 DEF Distinct
  <2>6. QED
    BY <1>3, <1>17, <2>2, <2>4, <2>5
<1>20. o = w \o v
  BY <1>9, <1>10, <1>11, <1>14
<1>j. /\ \A i \in 1 .. l + p : (w \o v)[i] = w[i]
      /\ \A i \in 1 .. n + 1 - q : (w \o v)[(l + p) + i] = v[i]
      /\ Len(w \o v) = (l + p) + (n + 1 - q)
  <2>1. w \in Seq(Gens) /\ v \in Seq(Gens) /\ Len(w) = l + p /\ Len(v) = n + 1 - q
    BY <1>13, <1>15
  <2>2. /\ Len(w \o v) = Len(w) + Len(v)
        /\ \A i \in 1 .. Len(w) : (w \o v)[i] = w[i]
        /\ \A i \in 1 .. Len(v) : (w \o v)[Len(w) + i] = v[i]
    BY ONLY <2>1, JoinedIs
  <2>3. QED
    BY ONLY <2>1, <2>2
<1>21. y = w[Len(w)] /\ w # <<>>
  <2>1. l + p \in 1 .. Len(w)
    BY <1>8, <1>15
  <2>2. o[l + p] = w[l + p]
    <3>1. l + p \in 1 .. l + p
      BY ONLY <1>15, <2>1
    <3>2. QED
      BY ONLY <1>20, <1>j, <3>1
  <2>3. y = w[Len(w)]
    BY ONLY <1>9, <1>15, <2>2
  <2>4. Len(w) >= 1 /\ w \in Seq(Gens)
    BY <1>15, <2>1
  <2>5. QED
    BY ONLY <2>3, <2>4
<1>22. \A i \in 1 .. Len(w \o v) : (w \o v)[i] # g
  <2>1. TAKE i \in 1 .. Len(w \o v)
  <2>2. CASE i <= l
    <3>1. i \in 1 .. l /\ (w \o v)[i] = u[i]
      BY <1>13, <1>15, <2>2
    <3>2. QED
      BY <1>8, <3>1
  <2>3. CASE l < i /\ i <= l + p
    <3>1. i - l \in 1 .. p /\ l + (i - l) = i /\ (w \o v)[i] = w[i]
      BY <1>13, <1>15, <2>3
    <3>2. (w \o v)[i] = s[i - l]
      BY <1>12, <1>15, <3>1
    <3>3. i - l \in 1 .. n /\ i - l # z
      BY <1>18, <3>1
    <3>4. QED
      BY <1>5, <1>16, <1>17, <3>2, <3>3 DEF Distinct
  <2>4. CASE l + p < i
    <3>1. PICK k : k = i - (l + p)
      OBVIOUS
    <3>2. k \in 1 .. n + 1 - q /\ (w \o v)[i] = v[k]
      <4>1. i \in 1 .. (l + p) + (n + 1 - q)
        BY ONLY <1>j, i \in 1 .. Len(w \o v)
      <4>2. k \in 1 .. n + 1 - q /\ i = (l + p) + k
        BY ONLY <2>4, <3>1, <4>1, l \in Nat, p \in 0 .. n, n \in Nat, q \in 1 .. n + 1
      <4>3. QED
        BY ONLY <1>j, <4>2
    <3>3. (w \o v)[i] = s[(q - 1) + k]
      BY <1>13, <3>2
    <3>4. (q - 1) + k \in 1 .. n /\ (q - 1) + k # z
      BY <1>18, <3>2
    <3>5. QED
      BY <1>5, <1>16, <1>17, <3>3, <3>4 DEF Distinct
  <2>5. QED
    BY <1>13, <1>15, <2>2, <2>3, <2>4
<1>23. Placed(h, j - 1, (w \o <<g>>) \o v, IF New(h, j) THEN g ELSE y)
  <2>1. CASE New(h, j)
    <3>1. z = p + 1
      <4>1. SUFFICES ASSUME z # p + 1 PROVE FALSE
        OBVIOUS
      <4>2. p + 1 \in 1 .. n /\ p + 1 < z /\ ~(p + 1 <= p) /\ ~(q <= p + 1)
        BY <1>18, <4>1
      <4>3. PICK e \in h.a + 1 .. h.b : s[p + 1] = h.ev[e].gn
        BY <1>16, <4>2
      <4>4. Before(h, e, j)
        BY <1>3, <1>16, <1>17, <4>2, <4>3
      <4>5. ~(New(h, e) /\ j < e) /\ e # j
        BY <1>9, <1>19, <4>2, <4>3
      <4>6. QED
        BY <1>1, <1>2, <2>1, <4>4, <4>5 DEF Before
    <3>2. p + 1 \in 0 .. n /\ p + 1 < q
      BY <1>18, <3>1
    <3>3. SubSeq(s, 1, p + 1) = a \o <<g>>
      <4>1. p \in 0 .. Len(s) - 1
        BY <1>5, <1>18
      <4>2. QED
        BY <1>10, <1>17, <3>1, <4>1, FrontNext
    <3>4. u \o (a \o <<g>>) = w \o <<g>>
      <4>1. PICK yy : yy = <<g>>
        OBVIOUS
      <4>2. yy \in Seq(Gens)
        BY <4>1
      <4>3. (u \o a) \o yy = u \o (a \o yy)
        BY <1>12, <4>2
      <4>4. QED
        BY <1>14, <4>1, <4>3
    <3>5. PICK r : r = (w \o <<g>>) \o v
      OBVIOUS
    <3>6. r = (u \o SubSeq(s, 1, p + 1)) \o SubSeq(s, q, n)
      BY <1>11, <3>3, <3>4, <3>5
    <3>7. g = r[l + (p + 1)]
      <4>1. PICK x : x = w \o <<g>>
        OBVIOUS
      <4>2. x \in Seq(Gens) /\ Len(x) = (l + p) + 1 /\ x[(l + p) + 1] = g
        BY <1>15, <4>1
      <4>3. r = x \o v
        BY <3>5, <4>1
      <4>4. r[(l + p) + 1] = x[(l + p) + 1]
        BY <1>13, <4>2, <4>3
      <4>5. l + (p + 1) = (l + p) + 1
        OBVIOUS
      <4>6. QED
        BY <4>2, <4>4, <4>5
    <3>8. \A x \in 1 .. n, e \in h.a + 1 .. h.b : s[x] = h.ev[e].gn =>
            (x <= p + 1 <=> New(h, e) /\ j - 1 < e) /\ (q <= x <=> ~New(h, e) /\ j - 1 < e)
      <4>1. TAKE x \in 1 .. n, e \in h.a + 1 .. h.b
      <4>2. HAVE s[x] = h.ev[e].gn
      <4>3. CASE e = j
        <5>1. x = z
          BY <1>19, <4>2, <4>3
        <5>2. j - 1 < j
          BY <1>2
        <5>3. QED
          BY <1>18, <2>1, <3>1, <4>3, <5>1, <5>2
      <4>4. CASE e # j
        <5>1. x # z
          BY <1>19, <4>2, <4>4
        <5>2. (x <= p <=> New(h, e) /\ j < e) /\ (q <= x <=> ~New(h, e) /\ j < e)
          BY <1>9, <4>2
        <5>3. j - 1 < e <=> j < e
          BY <1>1, <1>2, <4>4
        <5>4. x <= p + 1 <=> x <= p
          BY <3>1, <5>1
        <5>5. QED
          BY <5>2, <5>3, <5>4
      <4>5. QED
        BY <4>3, <4>4
    <3>9. Placed(h, j - 1, r, g)
      BY ONLY <1>4, <1>5, <1>6, <1>7, <3>2, <3>6, <3>7, <3>8, q \in 1 .. n + 1 DEF Placed, BaseTaken
    <3>10. QED
      BY <2>1, <3>5, <3>9
  <2>2. CASE ~New(h, j)
    <3>1. z = q - 1
      <4>1. SUFFICES ASSUME z # q - 1 PROVE FALSE
        OBVIOUS
      <4>2. q - 1 \in 1 .. n /\ z < q - 1 /\ ~(q - 1 <= p) /\ ~(q <= q - 1)
        BY <1>18, <4>1
      <4>3. PICK e \in h.a + 1 .. h.b : s[q - 1] = h.ev[e].gn
        BY <1>16, <4>2
      <4>4. Before(h, j, e)
        BY <1>3, <1>16, <1>17, <4>2, <4>3
      <4>5. ~(~New(h, e) /\ j < e)
        BY <1>9, <4>2, <4>3
      <4>6. QED
        BY <2>2, <4>4, <4>5 DEF Before
    <3>2. q - 1 \in 1 .. n + 1 /\ p < q - 1 /\ q \in 2 .. n + 1
      BY <1>18, <3>1
    <3>3. SubSeq(s, q - 1, n) = <<g>> \o v
      <4>1. q \in 2 .. Len(s) + 1
        BY <1>5, <3>2
      <4>2. SubSeq(s, q - 1, Len(s)) = <<s[q - 1]>> \o SubSeq(s, q, Len(s))
        BY ONLY <4>1, s \in Seq(Gens), RearNext
      <4>3. QED
        BY <1>5, <1>11, <1>17, <3>1, <4>2
    <3>4. w \o (<<g>> \o v) = (w \o <<g>>) \o v
      <4>1. PICK yy : yy = <<g>>
        OBVIOUS
      <4>2. yy \in Seq(Gens)
        BY <4>1
      <4>3. (w \o yy) \o v = w \o (yy \o v)
        <5>1. w \in Seq(Gens) /\ v \in Seq(Gens)
          BY <1>13, <1>15
        <5>2. QED
          BY ONLY <4>2, <5>1, JoinedTwice
      <4>4. QED
        BY <4>1, <4>3
    <3>5. PICK r : r = (w \o <<g>>) \o v
      OBVIOUS
    <3>6. r = (u \o SubSeq(s, 1, p)) \o SubSeq(s, q - 1, n)
      BY <1>10, <1>14, <3>3, <3>4, <3>5
    <3>7. y = r[l + p]
      <4>1. PICK x : x = <<g>> \o v
        OBVIOUS
      <4>2. x \in Seq(Gens)
        BY <1>13, <4>1
      <4>3. r = w \o x
        BY <3>4, <3>5, <4>1
      <4>4. l + p \in 1 .. Len(w) /\ Len(w) = l + p
        BY <1>8, <1>15
      <4>5. r[l + p] = w[l + p]
        BY <1>15, <4>2, <4>3, <4>4
      <4>6. QED
        BY <1>21, <4>4, <4>5
    <3>8. \A x \in 1 .. n, e \in h.a + 1 .. h.b : s[x] = h.ev[e].gn =>
            (x <= p <=> New(h, e) /\ j - 1 < e) /\ (q - 1 <= x <=> ~New(h, e) /\ j - 1 < e)
      <4>1. TAKE x \in 1 .. n, e \in h.a + 1 .. h.b
      <4>2. HAVE s[x] = h.ev[e].gn
      <4>3. CASE e = j
        <5>1. x = z
          BY <1>19, <4>2, <4>3
        <5>2. j - 1 < j
          BY <1>2
        <5>3. QED
          BY <1>18, <2>2, <3>1, <4>3, <5>1, <5>2
      <4>4. CASE e # j
        <5>1. x # z
          BY <1>19, <4>2, <4>4
        <5>2. (x <= p <=> New(h, e) /\ j < e) /\ (q <= x <=> ~New(h, e) /\ j < e)
          BY <1>9, <4>2
        <5>3. j - 1 < e <=> j < e
          BY <1>1, <1>2, <4>4
        <5>4. q - 1 <= x <=> q <= x
          BY <3>1, <5>1
        <5>5. QED
          BY <5>2, <5>3, <5>4
      <4>5. QED
        BY <4>3, <4>4
    <3>9. Placed(h, j - 1, r, y)
      BY ONLY <1>4, <1>5, <1>6, <1>7, <3>2, <3>6, <3>7, <3>8, p \in 0 .. n DEF Placed, BaseTaken
    <3>10. QED
      BY <2>2, <3>5, <3>9
  <2>3. QED
    BY <2>1, <2>2
<1>24. QED
  BY ONLY <1>3, <1>13, <1>15, <1>20, <1>21, <1>22, <1>23

(* The base round.                                                         *)
LEMMA AtBase ==
  ASSUME NEW h \in Log, SnapLog(h), RvyLog(h), phase = "rvy_batch", BaseRound
  PROVE  \E j \in h.a .. h.b : InBase(h, j)
<1>1. h.m \in Nat /\ h.a \in Nat /\ h.b \in Nat /\ h.c \in Nat /\ LogShape(h) /\ LogOK(h)
  BY LogTypes DEF SnapLog, LogOK
<1>2. \A e \in h.a + 1 .. h.m : h.ptr[e] # NullPtr
  BY PagesAssumption DEF SnapLog, NullPtr, Nil, Pages
<1>3. PICK j \in h.a .. h.m : Down(h, j) \/ InBase(h, j)
  BY DEF RvyLog
<1>4. ~Down(h, j)
  <2>1. SUFFICES ASSUME Down(h, j) PROVE FALSE
    OBVIOUS
  <2>2. j \in h.b + 1 .. h.m /\ rvyArgs.lists.prev = h.ptr[Start(h, j)]
    BY <2>1 DEF Down
  <2>3. h.a < h.b /\ h.b <= h.c /\ h.c < h.m
    BY <1>1, <1>2, <2>2, CellPrev
  <2>4. Start(h, j) \in h.a + 1 .. h.m
    BY <1>1, <2>2, <2>3 DEF Start
  <2>5. QED
    BY <1>2, <2>2, <2>4 DEF BaseRound
<1>5. QED
  BY <1>3, <1>4 DEF InBase

LEMMA BaseRoundReplay ==
  ASSUME Inv, NEW h \in Log, SnapLog(h), RvyLog(h), rvy_base_major_gc_round
  PROVE  RvyLog(h)'
<1>1. h.m \in Nat /\ h.a \in Nat /\ h.b \in Nat /\ h.c \in Nat /\ LogShape(h) /\ LogOK(h)
  BY LogTypes DEF SnapLog, LogOK
<1>2. LogEvents(h, h.m + 1) /\ RvyPages
  BY DEF SnapLog, RvyLog
<1>3. \A e \in h.a + 1 .. h.m : h.ptr[e] # NullPtr
  BY PagesAssumption DEF SnapLog, NullPtr, Nil, Pages
<1>4. PICK j \in h.a .. h.b : InBase(h, j)
  BY AtBase DEF rvy_base_major_gc_round
<1>5. h.a <= h.b /\ h.b <= h.m /\ h.b <= h.c
  BY ONLY <1>1 DEF LogShape
<1>6. rvyArgs.lists = [list |-> IF j = h.a THEN NullPtr ELSE h.ptr[j],
                       prev |-> NullPtr, prevPrev |-> NullPtr]
  BY <1>4 DEF InBase
<1>7. j # h.a
  BY <1>6 DEF rvy_base_major_gc_round
<1>8. j \in h.a + 1 .. h.b /\ j \in h.a + 1 .. h.m /\ j \in Nat /\ j <= h.b /\ j - 1 \in h.a .. h.b /\ h.a < j
  BY <1>1, <1>5, <1>7
<1>9. PICK p : p = Cell(h, j)
  OBVIOUS
<1>10. KnownAfter(h, j) /\ rvyArgs.lists.list = h.ptr[j]
  BY <1>4, <1>6, <1>7 DEF InBase
<1>11. RvyPinfo = p
  <2>1. Deref(h.ptr[j]) = Cell(h, j)
    BY <1>2, <1>8, <1>10, CellRead
  <2>2. QED
    BY <1>9, <1>10, <2>1 DEF RvyPinfo
<1>12. p.gn = h.ev[j].gn /\ (p.nfrom = 0 <=> New(h, j))
       /\ p.prev = IF j - 1 = h.a THEN NullPtr ELSE h.ptr[j - 1]
  <2>1. ~First(h, j) /\ (j = h.a + 1 <=> j - 1 = h.a)
    BY <1>1, <1>5, <1>8 DEF First
  <2>2. QED
    BY <1>9, <2>1 DEF Cell, New
<1>13. PICK g \in Gens : g = h.ev[j].gn
  BY <1>8, EventTypes
<1>14. PICK w \in Seq(Gens), v \in Seq(Gens) :
         /\ order = w \o v /\ w # <<>> /\ rvyArgs.younger = w[Len(w)]
         /\ \A i \in 1 .. Len(w \o v) : (w \o v)[i] # g
         /\ Placed(h, j - 1, (w \o <<g>>) \o v, IF New(h, j) THEN g ELSE rvyArgs.younger)
  <2>1. Placed(h, j, order, rvyArgs.younger)
    BY <1>4 DEF InBase
  <2>2. LogOK(h) /\ LogEvents(h, h.m + 1) /\ j \in h.a + 1 .. h.b
    BY <1>1, <1>2, <1>8
  <2>3. \E w \in Seq(Gens), v \in Seq(Gens) :
          /\ order = w \o v /\ w # <<>> /\ rvyArgs.younger = w[Len(w)]
          /\ \A i \in 1 .. Len(w \o v) : (w \o v)[i] # h.ev[j].gn
          /\ Placed(h, j - 1, (w \o <<h.ev[j].gn>>) \o v,
                    IF New(h, j) THEN h.ev[j].gn ELSE rvyArgs.younger)
    BY ONLY h \in Log, <2>1, <2>2, PlacedNext
  <2>4. QED
    BY ONLY <1>13, <2>3
<1>15. order \in Seq(Gens) /\ Distinct(order)
  BY <1>2 DEF RvyPages
<1>16. order' = (w \o <<g>>) \o v
  <2>1. order' = insert_generation_after(w[Len(w)], g)
    BY <1>11, <1>12, <1>13, <1>14 DEF rvy_base_major_gc_round
  <2>2. order = w \o v /\ w # <<>>
    BY <1>14
  <2>3. QED
    BY <1>15, <2>1, <2>2, InsertedAfter
<1>17. order' \in Seq(Gens) /\ Distinct(order')
  BY <1>14, <1>15, <1>16, InsertedDistinct
<1>18. rvyArgs' = [rvyArgs EXCEPT !.lists.list = p.prev,
                                  !.younger = IF p.nfrom = 0 THEN p.gn ELSE @]
  BY <1>11 DEF rvy_base_major_gc_round
<1>19. rvyArgs'.younger = IF New(h, j) THEN g ELSE rvyArgs.younger
  BY <1>12, <1>13, <1>18
<1>20. rvyArgs'.lists = [list |-> IF j - 1 = h.a THEN NullPtr ELSE h.ptr[j - 1],
                         prev |-> NullPtr, prevPrev |-> NullPtr]
  BY <1>6, <1>12, <1>18
<1>21. /\ RvyPages' /\ KnownAfter(h, j - 1)' /\ InMemory(h.ev[j])'
       /\ \A e \in j + 1 .. h.b : InMemory(h.ev[e]) => InMemory(h.ev[e])'
  <2>1. /\ gen' = [gen EXCEPT ![p.gn] = InfoOf(p)] /\ ngens' = Grown(p.gn)
        /\ owner' = OwnerRead(p.gn, p) /\ nfree' = NFreeRead(p) /\ rvy_read_generation(p)
        /\ diskStatus' = StatusRead(p)
        /\ UNCHANGED <<disk, needs, lists, root, prevTo, isCollecting>>
    BY <1>11 DEF rvy_base_major_gc_round, gcVars, ghostVars
  <2>2. rvyArgs'.younger = IF New(h, j) THEN h.ev[j].gn ELSE rvyArgs.younger
    BY <1>13, <1>19
  <2>3. QED
    BY <1>2, <1>8, <1>9, <1>10, <1>17, <2>1, <2>2, EventRead
<1>22. InBase(h, j - 1)'
  <2>1. phase' = "rvy_batch" /\ StackAt(h, h.b)'
    BY <1>4 DEF rvy_base_major_gc_round, InBase, StackAt
  <2>2. \A e \in (j - 1) + 1 .. h.b : InMemory(h.ev[e])'
    <3>1. TAKE e \in (j - 1) + 1 .. h.b
    <3>2. e = j \/ e \in j + 1 .. h.b
      BY <1>1, <1>8
    <3>3. QED
      BY <1>4, <1>21, <3>2 DEF InBase
  <2>3. Placed(h, j - 1, order', rvyArgs'.younger)
    BY <1>14, <1>16, <1>19
  <2>4. QED
    BY ONLY <1>8, <1>20, <1>21, <2>1, <2>2, <2>3, Zenon DEF InBase
<1>23. phase' = "rvy_batch" /\ j - 1 \in h.a .. h.m
  BY <1>1, <1>5, <1>8 DEF rvy_base_major_gc_round
<1>24. QED
  BY <1>21, <1>22, <1>23 DEF RvyLog

(* When the base list is read the list of generations is complete.         *)
LEMMA PlacedAll ==
  ASSUME NEW h \in Log, LogOK(h), NEW o, NEW y, Placed(h, h.a, o, y)
  PROVE  o = UpTo(h, h.b) \o h.ord[h.b]
<1>1. h.m \in Nat /\ h.a \in Nat /\ h.b \in Nat /\ h.c \in Nat /\ LogShape(h) /\ OrdAt(h, h.b)
  <2>1. h.m \in Nat /\ h.a \in Nat /\ h.b \in Nat /\ h.c \in Nat /\ LogShape(h)
    BY LogTypes DEF LogOK
  <2>2. h.b \in h.b .. h.m
    BY ONLY <2>1 DEF LogShape
  <2>3. QED
    BY <2>1, <2>2 DEF LogOK, LogOrd
<1>2. h.b <= h.m
  BY ONLY <1>1 DEF LogShape
<1>3. PICK s \in Seq(Gens) : s = h.ord[h.b]
  BY <1>1, EventTypes
<1>4. PICK n \in Nat : n = Len(s)
  OBVIOUS
<1>5. PICK u \in Seq(Gens) : u = UpTo(h, h.b)
  BY <1>1, <1>2, UpToFacts
<1>6. PICK p \in 0 .. n, q \in 1 .. n + 1 :
        /\ p < q
        /\ o = (u \o SubSeq(s, 1, p)) \o SubSeq(s, q, n)
        /\ \A x \in 1 .. n, e \in h.a + 1 .. h.b : s[x] = h.ev[e].gn =>
             (x <= p <=> New(h, e) /\ h.a < e) /\ (q <= x <=> ~New(h, e) /\ h.a < e)
  <2>1. PlacedAt(h, h.a, o, y, s, n, u, Len(u))
    BY ONLY <1>3, <1>4, <1>5, Placed(h, h.a, o, y), PlacedIs
  <2>2. QED
    BY ONLY <2>1, Zenon DEF PlacedAt
<1>7. \A x \in 1 .. n : x <= p \/ q <= x
  <2>1. TAKE x \in 1 .. n
  <2>2. PICK e \in h.a + 1 .. h.b : s[x] = h.ev[e].gn
    BY <1>1, <1>3, <1>4 DEF OrdAt
  <2>3. h.a < e
    BY <1>1
  <2>4. QED
    BY <1>6, <2>2, <2>3
<1>8. q = p + 1
  <2>1. ~(p + 1 < q)
    <3>1. p + 1 < q => p + 1 \in 1 .. n /\ ~(p + 1 <= p) /\ ~(q <= p + 1)
      OBVIOUS
    <3>2. QED
      BY <1>7, <3>1
  <2>2. QED
    BY <1>6, <2>1
<1>9. PICK a : a = SubSeq(s, 1, p)
  OBVIOUS
<1>10. PICK b : b = SubSeq(s, p + 1, n)
  OBVIOUS
<1>11. a \in Seq(Gens) /\ Len(a) = p /\ \A i \in 1 .. p : a[i] = s[i]
  BY <1>4, <1>9
<1>12. b \in Seq(Gens) /\ Len(b) = n - p /\ \A i \in 1 .. n - p : b[i] = s[p + i]
  <2>1. p \in 0 .. Len(s)
    BY <1>4
  <2>2. /\ SubSeq(s, p + 1, Len(s)) \in Seq(Gens) /\ Len(SubSeq(s, p + 1, Len(s))) = Len(s) - p
        /\ \A i \in 1 .. Len(s) - p : SubSeq(s, p + 1, Len(s))[i] = s[p + i]
    BY ONLY <2>1, s \in Seq(Gens), Cut
  <2>3. QED
    BY ONLY <1>4, <1>10, <2>2
<1>13. a \o b = s
  <2>1. /\ a \o b \in Seq(Gens) /\ Len(a \o b) = Len(a) + Len(b)
        /\ \A i \in 1 .. Len(a) : (a \o b)[i] = a[i]
        /\ \A i \in 1 .. Len(b) : (a \o b)[Len(a) + i] = b[i]
    BY <1>11, <1>12, JoinedIs
  <2>2. PICK z : z = a \o b
    OBVIOUS
  <2>3. /\ z \in Seq(Gens) /\ Len(z) = n
        /\ \A i \in 1 .. p : z[i] = s[i]
        /\ \A i \in 1 .. n - p : z[p + i] = s[p + i]
    <3>1. Len(z) = n
      BY ONLY <1>11, <1>12, <2>1, <2>2, p \in 0 .. n, n \in Nat
    <3>2. \A i \in 1 .. p : z[i] = s[i]
      BY ONLY <1>11, <2>1, <2>2
    <3>3. \A i \in 1 .. n - p : z[p + i] = s[p + i]
      BY ONLY <1>11, <1>12, <2>1, <2>2
    <3>4. QED
      BY ONLY <2>1, <2>2, <3>1, <3>2, <3>3
  <2>4. \A i \in 1 .. n : z[i] = s[i]
    <3>1. TAKE i \in 1 .. n
    <3>2. CASE i <= p
      <4>1. i \in 1 .. p
        BY <3>2
      <4>2. QED
        BY <2>3, <4>1
    <3>3. CASE p < i
      <4>1. i - p \in 1 .. n - p /\ p + (i - p) = i
        BY <3>3
      <4>2. z[p + (i - p)] = s[p + (i - p)]
        BY <2>3, <4>1
      <4>3. QED
        BY <4>1, <4>2
    <3>4. QED
      BY <3>2, <3>3
  <2>5. QED
    BY <1>4, <2>2, <2>3, <2>4, SameSeq
<1>14. (u \o a) \o b = u \o (a \o b)
  BY <1>11, <1>12, JoinedTwice
<1>15. QED
  BY <1>3, <1>5, <1>6, <1>8, <1>9, <1>10, <1>13, <1>14

LEMMA BaseDoneReplay ==
  ASSUME Inv, NEW h \in Log, SnapLog(h), RvyLog(h), rvy_base_done
  PROVE  RvyLog(h)'
<1>1. h.m \in Nat /\ h.a \in Nat /\ h.b \in Nat /\ h.c \in Nat /\ LogShape(h) /\ LogOK(h) /\ LogColl(h)
  BY LogTypes DEF SnapLog, LogOK
<1>2. LogEvents(h, h.m + 1) /\ RvyPages
  BY DEF SnapLog, RvyLog
<1>3. \A e \in h.a + 1 .. h.m : h.ptr[e] # NullPtr
  BY PagesAssumption DEF SnapLog, NullPtr, Nil, Pages
<1>4. h.a <= h.b /\ h.b <= h.m /\ h.b <= h.c
  BY ONLY <1>1 DEF LogShape
<1>5. InBase(h, h.a)
  <2>1. PICK j \in h.a .. h.b : InBase(h, j)
    BY AtBase DEF rvy_base_done
  <2>2. rvyArgs.lists.list = IF j = h.a THEN NullPtr ELSE h.ptr[j]
    BY <2>1 DEF InBase
  <2>3. j # h.a => j \in h.a + 1 .. h.m
    BY <1>1, <1>4
  <2>4. j = h.a
    BY <1>3, <2>2, <2>3 DEF rvy_base_done
  <2>5. QED
    BY <2>1, <2>4
<1>6. UNCHANGED <<gen, ngens, order, owner, nfree, mem, lists, isCollecting, prevTo, diskStatus, disk,
                  rvyStack, rvyDisk, root, needs>>
  BY DEF rvy_base_done, heapVars, gcVars, diskVars, rvyVars, ghostVars
<1>7. KnownAfter(h, h.a) /\ StackAt(h, h.b) /\ Placed(h, h.a, order, rvyArgs.younger)
      /\ \A e \in h.a + 1 .. h.b : InMemory(h.ev[e])
  BY <1>5 DEF InBase
<1>8. TableAt(gen, h, h.b, h.m + 1)
  <2>1. \A e \in h.a + 1 .. h.b : gen[h.ev[e].gn] = InfoAt(h, e, h.b)
    <3>1. TAKE e \in h.a + 1 .. h.b
    <3>2. e \in h.a + 1 .. h.m + 1
      BY <1>1, <1>4
    <3>3. QED
      BY <1>1, <1>7, <3>2, BaseInfo DEF KnownAfter
  <2>2. \A e \in h.b + 1 .. h.m + 1 : gen[h.ev[e].gn] = InfoOf(h.ev[e])
    <3>1. \A e \in h.b + 1 .. h.m + 1 : e \in h.a + 1 .. h.m + 1
      BY <1>1, <1>4
    <3>2. QED
      BY <1>7, <3>1 DEF KnownAfter
  <2>3. \A g \in Gens : (\A e \in h.a + 1 .. h.m + 1 : h.ev[e].gn # g) => gen[g] = NoInfo
    BY <1>7 DEF KnownAfter
  <2>4. QED
    BY <2>1, <2>2, <2>3 DEF TableAt
<1>9. ~\E g \in Gens : gen[g].status = "TO_BE_COLLECTED"
  <2>1. SUFFICES ASSUME NEW g \in Gens PROVE gen[g].status # "TO_BE_COLLECTED"
    OBVIOUS
  <2>2. CASE \E e \in h.a + 1 .. h.m + 1 : h.ev[e].gn = g
    <3>1. PICK e \in h.a + 1 .. h.m + 1 : h.ev[e].gn = g
      BY <2>2
    <3>2. gen[g] = InfoOf(h.ev[e])
      BY <1>7, <3>1 DEF KnownAfter
    <3>3. QED
      BY ONLY <3>2 DEF InfoOf
  <2>3. CASE ~\E e \in h.a + 1 .. h.m + 1 : h.ev[e].gn = g
    BY <1>7, <2>3 DEF KnownAfter, NoInfo
  <2>4. QED
    BY <2>2, <2>3
<1>10. order = UpTo(h, h.b) \o h.ord[h.b]
  <2>1. LogOK(h) /\ Placed(h, h.a, order, rvyArgs.younger)
    BY <1>1, <1>7
  <2>2. QED
    BY ONLY h \in Log, <2>1, PlacedAll
<1>11. prevTo = h.pt[h.b] /\ isCollecting = FALSE
  BY <1>1, <1>7 DEF KnownAfter, LogOK, LogPt
<1>12. \A e \in h.a + 1 .. h.m + 1 : New(h, e) \/ e <= h.b => AllocatedOnDisk(h.ev[e])
  BY <1>7 DEF KnownAfter
<1>13. Back(h, h.b)'
  <2>1. phase' = "rvy_return" /\ h.b \in h.b .. h.m
    BY <1>1, <1>4 DEF rvy_base_done
  <2>2. TableAt(gen', h, h.b, h.m + 1) /\ order' = UpTo(h, h.b) \o h.ord[h.b] /\ prevTo' = h.pt[h.b]
        /\ isCollecting' \in BOOLEAN
        /\ (isCollecting' <=> \E g \in Gens : gen'[g].status = "TO_BE_COLLECTED")
    BY <1>6, <1>8, <1>9, <1>10, <1>11
  <2>3. StackAt(h, h.b)'
    BY <1>6, <1>7 DEF StackAt
  <2>4. \A e \in h.a + 1 .. h.m + 1 : New(h, e) \/ e <= h.b => AllocatedOnDisk(h.ev[e])'
    BY <1>6, <1>12 DEF AllocatedOnDisk
  <2>5. \A e \in h.a + 1 .. h.b : ~Gone(h, e, h.b) => InMemory(h.ev[e])'
    BY <1>6, <1>7 DEF InMemory
  <2>6. QED
    BY ONLY <2>1, <2>2, <2>3, <2>4, <2>5, Zenon DEF Back
<1>14. RvyPages'
  BY <1>2, <1>6 DEF RvyPages, NeededPagesIntact, Existing
<1>15. h.b \in h.b .. h.m /\ phase' = "rvy_return"
  BY <1>1, <1>4 DEF rvy_base_done
<1>16. QED
  BY <1>13, <1>14, <1>15 DEF RvyLog

--------------------------------------------------------------------------------
(* The way back.                                                           *)

LEMMA TableGens ==
  ASSUME NEW h \in Log, NEW j \in Nat, NEW n \in Nat, NEW t, TableAt(t, h, j, n)
  PROVE  /\ \A e \in h.a + 1 .. n :
              /\ t[h.ev[e].gn].status # "NONEXISTENT" /\ t[h.ev[e].gn].diskPage = h.ev[e].diskPage
              /\ t[h.ev[e].gn].status \in Live <=> (j < e \/ ~Gone(h, e, j))
              /\ t[h.ev[e].gn].status \in Live => t[h.ev[e].gn].page = h.ev[e].page
         /\ \A g \in Gens : t[g].status # "NONEXISTENT" => \E e \in h.a + 1 .. n : h.ev[e].gn = g
<1>1. h.a \in Nat
  BY LogTypes
<1>2. ASSUME NEW e \in h.a + 1 .. n
      PROVE  /\ t[h.ev[e].gn].status # "NONEXISTENT" /\ t[h.ev[e].gn].diskPage = h.ev[e].diskPage
             /\ t[h.ev[e].gn].status \in Live <=> (j < e \/ ~Gone(h, e, j))
             /\ t[h.ev[e].gn].status \in Live => t[h.ev[e].gn].page = h.ev[e].page
  <2>1. (e \in h.a + 1 .. j \/ e \in j + 1 .. n) /\ (e \in h.a + 1 .. j <=> ~(j < e))
    BY <1>1
  <2>2. CASE e \in h.a + 1 .. j
    <3>1. PICK x : x = InfoAt(h, e, j)
      OBVIOUS
    <3>2. /\ x.status \in Live <=> ~Gone(h, e, j)
          /\ x.status # "NONEXISTENT" /\ x.diskPage = h.ev[e].diskPage
          /\ ~Gone(h, e, j) => x.page = h.ev[e].page
      BY ONLY <3>1, StatusFacts
    <3>3. t[h.ev[e].gn] = x /\ ~(j < e)
      BY <2>1, <2>2, <3>1 DEF TableAt
    <3>4. QED
      BY ONLY <3>2, <3>3, Zenon
  <2>3. CASE e \in j + 1 .. n
    <3>1. t[h.ev[e].gn] = InfoOf(h.ev[e])
      BY <2>3 DEF TableAt
    <3>2. j < e /\ "NORMAL" \in Live /\ "NORMAL" # "NONEXISTENT"
      BY <2>3 DEF Live
    <3>3. /\ InfoOf(h.ev[e]).status = "NORMAL" /\ InfoOf(h.ev[e]).diskPage = h.ev[e].diskPage
          /\ InfoOf(h.ev[e]).page = h.ev[e].page
      BY ONLY StatusFacts
    <3>4. QED
      BY ONLY <3>1, <3>2, <3>3, Zenon
  <2>4. QED
    BY <2>1, <2>2, <2>3
<1>3. ASSUME NEW g \in Gens, t[g].status # "NONEXISTENT" PROVE \E e \in h.a + 1 .. n : h.ev[e].gn = g
  BY <1>3 DEF TableAt, NoInfo
<1>4. QED
  BY <1>2, <1>3

(* Generations that are still live are in memory when event j was read.    *)
LEMMA BackKept ==
  ASSUME NEW h \in Log, LogEvents(h, h.m + 1), NEW j \in h.a + 1 .. h.m + 1,
         \A e \in h.a + 1 .. j - 1 : ~Gone(h, e, j - 1) => InMemory(h.ev[e]),
         \A p \in Pages : p \notin ToSet(h.ev[j].page) => rvyDisk'[p] = rvyDisk[p],
         InMemory(h.ev[j])'
  PROVE  \A e \in h.a + 1 .. j : ~Gone(h, e, j) => InMemory(h.ev[e])'
<1>1. h.m \in Nat /\ h.a \in Nat
  BY LogTypes
<1>2. TAKE e \in h.a + 1 .. j
<1>3. HAVE ~Gone(h, e, j)
<1>4. CASE e = j
  BY <1>4
<1>5. CASE e # j
  <2>1. e \in h.a + 1 .. j - 1 /\ e \in Nat /\ j \in Nat /\ e < j
        /\ e \in h.a + 1 .. h.m + 1
    BY <1>1, <1>5
  <2>2. h.coll[e] \in Nat
    BY <2>1, EventTypes
  <2>3. h.coll[e] = 0 \/ h.coll[e] >= j
    BY <1>3, <2>1, <2>2 DEF Gone
  <2>4. ~Gone(h, e, j - 1)
    BY <2>1, <2>2, <2>3 DEF Gone
  <2>5. ToSet(h.ev[j].page) \cap ToSet(h.ev[e].page) = {}
    BY <2>1, <2>3 DEF LogEvents
  <2>6. h.ev[e] \in Event /\ InMemory(h.ev[e])
    BY <2>1, <2>4, LogTypes
  <2>7. QED
    BY <2>5, <2>6, StaysInMemory
<1>6. QED
  BY <1>4, <1>5

(* Event j, a new generation.                                              *)
Marking(j) == {order[x] : x \in j + 1 .. Len(order)}
Marked(older) ==
  [g \in Gens |-> IF g \in older THEN [gen[g] EXCEPT !.status = "TO_BE_COLLECTED"] ELSE Purged[g]]
MarkedLike(t, u) ==
  /\ u \in [Gens -> GenInfo]
  /\ \A g \in Gens :
       /\ u[g].page = t[g].page /\ u[g].diskPage = t[g].diskPage
       /\ u[g].status = "NONEXISTENT" <=> t[g].status = "NONEXISTENT"
       /\ u[g].status \in Live <=> t[g].status \in Live

LEMMA MarkedTable ==
  ASSUME NEW h \in Log, LogOK(h), LogEvents(h, h.m + 1), gen \in [Gens -> GenInfo],
         NEW j \in h.b + 1 .. h.m, New(h, j), First(h, j), TableAt(gen, h, j - 1, h.m + 1),
         NEW older, older = ToSet(h.ord[j - 1])
  PROVE  /\ Twice = {} /\ TableAt(Marked(older), h, j, h.m + 1)
         /\ MarkedLike(gen, Marked(older))
         /\ \E g \in Gens : Marked(older)[g].status = "TO_BE_COLLECTED"
<1> DEFINE u == Marked(older)
<1>1. /\ h.m \in Nat /\ h.a \in Nat /\ h.b \in Nat /\ h.c \in Nat /\ LogShape(h) /\ LogColl(h)
      /\ LogOrd(h) /\ LogSteps(h)
  BY LogTypes DEF LogOK
<1>2. h.a <= h.b /\ h.b <= h.m
  BY ONLY <1>1 DEF LogShape
<1>3. j \in Nat /\ h.a < j /\ h.b < j /\ j <= h.m /\ j - 1 \in Nat /\ j - 1 \in h.b .. h.m /\ j \in h.a + 1 .. h.m
  BY <1>1, <1>2
<1>4. PICK s \in Seq(Gens) : s = h.ord[j - 1]
  BY <1>3, EventTypes
<1>5. /\ s # <<>>
      /\ \A q \in 1 .. Len(s) : \E e \in h.a + 1 .. j - 1 : s[q] = h.ev[e].gn /\ ~Gone(h, e, j - 1)
      /\ \A e \in h.a + 1 .. j - 1 :
           ~Gone(h, e, j - 1) => \E q \in 1 .. Len(s) : s[q] = h.ev[e].gn
  <2>1. OrdAt(h, j - 1) /\ NewStep(h, j)
    BY <1>1, <1>3 DEF LogOrd, LogSteps
  <2>2. QED
    BY <1>4, <2>1 DEF OrdAt, NewStep
<1>6. \A g : g \in older <=> \E q \in 1 .. Len(s) : g = s[q]
  BY <1>4, Members
<1>7. \A d, e \in h.a + 1 .. h.m + 1 : h.ev[d].gn = h.ev[e].gn => d = e
  BY DEF LogEvents
<1>8. \A e \in h.a + 1 .. j - 1 : e \in h.a + 1 .. h.m + 1 /\ e \in Nat
  BY <1>1, <1>3
<1>9. \A e \in j .. h.m + 1 : e \in h.a + 1 .. h.m + 1 /\ e \in Nat /\ e \notin h.a + 1 .. j - 1
  BY <1>1, <1>3
<1>10. \A e \in h.a + 1 .. j - 1 : h.ev[e].gn \in older <=> ~Gone(h, e, j - 1)
  <2>1. TAKE e \in h.a + 1 .. j - 1
  <2>2. ASSUME h.ev[e].gn \in older PROVE ~Gone(h, e, j - 1)
    <3>1. PICK q \in 1 .. Len(s) : h.ev[e].gn = s[q]
      BY <1>6, <2>2
    <3>2. PICK d \in h.a + 1 .. j - 1 : s[q] = h.ev[d].gn /\ ~Gone(h, d, j - 1)
      BY <1>5
    <3>3. d = e
      BY <1>7, <1>8, <3>1, <3>2
    <3>4. QED
      BY <3>2, <3>3
  <2>3. ASSUME ~Gone(h, e, j - 1) PROVE h.ev[e].gn \in older
    BY <1>5, <1>6, <2>3
  <2>4. QED
    BY <2>2, <2>3
<1>11. \A e \in j .. h.m + 1 : h.ev[e].gn \notin older
  <2>1. SUFFICES ASSUME NEW e \in j .. h.m + 1, h.ev[e].gn \in older PROVE FALSE
    OBVIOUS
  <2>2. PICK q \in 1 .. Len(s) : h.ev[e].gn = s[q]
    BY <1>6, <2>1
  <2>3. PICK d \in h.a + 1 .. j - 1 : s[q] = h.ev[d].gn
    BY <1>5
  <2>4. d = e
    BY <1>7, <1>8, <1>9, <2>2, <2>3
  <2>5. QED
    BY <1>9, <2>4
<1>12. older \subseteq Gens /\ \A g \in older : \E e \in h.a + 1 .. j - 1 : g = h.ev[e].gn
  <2>1. \A q \in 1 .. Len(s) : s[q] \in Gens
    OBVIOUS
  <2>2. older \subseteq Gens
    BY <1>6, <2>1
  <2>3. ASSUME NEW g \in older PROVE \E e \in h.a + 1 .. j - 1 : g = h.ev[e].gn
    <3>1. PICK q \in 1 .. Len(s) : g = s[q]
      BY <1>6
    <3>2. QED
      BY <1>5, <3>1
  <2>4. QED
    BY <2>2, <2>3
<1>13. /\ \A e \in h.a + 1 .. j - 1 : gen[h.ev[e].gn] = InfoAt(h, e, j - 1)
       /\ \A e \in j .. h.m + 1 : gen[h.ev[e].gn] = InfoOf(h.ev[e])
       /\ \A g \in Gens : (\A e \in h.a + 1 .. h.m + 1 : h.ev[e].gn # g) => gen[g] = NoInfo
  <2>1. (j - 1) + 1 = j
    BY <1>3
  <2>2. QED
    BY <2>1 DEF TableAt
<1>14. Twice = {}
  <2>1. SUFFICES ASSUME NEW g \in Gens, gen[g].status = "COLLECTED_TWICE" PROVE FALSE
    BY DEF Twice
  <2>2. PICK e \in h.a + 1 .. h.m + 1 : h.ev[e].gn = g
    BY <1>13, <2>1 DEF NoInfo
  <2>3. e \in h.a + 1 .. j - 1 \/ e \in j .. h.m + 1
    BY <1>1, <1>3
  <2>4. CASE e \in h.a + 1 .. j - 1
    <3>1. gen[g] = InfoAt(h, e, j - 1)
      BY <1>13, <2>2, <2>4
    <3>2. gen[g].status = StatusAt(h, e, j - 1)
      BY ONLY <3>1, StatusFacts
    <3>3. StatusAt(h, e, j - 1) # "COLLECTED_TWICE"
      BY <1>1, <2>4, NewInfo
    <3>4. QED
      BY <2>1, <3>2, <3>3
  <2>5. CASE e \in j .. h.m + 1
    <3>1. gen[g] = InfoOf(h.ev[e])
      BY <1>13, <2>2, <2>5
    <3>2. gen[g].status = "NORMAL"
      BY ONLY <3>1 DEF InfoOf
    <3>3. QED
      BY <2>1, <3>2
  <2>6. QED
    BY <2>3, <2>4, <2>5
<1>15. \A g \in Gens : u[g] = IF g \in older THEN [gen[g] EXCEPT !.status = "TO_BE_COLLECTED"] ELSE gen[g]
  <2>1. \A g \in Gens : Purged[g] = gen[g]
    BY <1>14 DEF Purged
  <2>2. QED
    BY <2>1 DEF Marked
<1>16. u \in [Gens -> GenInfo]
  <2>1. "TO_BE_COLLECTED" \in GenStatus
    BY DEF GenStatus
  <2>2. \A x \in GenInfo : [x EXCEPT !.status = "TO_BE_COLLECTED"] \in GenInfo
    BY <2>1 DEF GenInfo
  <2>3. \A g \in Gens : u[g] \in GenInfo
    BY <1>15, <2>2
  <2>4. u = [g \in Gens |-> u[g]]
    BY DEF Marked
  <2>5. QED
    BY <2>3, <2>4
<1> HIDE DEF u
<1>17. TableAt(u, h, j, h.m + 1)
  <2>1. ASSUME NEW e \in h.a + 1 .. j PROVE u[h.ev[e].gn] = InfoAt(h, e, j)
    <3>1. CASE e = j
      <4>1. InfoAt(h, j, j) = InfoOf(h.ev[j])
        <5>1. ~Gone(h, j, j) /\ Start(h, j) < j
          BY <1>1, <1>3, MadeInfo, StartRange
        <5>2. QED
          BY <1>1, <1>3, <5>1, FreshInfo
      <4>2. j \in j .. h.m + 1 /\ h.ev[j].gn \in Gens
        BY <1>1, <1>3, EventTypes
      <4>3. QED
        BY <1>11, <1>13, <1>15, <3>1, <4>1, <4>2
    <3>2. CASE e # j
      <4>1. e \in h.a + 1 .. j - 1 /\ h.ev[e].gn \in Gens
        <5>1. e \in h.a + 1 .. j - 1
          BY <1>1, <1>3, <3>2
        <5>2. QED
          BY <1>8, <5>1, EventTypes
      <4>2. gen[h.ev[e].gn] = InfoAt(h, e, j - 1)
        BY <1>13, <4>1
      <4>3. /\ Gone(h, e, j - 1) => InfoAt(h, e, j) = InfoAt(h, e, j - 1)
            /\ ~Gone(h, e, j - 1) =>
                 InfoAt(h, e, j) = [InfoAt(h, e, j - 1) EXCEPT !.status = "TO_BE_COLLECTED"]
        BY <1>1, <4>1, NewInfo
      <4>4. CASE Gone(h, e, j - 1)
        BY <1>10, <1>15, <4>1, <4>2, <4>3, <4>4
      <4>5. CASE ~Gone(h, e, j - 1)
        <5>1. u[h.ev[e].gn] = [gen[h.ev[e].gn] EXCEPT !.status = "TO_BE_COLLECTED"]
          BY <1>10, <1>15, <4>1, <4>5
        <5>2. QED
          BY <4>2, <4>3, <4>5, <5>1
      <4>6. QED
        BY <4>4, <4>5
    <3>3. QED
      BY <3>1, <3>2
  <2>2. ASSUME NEW e \in j + 1 .. h.m + 1 PROVE u[h.ev[e].gn] = InfoOf(h.ev[e])
    <3>1. e \in j .. h.m + 1
      BY <1>3
    <3>2. h.ev[e].gn \in Gens
      BY <1>9, <3>1, EventTypes
    <3>3. QED
      BY <1>11, <1>13, <1>15, <3>1, <3>2
  <2>3. ASSUME NEW g \in Gens, \A e \in h.a + 1 .. h.m + 1 : h.ev[e].gn # g PROVE u[g] = NoInfo
    <3>1. g \notin older
      BY <1>8, <1>12, <2>3
    <3>2. QED
      BY <1>13, <1>15, <2>3, <3>1
  <2>4. QED
    BY <2>1, <2>2, <2>3 DEF TableAt
<1>18. \A g \in older : gen[g].status \in Live
  <2>1. TAKE g \in older
  <2>2. PICK e \in h.a + 1 .. j - 1 : g = h.ev[e].gn
    BY <1>12
  <2>3. ~Gone(h, e, j - 1)
    BY <1>10, <2>2
  <2>4. gen[g] = InfoAt(h, e, j - 1)
    BY <1>13, <2>2
  <2>5. QED
    BY ONLY <2>3, <2>4, StatusFacts
<1>19. MarkedLike(gen, u)
  <2>1. ASSUME NEW g \in Gens
        PROVE  /\ u[g].page = gen[g].page /\ u[g].diskPage = gen[g].diskPage
               /\ u[g].status = "NONEXISTENT" <=> gen[g].status = "NONEXISTENT"
               /\ u[g].status \in Live <=> gen[g].status \in Live
    <3>1. CASE g \in older
      <4>1. u[g] = [gen[g] EXCEPT !.status = "TO_BE_COLLECTED"] /\ gen[g].status \in Live /\ gen[g] \in GenInfo
        BY <1>15, <1>18, <3>1
      <4>2. QED
        BY ONLY <4>1 DEF Live, GenInfo
    <3>2. CASE g \notin older
      BY <1>15, <3>2
    <3>3. QED
      BY <3>1, <3>2
  <2>2. QED
    BY <1>16, <2>1 DEF MarkedLike
<1>20. \E g \in Gens : u[g].status = "TO_BE_COLLECTED"
  <2>1. s[1] \in Gens /\ 1 \in 1 .. Len(s)
    BY <1>5
  <2>2. s[1] \in older
    BY <1>6, <2>1
  <2>3. u[s[1]] = [gen[s[1]] EXCEPT !.status = "TO_BE_COLLECTED"] /\ gen[s[1]] \in GenInfo
    BY <1>15, <2>1, <2>2
  <2>4. u[s[1]].status = "TO_BE_COLLECTED"
    BY ONLY <2>3 DEF GenInfo
  <2>5. QED
    BY <2>1, <2>4
<1>21. QED
  BY <1>14, <1>17, <1>19, <1>20 DEF u

LEMMA BehindLast ==
  ASSUME order \in Seq(Gens), Distinct(order), NEW u \in Seq(Gens), NEW v \in Seq(Gens),
         order = u \o v, u # <<>>
  PROVE  IndexOf(u[Len(u)]) = Len(u) /\ Marking(Len(u)) = ToSet(v)
<1>1. PICK n \in Nat : n = Len(u)
  OBVIOUS
<1>2. PICK l \in Nat : l = Len(v)
  OBVIOUS
<1>3. /\ Len(order) = n + l /\ \A i \in 1 .. n : order[i] = u[i]
      /\ \A i \in 1 .. l : order[n + i] = v[i]
  BY <1>1, <1>2, JoinedIs
<1>4. n >= 1
  BY <1>1
<1>5. IndexOf(u[n]) = n
  <2>1. n \in 1 .. Len(order) /\ order[n] = u[n]
    BY <1>3, <1>4
  <2>2. \A i \in 1 .. Len(order) : order[i] = u[n] => i = n
    BY <2>1 DEF Distinct
  <2>3. QED
    BY <2>1, <2>2 DEF IndexOf
<1>6. Marking(n) = ToSet(v)
  <2>1. ToSet(v) = {v[i] : i \in 1 .. l}
    BY <1>2, Members
  <2>2. \A i \in n + 1 .. n + l : i - n \in 1 .. l /\ order[i] = v[i - n]
    <3>1. TAKE i \in n + 1 .. n + l
    <3>2. i - n \in 1 .. l /\ n + (i - n) = i
      OBVIOUS
    <3>3. order[n + (i - n)] = v[i - n]
      BY <1>3, <3>2
    <3>4. QED
      BY <3>2, <3>3
  <2>3. \A i \in 1 .. l : n + i \in n + 1 .. n + l
    OBVIOUS
  <2>4. Marking(n) = {order[i] : i \in n + 1 .. n + l}
    BY <1>3 DEF Marking
  <2>5. ASSUME NEW x \in Marking(n) PROVE x \in ToSet(v)
    BY <2>1, <2>2, <2>4
  <2>6. ASSUME NEW x \in ToSet(v) PROVE x \in Marking(n)
    <3>1. PICK i \in 1 .. l : x = v[i]
      BY <2>1
    <3>2. n + i \in n + 1 .. n + l /\ order[n + i] = x
      BY <1>3, <2>3, <3>1
    <3>3. QED
      BY <2>4, <3>2
  <2>7. QED
    BY <2>5, <2>6
<1>7. QED
  BY <1>1, <1>5, <1>6

LEMMA AtBack ==
  ASSUME NEW h \in Log, SnapLog(h), RvyLog(h), phase = "rvy_return", rvyStack # <<>>
  PROVE  \E j \in h.b + 1 .. h.m :
           /\ Back(h, j - 1)
           /\ Head(rvyStack) = [gn |-> h.ev[j].gn, nfrom |-> h.ev[j].nfrom, first |-> First(h, j)]
           /\ Tail(rvyStack) = StackOf(h, j)
<1>1. h.m \in Nat /\ h.b \in Nat
  BY LogTypes
<1>2. PICK i \in h.b .. h.m : Back(h, i)
  BY DEF RvyLog
<1>3. rvyStack = StackOf(h, i)
  BY <1>2 DEF Back, StackAt
<1>4. PICK j \in Nat : j = i + 1
  BY <1>1
<1>5. i # h.m
  <2>1. CASE h.m >= 1
    <3>1. 1 <= h.m /\ h.m <= h.m
      BY <1>1, <2>1
    <3>2. StackOf(h, h.m) = <<>>
      BY ONLY <1>1, <3>1, h \in Log, StackPushed
    <3>3. QED
      BY <1>3, <3>2
  <2>2. CASE h.m = 0
    <3>1. i = h.m => StackOf(h, i) = [x \in 1 .. 0 |->
            [gn |-> h.ev[i + x].gn, nfrom |-> h.ev[i + x].nfrom, first |-> First(h, i + x)]]
      BY <2>2 DEF StackOf
    <3>2. i = h.m => StackOf(h, i) = <<>>
      BY ONLY <3>1
    <3>3. QED
      BY <1>3, <3>2
  <2>3. QED
    BY <1>1, <2>1, <2>2
<1>6. j \in h.b + 1 .. h.m /\ j - 1 = i /\ j <= h.m /\ 1 <= j
  BY <1>1, <1>4, <1>5
<1>7. /\ Head(StackOf(h, j - 1)) = [gn |-> h.ev[j].gn, nfrom |-> h.ev[j].nfrom, first |-> First(h, j)]
      /\ Tail(StackOf(h, j - 1)) = StackOf(h, j)
  BY ONLY <1>6, h \in Log, j \in Nat, StackPushed
<1>8. QED
  BY <1>2, <1>3, <1>6, <1>7

(* What reading the generation of an event keeps.                          *)
LEMMA StaysAllocated ==
  ASSUME NEW e \in Event, AllocatedOnDisk(e),
         \A d \in DiskPages : diskStatus[d] = "ALLOCATED" => diskStatus'[d] = "ALLOCATED"
  PROVE  AllocatedOnDisk(e)'
<1>1. e.diskPage \in Seq(DiskPages)
  BY DEF Event
<1>2. ToSet(e.diskPage) \subseteq DiskPages
  BY <1>1, Members
<1>3. QED
  BY <1>2 DEF AllocatedOnDisk

LEMMA ReturnNewReplay ==
  ASSUME Inv, NEW h \in Log, SnapLog(h), RvyLog(h), rvy_return_new
  PROVE  RvyLog(h)'
<1>1. /\ h.m \in Nat /\ h.a \in Nat /\ h.b \in Nat /\ h.c \in Nat /\ LogShape(h) /\ LogOK(h)
      /\ LogSteps(h) /\ LogColl(h)
  BY LogTypes DEF SnapLog, LogOK
<1>2. LogEvents(h, h.m + 1) /\ RvyPages
  BY DEF SnapLog, RvyLog
<1>3. h.a <= h.b /\ h.b <= h.m /\ h.b <= h.c
  BY ONLY <1>1 DEF LogShape
<1>4. PICK j \in h.b + 1 .. h.m :
        /\ Back(h, j - 1)
        /\ Head(rvyStack) = [gn |-> h.ev[j].gn, nfrom |-> h.ev[j].nfrom, first |-> First(h, j)]
        /\ Tail(rvyStack) = StackOf(h, j)
  BY AtBack DEF rvy_return_new
<1>5. j \in Nat /\ j \in h.a + 1 .. h.m + 1 /\ j - 1 \in h.b .. h.m /\ j \in h.b .. h.m
      /\ j \in (j - 1) + 1 .. h.m + 1 /\ (j - 1) + 1 = j /\ j - 1 \in Nat /\ h.b < j /\ h.a < j
  BY <1>1, <1>3
<1>6. PICK g \in Gens : g = h.ev[j].gn
  BY <1>5, EventTypes
<1>7. /\ TableAt(gen, h, j - 1, h.m + 1) /\ order = UpTo(h, j - 1) \o h.ord[j - 1]
      /\ prevTo = h.pt[j - 1] /\ isCollecting \in BOOLEAN
      /\ isCollecting <=> \E f \in Gens : gen[f].status = "TO_BE_COLLECTED"
      /\ \A e \in h.a + 1 .. h.m + 1 : New(h, e) \/ e <= j - 1 => AllocatedOnDisk(h.ev[e])
      /\ \A e \in h.a + 1 .. j - 1 : ~Gone(h, e, j - 1) => InMemory(h.ev[e])
  BY <1>4 DEF Back
<1>8. New(h, j)
  BY <1>4 DEF rvy_return_new, New
<1>9. NewStep(h, j)
  BY <1>1, <1>8 DEF LogSteps
<1>10. PICK first \in BOOLEAN : first = First(h, j)
  BY DEF First
<1>11. PICK info : info = gen[g]
  OBVIOUS
<1>12. info = InfoOf(h.ev[j])
  BY <1>5, <1>6, <1>7, <1>11 DEF TableAt
<1>13. info.status \in Live /\ info.page = h.ev[j].page /\ info.diskPage = h.ev[j].diskPage
  BY ONLY <1>12 DEF InfoOf, Live
<1>14. /\ gen \in [Gens -> GenInfo] /\ order \in Seq(Gens) /\ Distinct(order)
       /\ RvyTable(gen, owner, diskStatus, rvyDisk, mem, nfree, disk, needs)
  BY <1>2 DEF RvyPages, RvyTable, TableRead
(* The list is as it was, and ends with what was there before event j.     *)
<1>15. PICK u \in Seq(Gens) : u = UpTo(h, j)
  BY <1>1, <1>5, UpToFacts
<1>16. PICK s \in Seq(Gens) : s = h.ord[j - 1]
  BY <1>5, EventTypes
<1>17. PICK y : y = <<g>>
  OBVIOUS
<1>18. y \in Seq(Gens) /\ u \o y \in Seq(Gens)
  BY <1>17
<1>19. order = (u \o y) \o s
  <2>1. UpTo(h, j - 1) = u \o y
    BY <1>1, <1>6, <1>8, <1>15, <1>17, UpToBefore
  <2>2. QED
    BY <1>7, <1>16, <2>1
<1>20. order = UpTo(h, j) \o h.ord[j]
  <2>1. (u \o y) \o s = u \o (y \o s)
    BY <1>18, JoinedTwice
  <2>2. h.ord[j] = y \o s
    BY <1>6, <1>9, <1>16, <1>17 DEF NewStep
  <2>3. QED
    BY <1>15, <1>19, <2>1, <2>2
<1>21. IndexOf(g) = Len(u \o y) /\ Marking(Len(u \o y)) = ToSet(s)
  <2>1. PICK w \in Seq(Gens) : w = u \o y
    BY <1>18
  <2>2. w # <<>> /\ w[Len(w)] = g
    BY <1>17, <1>18, <2>1
  <2>3. order = w \o s
    BY <1>19, <2>1
  <2>4. IndexOf(w[Len(w)]) = Len(w) /\ Marking(Len(w)) = ToSet(s)
    BY <1>14, <2>2, <2>3, BehindLast
  <2>5. QED
    BY <2>1, <2>2, <2>4
<1>22. PICK older : older = ToSet(h.ord[j - 1])
  OBVIOUS
<1>23. {order[x] : x \in IndexOf(g) + 1 .. Len(order)} = older
  BY <1>16, <1>21, <1>22 DEF Marking
(* The table, before and after the marks.                                  *)
<1>24. /\ first => gen' = Marked(older) /\ isCollecting' = TRUE
       /\ ~first => gen' = gen /\ isCollecting' = isCollecting
  BY <1>4, <1>6, <1>10, <1>23 DEF rvy_return_new, Marked
<1>25. /\ first => /\ Twice = {} /\ TableAt(Marked(older), h, j, h.m + 1)
                   /\ MarkedLike(gen, Marked(older))
                   /\ \E f \in Gens : Marked(older)[f].status = "TO_BE_COLLECTED"
  BY <1>1, <1>2, <1>7, <1>8, <1>10, <1>14, <1>22, MarkedTable
<1>26. MarkedLike(gen, gen')
  <2>1. CASE first
    BY <1>24, <1>25, <2>1
  <2>2. CASE ~first
    BY <1>14, <1>24, <2>2 DEF MarkedLike
  <2>3. QED
    BY <2>1, <2>2
<1>27. TableAt(gen', h, j, h.m + 1)
  <2>1. CASE first
    BY <1>24, <1>25, <2>1
  <2>2. CASE ~first
    <3>1. ASSUME NEW e \in h.a + 1 .. j PROVE gen[h.ev[e].gn] = InfoAt(h, e, j)
      <4>1. CASE e = j
        <5>1. ~Gone(h, j, j) /\ Start(h, j) < j
          BY <1>1, <1>5, MadeInfo, StartRange
        <5>2. InfoAt(h, j, j) = InfoOf(h.ev[j])
          BY <1>1, <1>5, <1>8, <5>1, FreshInfo
        <5>3. QED
          BY <1>6, <1>11, <1>12, <4>1, <5>2
      <4>2. CASE e # j
        <5>1. e \in h.a + 1 .. j - 1
          BY <1>1, <1>5, <4>2
        <5>2. gen[h.ev[e].gn] = InfoAt(h, e, j - 1)
          BY <1>7, <5>1 DEF TableAt
        <5>3. InfoAt(h, e, j) = InfoAt(h, e, j - 1)
          BY <1>1, <1>8, <1>10, <2>2, <5>1, NewInfo
        <5>4. QED
          BY <5>2, <5>3
      <4>3. QED
        BY <4>1, <4>2
    <3>2. \A e \in j + 1 .. h.m + 1 : gen[h.ev[e].gn] = InfoOf(h.ev[e])
      <4>1. \A e \in j + 1 .. h.m + 1 : e \in (j - 1) + 1 .. h.m + 1
        BY <1>5
      <4>2. QED
        BY <1>7, <4>1 DEF TableAt
    <3>3. \A f \in Gens : (\A e \in h.a + 1 .. h.m + 1 : h.ev[e].gn # f) => gen[f] = NoInfo
      BY <1>7 DEF TableAt
    <3>4. QED
      BY <1>24, <2>2, <3>1, <3>2, <3>3 DEF TableAt
  <2>3. QED
    BY <2>1, <2>2
(* The pages.                                                              *)
<1>28. PICK t : t = gen'
  OBVIOUS
<1>29. RvyTable(t, owner, diskStatus, rvyDisk, mem, nfree, disk, needs)
  <2>1. /\ t \in [Gens -> GenInfo]
        /\ \A f \in Gens :
             /\ t[f].page = gen[f].page /\ t[f].diskPage = gen[f].diskPage
             /\ t[f].status = "NONEXISTENT" <=> gen[f].status = "NONEXISTENT"
             /\ t[f].status \in Live <=> gen[f].status \in Live
    BY <1>26, <1>28 DEF MarkedLike
  <2>2. QED
    BY ONLY <1>14, <2>1, MarkGens
<1>30. t[g].status \in Live /\ info.page = t[g].page /\ info.diskPage = t[g].diskPage
  BY <1>11, <1>13, <1>26, <1>28 DEF MarkedLike
<1>31. PICK rd : rd = Put(rvyDisk, info.page, info.diskPage)
  OBVIOUS
<1>32. /\ RvyTable(t, OwnerRead(g, info), StatusRead(info), rd, MemRead(info), NFreeRead(info), disk, needs)
       /\ \A i \in 1 .. Len(info.page) : rd[info.page[i]] = info.diskPage[i]
       /\ \A q \in Pages : q \notin ToSet(info.page) => rd[q] = rvyDisk[q]
       /\ \A d \in ToSet(info.diskPage) : StatusRead(info)[d] = "ALLOCATED"
       /\ \A d \in DiskPages : diskStatus[d] = "ALLOCATED" => StatusRead(info)[d] = "ALLOCATED"
  <2>1. diskStatus \in [DiskPages -> {"FREE", "ALLOCATED", "UNKNOWN"}]
    BY DEF Inv
  <2>2. QED
    BY ONLY <1>29, <1>30, <1>31, <2>1, g \in Gens, ReadGen
<1>33. /\ owner' = OwnerRead(g, info) /\ nfree' = NFreeRead(info) /\ mem' = MemRead(info)
       /\ rvyDisk' = rd
       /\ UNCHANGED <<phase, ngens, order, lists, prevTo, disk, root, needs>>
  BY <1>4, <1>6, <1>11, <1>31 DEF rvy_return_new, rvy_read_generation, ghostVars
<1>34. diskStatus' = StatusRead(info)
  <2>1. diskStatus' = [d \in DiskPages |->
          IF first /\ \E f \in Twice : d \in ToSet(gen[f].diskPage) THEN "FREE" ELSE StatusRead(info)[d]]
    BY <1>4, <1>6, <1>10, <1>11 DEF rvy_return_new
  <2>2. \A d \in DiskPages : ~(first /\ \E f \in Twice : d \in ToSet(gen[f].diskPage))
    BY <1>25
  <2>3. diskStatus' = [d \in DiskPages |-> StatusRead(info)[d]]
    BY <2>1, <2>2
  <2>4. QED
    BY <2>3 DEF StatusRead
<1>35. RvyPages'
  <2>1. RvyTable(gen, owner, diskStatus, rvyDisk, mem, nfree, disk, needs)'
    BY <1>28, <1>32, <1>33, <1>34
  <2>2. NeededPagesIntact' /\ lists' = root'.lists /\ order' \in Seq(Gens) /\ Distinct(order')
    BY <1>2, <1>33 DEF RvyPages, NeededPagesIntact
  <2>3. ngens' \in 1 .. MaxGenerations /\ \A f \in Existing' : f < ngens'
    BY <1>2, <1>26, <1>33 DEF RvyPages, Existing, MarkedLike
  <2>4. QED
    BY <2>1, <2>2, <2>3 DEF RvyPages
<1>36. \A e \in h.a + 1 .. j : ~Gone(h, e, j) => InMemory(h.ev[e])'
  <2>1. InMemory(h.ev[j])'
    BY <1>13, <1>32, <1>33 DEF InMemory
  <2>2. \A q \in Pages : q \notin ToSet(h.ev[j].page) => rvyDisk'[q] = rvyDisk[q]
    BY <1>13, <1>32, <1>33
  <2>3. QED
    BY <1>2, <1>5, <1>7, <2>1, <2>2, BackKept
<1>37. \A e \in h.a + 1 .. h.m + 1 : New(h, e) \/ e <= j => AllocatedOnDisk(h.ev[e])'
  <2>1. TAKE e \in h.a + 1 .. h.m + 1
  <2>2. HAVE New(h, e) \/ e <= j
  <2>3. New(h, e) \/ e <= j - 1
    BY <1>1, <1>5, <1>8, <2>2
  <2>4. AllocatedOnDisk(h.ev[e]) /\ h.ev[e] \in Event
    BY <1>1, <1>7, <2>3, LogTypes
  <2>5. QED
    BY <1>32, <1>34, <2>4, StaysAllocated
<1>38. Back(h, j)'
  <2>1. phase' = "rvy_return"
    BY <1>33 DEF rvy_return_new
  <2>2. StackAt(h, j)'
    BY <1>4 DEF rvy_return_new, StackAt
  <2>3. prevTo' = h.pt[j]
    BY <1>7, <1>9, <1>33 DEF NewStep
  <2>6. order' = UpTo(h, j) \o h.ord[j]
    <3>1. order' = order
      BY <1>33
    <3>2. QED
      BY ONLY <1>20, <3>1, Zenon
  <2>4. isCollecting' \in BOOLEAN /\ (isCollecting' <=> \E f \in Gens : gen'[f].status = "TO_BE_COLLECTED")
    <3>1. CASE first
      <4>1. gen' = Marked(older) /\ isCollecting' = TRUE
        BY <1>24, <3>1
      <4>2. \E f \in Gens : gen'[f].status = "TO_BE_COLLECTED"
        BY <1>25, <3>1, <4>1
      <4>3. QED
        BY <4>1, <4>2
    <3>2. CASE ~first
      <4>1. gen' = gen /\ isCollecting' = isCollecting
        BY <1>24, <3>2
      <4>2. QED
        BY <1>7, <4>1
    <3>3. QED
      BY <3>1, <3>2
  <2>5. QED
    BY ONLY <1>5, <1>27, <1>36, <1>37, <2>1, <2>2, <2>3, <2>4, <2>6, Zenon DEF Back
<1>39. phase' = "rvy_return"
  BY <1>33 DEF rvy_return_new
<1>40. QED
  BY <1>5, <1>35, <1>38, <1>39 DEF RvyLog

(* What rvy_return_collected finds before event j.                         *)
ReturnsTo(h, j, i, k, u, o) ==
  /\ Back(h, j - 1) /\ ~New(h, j) /\ i = FirstFrom /\ k = h.ev[j].nfrom
  /\ u = UpTo(h, j) /\ o = h.ord[j - 1]

(* Where rvy_return_collected starts to collect, and what: what the step   *)
(* that made event j did.                                                  *)
LEMMA CollectsAgain ==
  ASSUME NEW h \in Log, SnapLog(h), RvyPages, NEW j \in h.b + 1 .. h.m, NEW i, NEW k,
         NEW u \in Seq(Gens), NEW o \in Seq(Gens), ReturnsTo(h, j, i, k, u, o)
  PROVE  /\ order = u \o o /\ k \in Nat
         /\ h.pos[j] \in 1 .. Len(o) /\ k \in 1 .. Len(o) - h.pos[j] + 1
         /\ i = Len(u) + h.pos[j]
         /\ Merging(i, k) = {o[q] : q \in h.pos[j] .. h.pos[j] + k - 1}
         /\ MoreToCollect(i, k) <=> h.pos[j] + k <= Len(o)
<1>0. /\ Back(h, j - 1) /\ ~New(h, j) /\ i = FirstFrom /\ k = h.ev[j].nfrom
      /\ u = UpTo(h, j) /\ o = h.ord[j - 1]
  BY Zenon DEF ReturnsTo
<1>1. /\ h.m \in Nat /\ h.a \in Nat /\ h.b \in Nat /\ h.c \in Nat /\ LogOK(h)
      /\ LogShape(h) /\ LogSteps(h) /\ LogOrd(h)
  BY LogTypes DEF SnapLog, LogOK
<1>2. LogEvents(h, h.m + 1) /\ order \in Seq(Gens) /\ Distinct(order)
  BY DEF SnapLog, RvyPages
<1>3. h.a <= h.b /\ h.b <= h.m /\ h.b <= h.c
  BY ONLY <1>1 DEF LogShape
<1>4. j \in Nat /\ j - 1 \in h.b .. h.m /\ j - 1 \in Nat /\ (j - 1) + 1 = j /\ j \in h.b .. h.m
  BY <1>1, <1>3
<1>5. PICK s \in Nat : s = h.pos[j]
  BY <1>4, EventTypes
<1>6. /\ s \in 1 .. Len(o) /\ k \in 1 .. Len(o) - s + 1
      /\ \A q \in 1 .. Len(o), e \in h.a + 1 .. j - 1 :
           o[q] = h.ev[e].gn => (s <= q <=> e <= Start(h, j))
      /\ h.pt[j - 1] = NoGen \/ (1 < s /\ h.pt[j - 1] = o[s - 1])
  BY <1>0, <1>1, <1>5 DEF LogSteps, CollectStep
<1>7. /\ TableAt(gen, h, j - 1, h.m + 1) /\ order = UpTo(h, j - 1) \o h.ord[j - 1]
      /\ prevTo = h.pt[j - 1]
  BY <1>0 DEF Back
<1>8. order = u \o o
  BY <1>0, <1>1, <1>7, UpToBefore
<1>9. PICK n \in Nat : n = Len(u)
  OBVIOUS
<1>10. PICK l \in Nat : l = Len(o)
  OBVIOUS
<1>11. /\ Len(order) = n + l /\ \A q \in 1 .. n : order[q] = u[q]
       /\ \A q \in 1 .. l : order[n + q] = o[q]
  BY <1>8, <1>9, <1>10, JoinedIs
<1>12. k \in Nat /\ k >= 1 /\ s >= 1 /\ s + k - 1 <= l /\ s <= l
  BY <1>6, <1>10
<1>13. Start(h, j - 1) = Start(h, j)
  <2>1. h.c # h.m /\ ~First(h, j)
    <3>1. h.c = h.m \/ First(h, j) => New(h, j)
      <4>1. j \in h.a + 1 .. h.m + 1
        BY <1>1, <1>3
      <4>2. QED
        BY <1>2, <4>1 DEF LogEvents
    <3>2. QED
      BY <1>0, <3>1
  <2>2. QED
    BY ONLY <1>1, <1>3, <1>4, <2>1, j \in h.b + 1 .. h.m DEF First, Start
<1>14. \A q \in 1 .. n : gen[order[q]].status # "TO_BE_COLLECTED"
  <2>1. TAKE q \in 1 .. n
  <2>2. PICK e \in j + 1 .. h.m + 1 : u[q] = h.ev[e].gn
    BY <1>0, <1>1, <1>4, <1>9, UpToFacts
  <2>3. e \in (j - 1) + 1 .. h.m + 1
    BY <1>1, <1>4
  <2>4. gen[h.ev[e].gn] = InfoOf(h.ev[e])
    BY <1>7, <2>3 DEF TableAt
  <2>x. gen[order[q]] = InfoOf(h.ev[e])
    BY <1>11, <2>2, <2>4
  <2>5. QED
    BY <2>x DEF InfoOf
<1>15. ASSUME NEW q \in 1 .. l PROVE gen[order[n + q]].status = "TO_BE_COLLECTED" <=> s <= q
  <2>1. OrdAt(h, j - 1)
    BY <1>1, <1>4 DEF LogOrd
  <2>2. PICK e \in h.a + 1 .. j - 1 : o[q] = h.ev[e].gn /\ ~Gone(h, e, j - 1)
    BY <1>0, <1>10, <2>1 DEF OrdAt
  <2>3. gen[o[q]] = InfoAt(h, e, j - 1)
    BY <1>7, <2>2 DEF TableAt
  <2>4. gen[o[q]].status = StatusAt(h, e, j - 1)
    BY <2>3, StatusFacts
  <2>5. gen[o[q]].status = (IF e <= Start(h, j) THEN "TO_BE_COLLECTED" ELSE "NORMAL")
    BY <1>13, <2>2, <2>4 DEF StatusAt
  <2>6. s <= q <=> e <= Start(h, j)
    BY <1>6, <1>10, <2>2
  <2>7. QED
    BY <1>11, <2>5, <2>6
<1>16. n + s \in 1 .. Len(order)
  BY <1>9, <1>11, <1>12
<1>17. \A q \in 1 .. n + s - 1 : gen[order[q]].status # "TO_BE_COLLECTED"
  <2>1. TAKE q \in 1 .. n + s - 1
  <2>2. CASE q <= n
    BY <1>14, <2>2
  <2>3. CASE n < q
    <3>1. q - n \in 1 .. l /\ ~(s <= q - n) /\ n + (q - n) = q
      BY <1>12, <2>3
    <3>2. gen[order[n + (q - n)]].status # "TO_BE_COLLECTED"
      BY <1>15, <3>1
    <3>3. QED
      BY <3>1, <3>2
  <2>4. QED
    BY <2>2, <2>3
<1>18. gen[order[n + s]].status = "TO_BE_COLLECTED"
  BY <1>12, <1>15
<1>19. i = n + s
  <2>1. CASE prevTo = NoGen
    <3>1. \A x \in 1 .. Len(order) :
            /\ gen[order[x]].status = "TO_BE_COLLECTED"
            /\ \A y \in 1 .. x - 1 : gen[order[y]].status # "TO_BE_COLLECTED"
            => x = n + s
      <4>1. TAKE x \in 1 .. Len(order)
      <4>2. HAVE /\ gen[order[x]].status = "TO_BE_COLLECTED"
                 /\ \A y \in 1 .. x - 1 : gen[order[y]].status # "TO_BE_COLLECTED"
      <4>3. ~(x \in 1 .. n + s - 1)
        BY <1>17, <4>2
      <4>4. ~(n + s \in 1 .. x - 1)
        BY <1>18, <4>2
      <4>5. QED
        BY <1>11, <1>12, <4>3, <4>4
    <3>2. QED
      <4>1. i = CHOOSE x \in 1 .. Len(order) :
                  /\ gen[order[x]].status = "TO_BE_COLLECTED"
                  /\ \A y \in 1 .. x - 1 : gen[order[y]].status # "TO_BE_COLLECTED"
        BY <1>0, <2>1 DEF FirstFrom
      <4>2. QED
        BY ONLY <1>16, <1>17, <1>18, <3>1, <4>1
  <2>2. CASE prevTo # NoGen
    <3>1. 1 < s /\ prevTo = o[s - 1] /\ s - 1 \in 1 .. l
      BY <1>6, <1>7, <1>12, <2>2
    <3>2. order[n + (s - 1)] = prevTo
      BY <1>11, <3>1
    <3>3. n + (s - 1) \in 1 .. Len(order)
      BY <1>9, <1>11, <3>1
    <3>4. \A x \in 1 .. Len(order) : order[x] = prevTo => x = n + (s - 1)
      BY <1>2, <3>2, <3>3 DEF Distinct
    <3>5. IndexOf(prevTo) = n + (s - 1)
      BY <3>2, <3>3, <3>4 DEF IndexOf
    <3>6. i = IndexOf(prevTo) + 1
      BY <1>0, <2>2 DEF FirstFrom
    <3>7. QED
      BY ONLY <3>5, <3>6, n \in Nat, s \in Nat
  <2>3. QED
    BY <2>1, <2>2
<1>20. Merging(i, k) = {o[q] : q \in s .. s + k - 1}
  <2>1. ASSUME NEW x \in Merging(i, k) PROVE \E q \in s .. s + k - 1 : x = o[q]
    <3>1. PICK y \in i .. i + k - 1 : x = order[y]
      BY DEF Merging
    <3>2. y - n \in s .. s + k - 1 /\ y - n \in 1 .. l /\ n + (y - n) = y
      BY ONLY <1>12, <1>19, n \in Nat, s \in Nat, l \in Nat, y \in i .. i + k - 1
    <3>3. order[n + (y - n)] = o[y - n]
      BY <1>11, <3>2
    <3>4. QED
      BY <3>1, <3>2, <3>3
  <2>2. ASSUME NEW q \in s .. s + k - 1 PROVE o[q] \in Merging(i, k)
    <3>1. n + q \in i .. i + k - 1 /\ q \in 1 .. l
      BY ONLY <1>12, <1>19, n \in Nat, s \in Nat, l \in Nat, q \in s .. s + k - 1
    <3>2. order[n + q] = o[q]
      BY <1>11, <3>1
    <3>3. QED
      BY <3>1, <3>2 DEF Merging
  <2>3. QED
    BY <2>1, <2>2
<1>21. MoreToCollect(i, k) <=> s + k <= l
  <2>1. i + k <= Len(order) <=> s + k <= l
    <3>1. Len(order) = n + l
      BY <1>11
    <3>2. QED
      BY ONLY <1>12, <1>19, <3>1, n \in Nat, s \in Nat, l \in Nat
  <2>2. s + k <= l => gen[order[i + k]].status = "TO_BE_COLLECTED"
    <3>1. ASSUME s + k <= l PROVE gen[order[n + (s + k)]].status = "TO_BE_COLLECTED"
      <4>1. s + k \in 1 .. l /\ s <= s + k
        BY ONLY <1>12, <3>1, s \in Nat, l \in Nat
      <4>2. QED
        BY <1>15, <4>1
    <3>2. n + (s + k) = i + k
      BY ONLY <1>12, <1>19, n \in Nat, s \in Nat
    <3>3. QED
      BY <3>1, <3>2
  <2>3. QED
    BY <2>1, <2>2 DEF MoreToCollect
<1>22. QED
  BY <1>5, <1>6, <1>8, <1>9, <1>10, <1>12, <1>19, <1>20, <1>21

LEMMA ChangedInfo ==
  ASSUME NEW y \in GenInfo, NEW from \in SUBSET Gens
  PROVE  /\ Merged(y, from) \in GenInfo /\ Merged(y, from).status = y.status
         /\ Merged(y, from).page = y.page /\ Merged(y, from).diskPage = y.diskPage
         /\ Once(y) \in GenInfo /\ Once(y).status = "COLLECTED_ONCE" /\ Once(y).page = <<>>
         /\ Once(y).diskPage = y.diskPage
         /\ Again(y) \in GenInfo /\ Again(y).status = "COLLECTED_TWICE" /\ Again(y).page = y.page
         /\ Again(y).diskPage = y.diskPage
<1>1. /\ Merged(y, from) \in GenInfo /\ Merged(y, from).status = y.status
      /\ Merged(y, from).page = y.page /\ Merged(y, from).diskPage = y.diskPage
  BY DEF Merged, GenInfo
<1>2. /\ Once(y) \in GenInfo /\ Once(y).status = "COLLECTED_ONCE" /\ Once(y).page = <<>>
      /\ Once(y).diskPage = y.diskPage
  <2>1. "COLLECTED_ONCE" \in GenStatus /\ <<>> \in Seq(Pages) /\ {} \in SUBSET Gens
    BY DEF GenStatus
  <2>2. Once(y) \in GenInfo
    BY <2>1 DEF GenInfo, Once
  <2>3. Once(y).status = "COLLECTED_ONCE" /\ Once(y).page = <<>> /\ Once(y).diskPage = y.diskPage
    BY DEF Once, GenInfo
  <2>4. QED
    BY ONLY <2>2, <2>3
<1>3. /\ Again(y) \in GenInfo /\ Again(y).status = "COLLECTED_TWICE" /\ Again(y).page = y.page
      /\ Again(y).diskPage = y.diskPage
  BY DEF Again, GenInfo, GenStatus
<1>4. QED
  BY ONLY <1>1, <1>2, <1>3

(* What the step that made event j collected.                              *)
StepFrom(h, j) == {h.ord[j - 1][q] : q \in h.pos[j] .. h.pos[j] + h.ev[j].nfrom - 1}

CollectsTo(h, j, from, i, k, t) ==
  from = StepFrom(h, j) /\ from = Merging(i, k) /\ t = CollectedOnce(gen, i, k, h.ev[j].gn)

(* What is collected again, and what becomes of the table.                 *)
LEMMA CollectedFrom ==
  ASSUME NEW h \in Log, LogOK(h), LogEvents(h, h.m + 1), NEW j \in h.b + 1 .. h.m, ~New(h, j),
         gen \in [Gens -> GenInfo], TableAt(gen, h, j - 1, h.m + 1), NEW to, to = h.ev[j].gn,
         NEW from, from = StepFrom(h, j)
  PROVE  /\ to \in Gens /\ gen[to] = InfoOf(h.ev[j]) /\ to \notin from /\ from \subseteq Gens
         /\ \A f \in from : gen[f].status \in Live
         /\ \A f \in from : \A g \in gen[f].from :
              gen[g].status \notin Live /\ gen[g].status # "NONEXISTENT"
         /\ \A f \in from : \E e \in h.a + 1 .. j - 1 :
              f = h.ev[e].gn /\ ~Gone(h, e, j - 1) /\ h.coll[e] = j
<1>1. /\ h.m \in Nat /\ h.a \in Nat /\ h.b \in Nat /\ h.c \in Nat
      /\ LogShape(h) /\ LogColl(h) /\ LogSteps(h) /\ LogOrd(h)
  BY LogTypes DEF LogOK
<1>2. h.a <= h.b /\ h.b <= h.m /\ h.b <= h.c
  BY ONLY <1>1 DEF LogShape
<1>3. /\ j \in Nat /\ j - 1 \in h.b .. h.m /\ j \in (j - 1) + 1 .. h.m + 1
      /\ j \in h.a + 1 .. h.m + 1
  BY <1>1, <1>2
<1>t. h.pos[j] \in Nat /\ h.ev[j].nfrom \in Nat /\ h.ord[j - 1] \in Seq(Gens)
  BY <1>1, <1>3, EventTypes
<1>4. PICK s, k, o : s = h.pos[j] /\ k = h.ev[j].nfrom /\ o = h.ord[j - 1]
  OBVIOUS
<1>5. /\ s \in Nat /\ k \in Nat /\ o \in Seq(Gens)
  BY ONLY <1>t, <1>4
<1>6. /\ s \in 1 .. Len(o) /\ k \in 1 .. Len(o) - s + 1
      /\ \A e \in h.a + 1 .. j - 1 : h.coll[e] = j <=> \E q \in s .. s + k - 1 : o[q] = h.ev[e].gn
  <2>1. CollectStep(h, j)
    BY <1>1 DEF LogSteps
  <2>2. QED
    BY ONLY <1>4, <2>1 DEF CollectStep
<1>7. \A f \in from : \E q \in s .. s + k - 1 : f = o[q]
  BY <1>4 DEF StepFrom
<1>8. ASSUME NEW f \in from
      PROVE  \E e \in h.a + 1 .. j - 1 : f = h.ev[e].gn /\ ~Gone(h, e, j - 1) /\ h.coll[e] = j
  <2>1. PICK q \in s .. s + k - 1 : f = o[q]
    BY <1>7
  <2>2. q \in 1 .. Len(o)
    BY <1>5, <1>6
  <2>3. OrdAt(h, j - 1)
    BY <1>1, <1>3 DEF LogOrd
  <2>4. PICK e \in h.a + 1 .. j - 1 : o[q] = h.ev[e].gn /\ ~Gone(h, e, j - 1)
    BY <1>4, <2>2, <2>3 DEF OrdAt
  <2>5. h.coll[e] = j
    BY <1>6, <2>1, <2>4
  <2>6. QED
    BY <2>1, <2>4, <2>5
<1>9. to \in Gens /\ gen[to] = InfoOf(h.ev[j])
  BY <1>3, EventTypes DEF TableAt
<1>10. ASSUME NEW f \in from PROVE f \in Gens /\ f # to /\ gen[f].status \in Live
  <2>1. PICK e \in h.a + 1 .. j - 1 : f = h.ev[e].gn /\ ~Gone(h, e, j - 1)
    BY <1>8
  <2>2. gen[f] = InfoAt(h, e, j - 1)
    BY <2>1 DEF TableAt
  <2>3. gen[f].status \in Live
    BY <2>1, <2>2, StatusFacts
  <2>4. e \in Nat /\ e # j /\ e \in h.a + 1 .. h.m + 1
    BY <1>1, <1>3
  <2>5. f \in Gens /\ f # to
    BY <1>2, <1>3, <2>1, <2>4, EventTypes DEF LogEvents
  <2>6. QED
    BY <2>3, <2>5
<1>11. ASSUME NEW f \in from, NEW g \in gen[f].from
       PROVE  gen[g].status \notin Live /\ gen[g].status # "NONEXISTENT"
  <2>1. PICK e \in h.a + 1 .. j - 1 : f = h.ev[e].gn /\ ~Gone(h, e, j - 1)
    BY <1>8
  <2>2. gen[f] = InfoAt(h, e, j - 1)
    BY <2>1 DEF TableAt
  <2>3. gen[f].from = {h.ev[x].gn : x \in {z \in h.a + 1 .. h.m : h.coll[z] = e}}
    BY <2>1, <2>2 DEF InfoAt, FromAt
  <2>4. PICK x \in h.a + 1 .. h.m : h.coll[x] = e /\ g = h.ev[x].gn
    BY <1>11, <2>3
  <2>5. x \in Nat /\ h.a < x /\ e \in Nat /\ e # 0
    BY <1>1, <1>3
  <2>6. x < e
    BY <1>1, <2>4, <2>5, CollRange
  <2>7. x \in h.a + 1 .. j - 1 /\ e <= j - 1
    BY <1>1, <1>3, <2>5, <2>6
  <2>8. Gone(h, x, j - 1)
    BY <2>4, <2>5, <2>7 DEF Gone
  <2>9. gen[g] = InfoAt(h, x, j - 1)
    BY <2>4, <2>7 DEF TableAt
  <2>10. QED
    BY <2>8, <2>9, StatusFacts
<1>12. QED
  BY <1>8, <1>9, <1>10, <1>11

LEMMA CollectedGens ==
  ASSUME NEW h \in Log, LogOK(h), LogEvents(h, h.m + 1), NEW j \in h.b + 1 .. h.m, ~New(h, j),
         gen \in [Gens -> GenInfo], TableAt(gen, h, j - 1, h.m + 1), NEW from, NEW i, NEW k, NEW u,
         CollectsTo(h, j, from, i, k, u)
  PROVE  /\ TableAt(u, h, j, h.m + 1) /\ u \in [Gens -> GenInfo]
         /\ \A g \in Gens :
              /\ u[g].diskPage = gen[g].diskPage
              /\ u[g].status = "NONEXISTENT" <=> gen[g].status = "NONEXISTENT"
              /\ u[g].status \in Live => gen[g].status \in Live
              /\ u[g].page = gen[g].page \/ (u[g].page = <<>> /\ u[g].status \notin Live)
              /\ u[g].status \notin Live => g \in from \/ gen[g].status \notin Live
              /\ u[g].status \in Live => u[g].status = gen[g].status
              /\ gen[g].status \in Live => g \in from \/ u[g].status = gen[g].status
         /\ \A f \in from : u[f].status = "COLLECTED_ONCE"
<1>t. PICK to : to = h.ev[j].gn
  OBVIOUS
<1>0. from = StepFrom(h, j) /\ from = Merging(i, k) /\ u = CollectedOnce(gen, i, k, to)
  BY <1>t DEF CollectsTo
<1>1. /\ to \in Gens /\ gen[to] = InfoOf(h.ev[j]) /\ to \notin from /\ from \subseteq Gens
      /\ \A f \in from : gen[f].status \in Live
      /\ \A f \in from : \A g \in gen[f].from :
           gen[g].status \notin Live /\ gen[g].status # "NONEXISTENT"
      /\ \A f \in from : \E e \in h.a + 1 .. j - 1 :
           f = h.ev[e].gn /\ ~Gone(h, e, j - 1) /\ h.coll[e] = j
  <2>1. j \in h.b + 1 .. h.m /\ ~New(h, j) /\ LogOK(h) /\ LogEvents(h, h.m + 1)
        /\ gen \in [Gens -> GenInfo] /\ TableAt(gen, h, j - 1, h.m + 1) /\ to = h.ev[j].gn
        /\ from = StepFrom(h, j)
    BY <1>0, <1>t
  <2>2. QED
    BY ONLY <2>1, h \in Log, CollectedFrom
<1>2. /\ \A f, g \in from : g \notin gen[f].from
      /\ \A f \in from : to \notin gen[f].from
  <2>1. gen[to].status \in Live
    BY <1>1 DEF InfoOf, Live
  <2>2. QED
    BY <1>1, <2>1
<1>3. PICK w : w = gen
  OBVIOUS
<1>4. /\ CollectedOnce(w, i, k, to) = CollectedIn(w, from, to)
      /\ CollectedIn(w, from, to)[to] = Merged(w[to], from)
      /\ \A g \in from : CollectedIn(w, from, to)[g] = Once(gen[g])
      /\ \A g \in Gens : \A f \in from : g \in gen[f].from =>
           CollectedIn(w, from, to)[g] = Again(gen[g])
      /\ \A g \in Gens : g # to /\ g \notin from /\ (\A f \in from : g \notin gen[f].from) =>
           CollectedIn(w, from, to)[g] = gen[g]
  <2>1. \A g \in Gens : g # to => w[g] = gen[g]
    BY <1>3
  <2>2. /\ gen \in [Gens -> GenInfo] /\ to \in Gens /\ from = Merging(i, k)
        /\ from \subseteq Gens /\ to \notin from
    BY <1>0, <1>1
  <2>3. QED
    BY ONLY <1>2, <2>1, <2>2, CollectedOnceIn
<1>5. u = CollectedIn(w, from, to)
  BY <1>0, <1>3, <1>4
<1>6. TableAt(u, h, j, h.m + 1)
  <2>1. h.m + 1 \in h.m .. h.m + 1
    BY LogTypes
  <2>2. TableAt(w, h, j - 1, h.m + 1)
    BY <1>3
  <2>3. TableAt(CollectedIn(w, from, to), h, j, h.m + 1)
    BY <1>0, <1>t, <2>1, <2>2, CollectTable DEF StepFrom
  <2>4. QED
    BY <1>5, <2>3
<1> DEFINE v == CollectedIn(w, from, to)
           P == UNION {w[f].from : f \in from}
<1>v. v = [g \in Gens |->
             CASE g = to    -> Merged(w[g], from)
               [] g \in from -> Once(w[g])
               [] g \in P   -> Again(w[g])
               [] OTHER     -> w[g]]
  BY DEF CollectedIn
<1>7. u = [g \in Gens |-> u[g]]
  <2> HIDE DEF v, P
  <2>1. v = [g \in Gens |-> v[g]]
    BY ONLY <1>v
  <2>2. u = v
    BY <1>5 DEF v
  <2>3. QED
    BY ONLY <2>1, <2>2
<1> HIDE DEF v, P
<1>8. ASSUME NEW g \in Gens
      PROVE  \/ g = to /\ u[g] = Merged(gen[g], from)
             \/ g \in from /\ u[g] = Once(gen[g])
             \/ /\ gen[g].status \notin Live /\ gen[g].status # "NONEXISTENT"
                /\ u[g] = Again(gen[g])
             \/ g \notin from /\ u[g] = gen[g]
  <2>1. CASE \E f \in from : g \in gen[f].from
    BY <1>1, <1>4, <1>5, <2>1
  <2>2. CASE ~\E f \in from : g \in gen[f].from
    <3>1. CASE g = to
      BY <1>3, <1>4, <1>5, <3>1
    <3>2. CASE g \in from
      BY <1>4, <1>5, <3>2
    <3>3. CASE g # to /\ g \notin from
      BY <1>4, <1>5, <2>2, <3>3
    <3>4. QED
      BY <3>1, <3>2, <3>3
  <2>3. QED
    BY <2>1, <2>2
<1>9. ASSUME NEW g \in Gens
      PROVE  /\ u[g] \in GenInfo
             /\ u[g].diskPage = gen[g].diskPage
             /\ u[g].status = "NONEXISTENT" <=> gen[g].status = "NONEXISTENT"
             /\ u[g].status \in Live => gen[g].status \in Live
             /\ u[g].page = gen[g].page \/ (u[g].page = <<>> /\ u[g].status \notin Live)
             /\ u[g].status \notin Live => g \in from \/ gen[g].status \notin Live
             /\ u[g].status \in Live => u[g].status = gen[g].status
             /\ gen[g].status \in Live => g \in from \/ u[g].status = gen[g].status
             /\ g \in from => u[g].status = "COLLECTED_ONCE"
  <2>0. gen[g] \in GenInfo
    OBVIOUS
  <2>1. CASE g = to /\ u[g] = Merged(gen[g], from)
    <3>1. /\ Merged(gen[g], from) \in GenInfo /\ Merged(gen[g], from).status = gen[g].status
          /\ Merged(gen[g], from).page = gen[g].page /\ Merged(gen[g], from).diskPage = gen[g].diskPage
      BY ONLY <1>1, <2>0, ChangedInfo
    <3>2. g \notin from
      BY ONLY <1>1, <2>1
    <3>3. QED
      BY ONLY <2>1, <3>1, <3>2
  <2>2. CASE g \in from /\ u[g] = Once(gen[g])
    <3>1. /\ Once(gen[g]) \in GenInfo /\ Once(gen[g]).status = "COLLECTED_ONCE"
          /\ Once(gen[g]).page = <<>> /\ Once(gen[g]).diskPage = gen[g].diskPage
      BY ONLY <2>0, {} \in SUBSET Gens, ChangedInfo
    <3>2. gen[g].status \in Live
      BY ONLY <1>1, <2>2
    <3>3. QED
      BY ONLY <2>2, <3>1, <3>2 DEF Live
  <2>3. CASE gen[g].status \notin Live /\ gen[g].status # "NONEXISTENT" /\ u[g] = Again(gen[g])
    BY ONLY <1>1, <2>0, <2>3, ChangedInfo DEF Live
  <2>4. CASE g \notin from /\ u[g] = gen[g]
    BY ONLY <1>1, <2>0, <2>4
  <2>5. QED
    BY ONLY <1>8, <2>1, <2>2, <2>3, <2>4, g \in Gens
<1>10. u \in [Gens -> GenInfo]
  BY <1>7, <1>9
<1>11. QED
  BY <1>1, <1>6, <1>9, <1>10

(* The pages that rvy_return_collected frees: w is who owns what once the  *)
(* new generation was read, u the table it leaves.                         *)
GoneFrom(u, rd, i, k) ==
  /\ \A g \in Gens : u[g].status \notin Live => g \in Merging(i, k) \/ gen[g].status \notin Live
  /\ \A g \in Merging(i, k) :
       /\ gen[g].status \in Live /\ u[g].status \notin Live
       /\ \A x \in 1 .. Len(gen[g].page) : rd[gen[g].page[x]] = gen[g].diskPage[x]

LEMMA PagesGoneAgain ==
  ASSUME gen \in [Gens -> GenInfo], order \in Seq(Gens), Distinct(order),
         NEW i \in 1 .. Len(order), NEW k \in 1 .. Len(order) - i + 1,
         NEW w, NEW rd, NEW nf, PagesOwned(gen, w, rd, nf),
         \A g \in Gens : Distinct(gen[g].page),
         NEW u, GoneFrom(u, rd, i, k)
  PROVE  /\ FromPages(i, k) \in Seq(Pages) /\ Distinct(FromPages(i, k))
         /\ \A p \in Pages : p \in ToSet(FromPages(i, k)) <=>
              w[p] # NoGen /\ u[w[p]].status \notin Live
<1>1. i \in Nat /\ k \in Nat /\ i > 0 /\ Len(order) \in Nat /\ i + k - 1 <= Len(order)
  OBVIOUS
<1>0. /\ \A g \in Gens : u[g].status \notin Live => g \in Merging(i, k) \/ gen[g].status \notin Live
      /\ \A g \in Merging(i, k) :
           /\ gen[g].status \in Live /\ u[g].status \notin Live
           /\ \A x \in 1 .. Len(gen[g].page) : rd[gen[g].page[x]] = gen[g].diskPage[x]
  BY DEF GoneFrom
<1>2. ASSUME NEW q \in i .. i + k - 1
      PROVE  /\ order[q] \in Gens /\ order[q] \in Merging(i, k) /\ q \in 1 .. Len(order)
             /\ gen[order[q]].page \in Seq(Pages)
             /\ \A p \in ToSet(gen[order[q]].page) : w[p] = order[q]
  <2>1. q \in 1 .. Len(order)
    BY <1>1
  <2>2. order[q] \in Gens /\ order[q] \in Merging(i, k)
    BY <2>1 DEF Merging
  <2>3. gen[order[q]].page \in Seq(Pages)
    BY <2>2 DEF GenInfo
  <2>4. ASSUME NEW p \in ToSet(gen[order[q]].page) PROVE w[p] = order[q]
    <3>0. PICK v \in Seq(Pages) : v = gen[order[q]].page
      BY <2>3
    <3>x. ToSet(v) = {v[x] : x \in 1 .. Len(v)}
      BY Members
    <3>1. PICK x \in 1 .. Len(gen[order[q]].page) : p = gen[order[q]].page[x]
      BY <2>4, <3>0, <3>x
    <3>2. gen[order[q]].status \in Live /\ rd[gen[order[q]].page[x]] = gen[order[q]].diskPage[x]
      BY <1>0, <2>2
    <3>3. \A g \in Gens : gen[g].status \in Live => \A y \in 1 .. Len(gen[g].page) :
            rd[gen[g].page[y]] = gen[g].diskPage[y] => w[gen[g].page[y]] = g
      BY DEF PagesOwned
    <3>4. w[gen[order[q]].page[x]] = order[q]
      BY ONLY <2>2, <3>1, <3>2, <3>3
    <3>5. QED
      BY ONLY <3>1, <3>4
  <2>5. QED
    BY <2>1, <2>2, <2>3, <2>4
<1>3. \A q \in i .. i + k - 1 : Distinct(gen[order[q]].page)
  BY <1>2
<1>4. ASSUME NEW q \in i .. i + k - 1, NEW s \in i .. i + k - 1, q # s
      PROVE  ToSet(gen[order[q]].page) \cap ToSet(gen[order[s]].page) = {}
  <2>1. order[q] # order[s]
    BY <1>2, <1>4 DEF Distinct
  <2>2. ASSUME NEW p \in ToSet(gen[order[q]].page), p \in ToSet(gen[order[s]].page) PROVE FALSE
    <3>1. w[p] = order[q] /\ w[p] = order[s]
      BY <1>2, <2>2
    <3>2. QED
      BY <2>1, <3>1
  <2>3. QED
    BY <2>2
<1>5. /\ FromPages(i, k) \in Seq(Pages) /\ Distinct(FromPages(i, k))
      /\ \A p \in Pages : p \in ToSet(FromPages(i, k)) <=>
           \E j \in i .. i + k - 1 : p \in ToSet(gen[order[j]].page)
  BY ONLY <1>1, <1>3, <1>4, gen \in [Gens -> GenInfo], order \in Seq(Gens), Distinct(order), PagesOfStep
<1>6. ASSUME NEW p \in Pages
      PROVE  (\E j \in i .. i + k - 1 : p \in ToSet(gen[order[j]].page))
               <=> w[p] # NoGen /\ u[w[p]].status \notin Live
  <2>1. ASSUME NEW j \in i .. i + k - 1, p \in ToSet(gen[order[j]].page)
        PROVE  w[p] # NoGen /\ u[w[p]].status \notin Live
    <3>1. w[p] = order[j] /\ order[j] \in Gens /\ u[order[j]].status \notin Live
      BY <1>0, <1>2, <2>1
    <3>2. QED
      BY <3>1, GenerationsAssumption DEF NoGen, Gens
  <2>2. ASSUME w[p] # NoGen, u[w[p]].status \notin Live
        PROVE  \E j \in i .. i + k - 1 : p \in ToSet(gen[order[j]].page)
    <3>1. /\ w[p] \in Gens /\ gen[w[p]].status \in Live
          /\ \E x \in 1 .. Len(gen[w[p]].page) : gen[w[p]].page[x] = p
      BY <2>2 DEF PagesOwned
    <3>2. w[p] \in Merging(i, k)
      BY <1>0, <2>2, <3>1
    <3>3. PICK j \in i .. i + k - 1 : w[p] = order[j]
      BY <3>2 DEF Merging
    <3>4. p \in ToSet(gen[order[j]].page)
      BY <1>2, <3>1, <3>3, Members
    <3>5. QED
      BY <3>4
  <2>3. QED
    BY <2>1, <2>2
<1>7. QED
  BY <1>5, <1>6

LEMMA ReturnCollectedReplay ==
  ASSUME Inv, NEW h \in Log, SnapLog(h), RvyLog(h), rvy_return_collected
  PROVE  RvyLog(h)'
<1>1. /\ h.m \in Nat /\ h.a \in Nat /\ h.b \in Nat /\ h.c \in Nat /\ LogShape(h) /\ LogOK(h)
      /\ LogSteps(h) /\ LogColl(h)
  BY LogTypes DEF SnapLog, LogOK
<1>2. LogEvents(h, h.m + 1) /\ RvyPages
  BY DEF SnapLog, RvyLog
<1>3. h.a <= h.b /\ h.b <= h.m /\ h.b <= h.c
  BY ONLY <1>1 DEF LogShape
<1>4. PICK j \in h.b + 1 .. h.m :
        /\ Back(h, j - 1)
        /\ Head(rvyStack) = [gn |-> h.ev[j].gn, nfrom |-> h.ev[j].nfrom, first |-> First(h, j)]
        /\ Tail(rvyStack) = StackOf(h, j)
  BY AtBack DEF rvy_return_collected
<1>5. j \in Nat /\ j \in h.a + 1 .. h.m + 1 /\ j - 1 \in h.b .. h.m /\ j \in h.b .. h.m
      /\ j \in (j - 1) + 1 .. h.m + 1 /\ (j - 1) + 1 = j /\ j - 1 \in Nat /\ h.b < j /\ h.a < j
  BY <1>1, <1>3
<1>6. PICK g \in Gens : g = h.ev[j].gn
  BY <1>5, EventTypes
<1>7. /\ TableAt(gen, h, j - 1, h.m + 1) /\ order = UpTo(h, j - 1) \o h.ord[j - 1]
      /\ prevTo = h.pt[j - 1] /\ isCollecting \in BOOLEAN
      /\ isCollecting <=> \E f \in Gens : gen[f].status = "TO_BE_COLLECTED"
      /\ \A e \in h.a + 1 .. h.m + 1 : New(h, e) \/ e <= j - 1 => AllocatedOnDisk(h.ev[e])
      /\ \A e \in h.a + 1 .. j - 1 : ~Gone(h, e, j - 1) => InMemory(h.ev[e])
  BY <1>4 DEF Back
<1>8. ~New(h, j)
  BY <1>4 DEF rvy_return_collected, New
<1>9. CollectStep(h, j)
  BY <1>1, <1>8 DEF LogSteps
<1>10. PICK i : i = FirstFrom
  OBVIOUS
<1>11. PICK info : info = gen[g]
  OBVIOUS
<1>12. info = InfoOf(h.ev[j])
  BY <1>5, <1>6, <1>7, <1>11 DEF TableAt
<1>13. info.status \in Live /\ info.page = h.ev[j].page /\ info.diskPage = h.ev[j].diskPage
  BY ONLY <1>12 DEF InfoOf, Live
<1>14. /\ gen \in [Gens -> GenInfo] /\ order \in Seq(Gens) /\ Distinct(order)
       /\ \A f \in Gens : Distinct(gen[f].page)
       /\ RvyTable(gen, owner, diskStatus, rvyDisk, mem, nfree, disk, needs)
  BY <1>2 DEF RvyPages, RvyTable, TableRead
<1>15. PICK u \in Seq(Gens) : u = UpTo(h, j)
  BY <1>1, <1>5, UpToFacts
<1>16. PICK o \in Seq(Gens) : o = h.ord[j - 1]
  BY <1>5, EventTypes
<1>17. PICK s \in Nat : s = h.pos[j]
  BY <1>5, EventTypes
<1>18. PICK k \in Nat : k = h.ev[j].nfrom
  BY <1>5, EventTypes
<1>19. PICK from : from = StepFrom(h, j)
  OBVIOUS
<1>20. /\ order = u \o o /\ s \in 1 .. Len(o) /\ k \in 1 .. Len(o) - s + 1
       /\ i = Len(u) + s /\ from = Merging(i, k)
       /\ MoreToCollect(i, k) <=> s + k <= Len(o)
  <2>1. SnapLog(h) /\ RvyPages /\ j \in h.b + 1 .. h.m /\ ReturnsTo(h, j, i, k, u, o)
    BY <1>2, <1>4, <1>8, <1>10, <1>15, <1>16, <1>18 DEF ReturnsTo
  <2>2. /\ order = u \o o /\ k \in Nat
        /\ h.pos[j] \in 1 .. Len(o) /\ k \in 1 .. Len(o) - h.pos[j] + 1
        /\ i = Len(u) + h.pos[j]
        /\ Merging(i, k) = {o[q] : q \in h.pos[j] .. h.pos[j] + k - 1}
        /\ MoreToCollect(i, k) <=> h.pos[j] + k <= Len(o)
    BY ONLY <2>1, h \in Log, u \in Seq(Gens), o \in Seq(Gens), CollectsAgain
  <2>3. from = {o[q] : q \in h.pos[j] .. h.pos[j] + k - 1}
    BY <1>16, <1>18, <1>19 DEF StepFrom
  <2>4. QED
    BY ONLY <1>17, <2>2, <2>3
<1>21. i \in 1 .. Len(order) /\ k \in 1 .. Len(order) - i + 1
  <2>1. Len(order) = Len(u) + Len(o) /\ Len(u) \in Nat /\ Len(o) \in Nat
    BY <1>20, JoinedIs
  <2>2. QED
    BY ONLY <1>20, <2>1, s \in Nat, k \in Nat
<1>22. PICK t : t = CollectedOnce(gen, i, k, g)
  OBVIOUS
<1>23. /\ TableAt(t, h, j, h.m + 1) /\ t \in [Gens -> GenInfo]
       /\ \A f \in Gens :
            /\ t[f].diskPage = gen[f].diskPage
            /\ t[f].status = "NONEXISTENT" <=> gen[f].status = "NONEXISTENT"
            /\ t[f].status \in Live => gen[f].status \in Live
            /\ t[f].page = gen[f].page \/ (t[f].page = <<>> /\ t[f].status \notin Live)
            /\ t[f].status \notin Live => f \in from \/ gen[f].status \notin Live
            /\ t[f].status \in Live => t[f].status = gen[f].status
            /\ gen[f].status \in Live => f \in from \/ t[f].status = gen[f].status
       /\ \A f \in from : t[f].status = "COLLECTED_ONCE"
  <2>1. /\ LogOK(h) /\ LogEvents(h, h.m + 1) /\ j \in h.b + 1 .. h.m /\ ~New(h, j)
        /\ gen \in [Gens -> GenInfo] /\ TableAt(gen, h, j - 1, h.m + 1)
        /\ CollectsTo(h, j, from, i, k, t)
    BY <1>1, <1>2, <1>6, <1>7, <1>8, <1>14, <1>19, <1>20, <1>22 DEF CollectsTo
  <2>2. QED
    BY ONLY <2>1, h \in Log, CollectedGens
<1>24. /\ from \subseteq Gens
       /\ \A f \in from : gen[f].status \in Live
       /\ \A f \in from : \E e \in h.a + 1 .. j - 1 : f = h.ev[e].gn /\ ~Gone(h, e, j - 1) /\ h.coll[e] = j
  <2>1. /\ LogOK(h) /\ LogEvents(h, h.m + 1) /\ j \in h.b + 1 .. h.m /\ ~New(h, j)
        /\ gen \in [Gens -> GenInfo] /\ TableAt(gen, h, j - 1, h.m + 1) /\ g = h.ev[j].gn
        /\ from = StepFrom(h, j)
    BY <1>1, <1>2, <1>6, <1>7, <1>8, <1>14, <1>19
  <2>2. QED
    BY ONLY <2>1, h \in Log, CollectedFrom
(* The list.                                                               *)
<1>25. Splice(order, i, k, g) = u \o h.ord[j]
  <2>1. Splice(u \o o, Len(u) + s, k, g) = u \o Splice(o, s, k, g)
    BY <1>20, SplicedBehind
  <2>2. h.ord[j] = Splice(o, s, k, g)
    BY <1>6, <1>9, <1>16, <1>17, <1>18 DEF CollectStep
  <2>3. QED
    BY <1>20, <2>1, <2>2
<1>26. g \notin ToSet(order)
  <2>1. SUFFICES ASSUME NEW q \in 1 .. Len(order), order[q] = g PROVE FALSE
    BY <1>14, Members
  <2>2. PICK n \in Nat : n = Len(u)
    OBVIOUS
  <2>3. PICK l \in Nat : l = Len(o)
    OBVIOUS
  <2>4. /\ Len(order) = n + l /\ \A x \in 1 .. n : order[x] = u[x]
        /\ \A x \in 1 .. l : order[n + x] = o[x]
    BY <1>20, <2>2, <2>3, JoinedIs
  <2>5. \E e \in h.a + 1 .. h.m + 1 : e # j /\ order[q] = h.ev[e].gn
    <3>1. CASE q <= n
      <4>1. q \in 1 .. n
        BY <3>1
      <4>2. PICK e \in j + 1 .. h.m + 1 : u[q] = h.ev[e].gn
        BY <1>1, <1>5, <1>15, <2>2, <4>1, UpToFacts
      <4>3. e \in h.a + 1 .. h.m + 1 /\ e # j
        BY <1>1, <1>3, <1>5
      <4>4. QED
        BY <2>4, <4>1, <4>2, <4>3
    <3>2. CASE n < q
      <4>1. q - n \in 1 .. l /\ n + (q - n) = q
        BY <2>4, <3>2
      <4>2. OrdAt(h, j - 1)
        BY <1>1, <1>5 DEF LogOK, LogOrd
      <4>3. PICK e \in h.a + 1 .. j - 1 : o[q - n] = h.ev[e].gn
        BY <1>16, <2>3, <4>1, <4>2 DEF OrdAt
      <4>4. e \in h.a + 1 .. h.m + 1 /\ e # j
        BY <1>1, <1>3, <1>5
      <4>5. order[q] = o[q - n]
        BY <2>4, <4>1
      <4>6. QED
        BY <4>3, <4>4, <4>5
    <3>3. QED
      BY <3>1, <3>2
  <2>6. QED
    BY <1>2, <1>5, <1>6, <2>1, <2>5 DEF LogEvents
<1>27. Splice(order, i, k, g) \in Seq(Gens) /\ Distinct(Splice(order, i, k, g))
  BY <1>14, <1>21, <1>26, Spliced
(* The pages.                                                              *)
<1>28. PICK rd : rd = Put(rvyDisk, info.page, info.diskPage)
  OBVIOUS
<1>29. PICK w : w = OwnerRead(g, info)
  OBVIOUS
<1>30. /\ RvyTable(gen, w, StatusRead(info), rd, MemRead(info), NFreeRead(info), disk, needs)
       /\ \A x \in 1 .. Len(info.page) : rd[info.page[x]] = info.diskPage[x]
       /\ \A q \in Pages : q \notin ToSet(info.page) => rd[q] = rvyDisk[q]
       /\ \A d \in ToSet(info.diskPage) : StatusRead(info)[d] = "ALLOCATED"
       /\ \A d \in DiskPages : diskStatus[d] = "ALLOCATED" => StatusRead(info)[d] = "ALLOCATED"
  <2>1. diskStatus \in [DiskPages -> {"FREE", "ALLOCATED", "UNKNOWN"}]
    BY DEF Inv
  <2>2. PICK x : x = gen
    OBVIOUS
  <2>3. /\ x[g].status \in Live /\ info.page = x[g].page /\ info.diskPage = x[g].diskPage
        /\ RvyTable(x, owner, diskStatus, rvyDisk, mem, nfree, disk, needs)
    BY <1>11, <1>13, <1>14, <2>2
  <2>4. /\ RvyTable(x, OwnerRead(g, info), StatusRead(info), rd, MemRead(info), NFreeRead(info),
                    disk, needs)
        /\ \A y \in 1 .. Len(info.page) : rd[info.page[y]] = info.diskPage[y]
        /\ \A q \in Pages : q \notin ToSet(info.page) => rd[q] = rvyDisk[q]
        /\ \A d \in ToSet(info.diskPage) : StatusRead(info)[d] = "ALLOCATED"
        /\ \A d \in DiskPages : diskStatus[d] = "ALLOCATED" => StatusRead(info)[d] = "ALLOCATED"
    BY ONLY <1>28, <2>1, <2>3, g \in Gens, ReadGen
  <2>5. QED
    BY ONLY <1>29, <2>2, <2>4
<1>31. ASSUME NEW f \in from
       PROVE  /\ gen[f].status \in Live /\ t[f].status \notin Live
              /\ \A x \in 1 .. Len(gen[f].page) : rd[gen[f].page[x]] = gen[f].diskPage[x]
  <2>1. PICK e \in h.a + 1 .. j - 1 : f = h.ev[e].gn /\ ~Gone(h, e, j - 1) /\ h.coll[e] = j
    BY <1>24
  <2>2. e \in Nat /\ e < j /\ e \in h.a + 1 .. h.m + 1
    BY <1>1, <1>5
  <2>3. gen[f] = InfoAt(h, e, j - 1)
    BY <1>7, <2>1 DEF TableAt
  <2>4. gen[f].page = h.ev[e].page /\ gen[f].diskPage = h.ev[e].diskPage
    BY <2>1, <2>3, StatusFacts
  <2>5. InMemory(h.ev[e])
    BY <1>7, <2>1
  <2>6. ToSet(h.ev[e].page) \cap ToSet(h.ev[j].page) = {}
    <3>1. \A x, y \in h.a + 1 .. h.m + 1 :
            x < y /\ (h.coll[x] = 0 \/ h.coll[x] >= y) => ToSet(h.ev[x].page) \cap ToSet(h.ev[y].page) = {}
      BY <1>2 DEF LogEvents
    <3>2. h.coll[e] >= j
      BY <1>5, <2>1
    <3>3. QED
      BY ONLY <1>5, <2>2, <3>1, <3>2
  <2>7. ASSUME NEW x \in 1 .. Len(h.ev[e].page) PROVE rd[h.ev[e].page[x]] = h.ev[e].diskPage[x]
    <3>1. PICK v \in Seq(Pages) : v = h.ev[e].page
      BY <2>2, EventTypes
    <3>2. v[x] \in Pages /\ v[x] \in ToSet(v)
      BY <2>7, <3>1, Members
    <3>3. v[x] \notin ToSet(info.page)
      BY <1>13, <2>6, <3>1, <3>2
    <3>4. rd[v[x]] = rvyDisk[v[x]]
      BY <1>30, <3>2, <3>3
    <3>5. QED
      BY <2>5, <2>7, <3>1, <3>4 DEF InMemory
  <2>8. t[f].status \notin Live
    BY <1>23 DEF Live
  <2>9. QED
    BY <1>24, <2>4, <2>7, <2>8
<1>32. PICK gone : gone = FromPages(i, k)
  OBVIOUS
<1>33. /\ gone \in Seq(Pages) /\ Distinct(gone)
       /\ \A p \in Pages : p \in ToSet(gone) <=> w[p] # NoGen /\ t[w[p]].status \notin Live
  <2>x. PICK nf : nf = NFreeRead(info)
    OBVIOUS
  <2>1. PagesOwned(gen, w, rd, nf)
    BY <1>30, <2>x DEF RvyTable
  <2>2. \A f \in Gens : t[f].status \notin Live => f \in Merging(i, k) \/ gen[f].status \notin Live
    BY <1>20, <1>23
  <2>3. \A f \in Merging(i, k) :
          /\ gen[f].status \in Live /\ t[f].status \notin Live
          /\ \A x \in 1 .. Len(gen[f].page) : rd[gen[f].page[x]] = gen[f].diskPage[x]
    BY <1>20, <1>31
  <2>y. GoneFrom(t, rd, i, k)
    BY <2>2, <2>3 DEF GoneFrom
  <2>4. QED
    BY ONLY <1>14, <1>21, <1>32, <2>1, <2>y, PagesGoneAgain
<1>34. RvyTable(t, [p \in Pages |-> IF p \in ToSet(gone) THEN NoGen ELSE w[p]], StatusRead(info), rd,
                MemRead(info), NFreeRead(info) + Len(gone), disk, needs)
  <2>1. PICK x : x = gen
    OBVIOUS
  <2>4. PICK nf : nf = NFreeRead(info)
    OBVIOUS
  <2>5. PICK st : st = StatusRead(info)
    OBVIOUS
  <2>6. PICK md : md = MemRead(info)
    OBVIOUS
  <2>7. PICK D : D = disk
    OBVIOUS
  <2>8. PICK N : N = needs
    OBVIOUS
  <2>2. /\ RvyTable(x, w, st, rd, md, nf, D, N)
        /\ t \in [Gens -> GenInfo]
        /\ \A f \in Gens :
             /\ t[f].diskPage = x[f].diskPage
             /\ t[f].status = "NONEXISTENT" <=> x[f].status = "NONEXISTENT"
             /\ t[f].status \in Live => x[f].status \in Live
             /\ t[f].page = x[f].page \/ (t[f].page = <<>> /\ t[f].status \notin Live)
    BY <1>23, <1>30, <2>1, <2>4, <2>5, <2>6, <2>7, <2>8
  <2>y. GensCollected(x, t, w, gone)
    BY <1>33, <2>2 DEF GensCollected
  <2>3. RvyTable(t, [p \in Pages |-> IF p \in ToSet(gone) THEN NoGen ELSE w[p]], st, rd, md,
                 nf + Len(gone), D, N)
    BY ONLY <2>2, <2>y, CollectGens
  <2>9. QED
    BY ONLY <2>3, <2>4, <2>5, <2>6, <2>7, <2>8
<1>35. /\ gen' = t /\ order' = u \o h.ord[j] /\ mem' = MemRead(info) /\ rvyDisk' = rd
       /\ diskStatus' = StatusRead(info)
       /\ owner' = [p \in Pages |-> IF p \in ToSet(gone) THEN NoGen ELSE w[p]]
       /\ nfree' = NFreeRead(info) + Len(gone)
       /\ prevTo' = IF MoreToCollect(i, k) THEN g ELSE NoGen
       /\ isCollecting' = (isCollecting /\ MoreToCollect(i, k))
       /\ rvyStack' = StackOf(h, j)
       /\ UNCHANGED <<phase, ngens, lists, disk, root, needs>>
  <2>1. Head(rvyStack).gn = g /\ Head(rvyStack).nfrom = k
    BY <1>4, <1>6, <1>18
  <2>2. order' = Splice(order, i, k, g)
    BY <1>10, <2>1 DEF rvy_return_collected, OrderAfterStep, Splice
  <2>3. QED
    BY <1>4, <1>10, <1>11, <1>22, <1>25, <1>28, <1>29, <1>32, <2>1, <2>2
    DEF rvy_return_collected, rvy_read_generation, ghostVars
<1>36. RvyPages'
  <2>1. RvyTable(gen, owner, diskStatus, rvyDisk, mem, nfree, disk, needs)'
    BY <1>34, <1>35
  <2>2. NeededPagesIntact' /\ lists' = root'.lists
    BY <1>2, <1>35 DEF RvyPages, NeededPagesIntact
  <2>3. order' \in Seq(Gens) /\ Distinct(order')
    BY <1>25, <1>27, <1>35
  <2>4. ngens' \in 1 .. MaxGenerations /\ \A f \in Existing' : f < ngens'
    BY <1>2, <1>23, <1>35 DEF RvyPages, Existing
  <2>5. QED
    BY <2>1, <2>2, <2>3, <2>4 DEF RvyPages
<1>37. \A e \in h.a + 1 .. j : ~Gone(h, e, j) => InMemory(h.ev[e])'
  <2>1. InMemory(h.ev[j])'
    BY <1>13, <1>30, <1>35 DEF InMemory
  <2>2. \A q \in Pages : q \notin ToSet(h.ev[j].page) => rvyDisk'[q] = rvyDisk[q]
    BY <1>13, <1>30, <1>35
  <2>3. QED
    BY <1>2, <1>5, <1>7, <2>1, <2>2, BackKept
<1>38. \A e \in h.a + 1 .. h.m + 1 : New(h, e) \/ e <= j => AllocatedOnDisk(h.ev[e])'
  <2>1. TAKE e \in h.a + 1 .. h.m + 1
  <2>2. HAVE New(h, e) \/ e <= j
  <2>3. CASE e = j
    BY <1>13, <1>30, <1>35, <2>3 DEF AllocatedOnDisk
  <2>4. CASE e # j
    <3>1. New(h, e) \/ e <= j - 1
      BY <1>1, <1>5, <2>2, <2>4
    <3>2. AllocatedOnDisk(h.ev[e]) /\ h.ev[e] \in Event
      BY <1>1, <1>7, <3>1, LogTypes
    <3>3. QED
      BY <1>30, <1>35, <3>2, StaysAllocated
  <2>5. QED
    BY <2>3, <2>4
(* Whether anything is left to collect.                                    *)
<1>39. MoreToCollect(i, k) <=> \E f \in Gens : t[f].status = "TO_BE_COLLECTED"
  <2>1. ASSUME MoreToCollect(i, k) PROVE \E f \in Gens : t[f].status = "TO_BE_COLLECTED"
    <3>1. i + k \in 1 .. Len(order) /\ gen[order[i + k]].status = "TO_BE_COLLECTED"
      BY <1>14, <1>21, <2>1 DEF MoreToCollect
    <3>2. order[i + k] \notin from
      <4>1. SUFFICES ASSUME NEW y \in i .. i + k - 1, order[i + k] = order[y] PROVE FALSE
        BY <1>20 DEF Merging
      <4>2. y \in 1 .. Len(order) /\ y # i + k
        BY <1>14, <1>21
      <4>3. QED
        BY <1>14, <3>1, <4>1, <4>2 DEF Distinct
    <3>3. order[i + k] \in Gens
      BY <1>14, <3>1
    <3>4. t[order[i + k]].status = "TO_BE_COLLECTED"
      BY <1>23, <3>1, <3>2, <3>3 DEF Live
    <3>5. QED
      BY <3>3, <3>4
  <2>2. ASSUME NEW f \in Gens, t[f].status = "TO_BE_COLLECTED" PROVE MoreToCollect(i, k)
    <3>1. t[f].status \in Live /\ f \notin from
      BY <1>23, <2>2 DEF Live
    <3>2. PICK e \in h.a + 1 .. j : f = h.ev[e].gn /\ t[f] = InfoAt(h, e, j)
      <4>1. \E e \in h.a + 1 .. h.m + 1 : f = h.ev[e].gn
        <5>1. t[f] # NoInfo
          BY <2>2 DEF NoInfo
        <5>2. QED
          BY <1>23, <5>1 DEF TableAt
      <4>2. PICK e \in h.a + 1 .. h.m + 1 : f = h.ev[e].gn
        BY <4>1
      <4>3. ~(e \in j + 1 .. h.m + 1)
        <5>1. e \in j + 1 .. h.m + 1 => t[f] = InfoOf(h.ev[e])
          BY <1>23, <4>2 DEF TableAt
        <5>2. InfoOf(h.ev[e]).status = "NORMAL"
          BY DEF InfoOf
        <5>3. QED
          BY <2>2, <5>1, <5>2
      <4>4. e \in h.a + 1 .. j
        BY <1>1, <1>5, <4>3
      <4>5. QED
        BY <1>23, <4>2, <4>4 DEF TableAt
    <3>3. e \in Nat /\ e \in h.a + 1 .. h.m
      BY <1>1, <1>5
    <3>4. t[f].status = StatusAt(h, e, j)
      BY <3>2, StatusFacts
    <3>5. ~Gone(h, e, j) /\ e <= Start(h, j)
      BY <2>2, <3>4 DEF StatusAt
    <3>6. OrdAt(h, j)
      BY <1>1, <1>5 DEF LogOK, LogOrd
    <3>7. e # j /\ e \in h.a + 1 .. j - 1
      <4>1. Start(h, j) < j /\ Start(h, j) \in Nat
        BY <1>1, <1>5, StartRange
      <4>2. QED
        BY <1>1, <1>5, <3>3, <3>5, <4>1
    <3>8. ~Gone(h, e, j - 1)
      BY <1>5, <3>3, <3>5, EventTypes DEF Gone
    <3>9. PICK q \in 1 .. Len(o) : o[q] = f
      <4>1. OrdAt(h, j - 1)
        BY <1>1, <1>5 DEF LogOK, LogOrd
      <4>2. QED
        BY <1>16, <3>2, <3>7, <3>8, <4>1 DEF OrdAt
    <3>10. s <= q
      BY <1>9, <1>16, <1>17, <3>2, <3>5, <3>7, <3>9 DEF CollectStep
    <3>11. ~(q \in s .. s + k - 1)
      <4>1. \A x \in s .. s + k - 1 : o[x] \in StepFrom(h, j)
        BY <1>16, <1>17, <1>18 DEF StepFrom
      <4>2. QED
        BY <1>19, <3>1, <3>9, <4>1
    <3>12. s + k <= Len(o)
      BY <1>20, <3>10, <3>11
    <3>13. QED
      BY <1>20, <3>12
  <2>3. QED
    BY <2>1, <2>2
<1>40. Back(h, j)'
  <2>1. phase' = "rvy_return"
    BY <1>35 DEF rvy_return_collected
  <2>2. StackAt(h, j)'
    BY <1>35 DEF StackAt
  <2>3. prevTo' = h.pt[j]
    <3>1. h.pt[j] = IF s + k <= Len(o) THEN g ELSE NoGen
      BY <1>6, <1>9, <1>16, <1>17, <1>18 DEF CollectStep
    <3>2. QED
      BY <1>20, <1>35, <3>1
  <2>4. order' = UpTo(h, j) \o h.ord[j]
    BY <1>15, <1>35
  <2>5. isCollecting' \in BOOLEAN
    BY <1>35
  <2>6. isCollecting' <=> \E f \in Gens : gen'[f].status = "TO_BE_COLLECTED"
    <3>1. ASSUME NEW f \in Gens, t[f].status = "TO_BE_COLLECTED" PROVE isCollecting
      BY <1>7, <1>23, <3>1 DEF Live
    <3>2. QED
      BY <1>35, <1>39, <3>1
  <2>7. TableAt(gen', h, j, h.m + 1)
    BY <1>23, <1>35
  <2>8. QED
    BY ONLY <1>5, <1>37, <1>38, <2>1, <2>2, <2>3, <2>4, <2>5, <2>6, <2>7, Zenon DEF Back
<1>41. phase' = "rvy_return"
  BY <1>35 DEF rvy_return_collected
<1>42. QED
  BY <1>5, <1>36, <1>40, <1>41 DEF RvyLog

(* What is recovered in the end is what there was at the commit.           *)
LEMMA OwnersRebuilt ==
  ASSUME NEW t, NEW w, NEW rd, NEW nf, PagesOwned(t, w, rd, nf), NEW v, OwnerOK(t, v),
         \A g \in Gens : t[g].status \in Live => t[g].page \in Seq(Pages) /\
           \A i \in 1 .. Len(t[g].page) : rd[t[g].page[i]] = t[g].diskPage[i]
  PROVE  w = v
<1>1. w \in [Pages -> Gens \cup {NoGen}] /\ v \in [Pages -> Gens \cup {NoGen}]
  BY DEF PagesOwned, OwnerOK
<1>2. ASSUME NEW p \in Pages, w[p] # NoGen PROVE v[p] = w[p]
  <2>1. w[p] \in Gens /\ t[w[p]].status \in Live
    BY <1>1, <1>2 DEF PagesOwned
  <2>2. \E i \in 1 .. Len(t[w[p]].page) : t[w[p]].page[i] = p
    BY <1>2 DEF PagesOwned
  <2>3. PICK u \in Seq(Pages) : u = t[w[p]].page
    BY <2>1
  <2>4. p \in ToSet(t[w[p]].page)
    BY <2>2, <2>3, Members
  <2>5. QED
    BY <2>1, <2>4 DEF OwnerOK
<1>3. ASSUME NEW p \in Pages, v[p] # NoGen PROVE w[p] = v[p]
  <2>1. PICK g \in Gens : g = v[p]
    BY <1>1, <1>3
  <2>2. t[g].status \in Live /\ p \in ToSet(t[g].page)
    BY <2>1 DEF OwnerOK
  <2>3. PICK u \in Seq(Pages) : u = t[g].page
    BY <2>2
  <2>4. PICK i \in 1 .. Len(u) : u[i] = p
    BY <2>2, <2>3, Members
  <2>5. rd[t[g].page[i]] = t[g].diskPage[i] /\ i \in 1 .. Len(t[g].page)
    BY <2>2, <2>3, <2>4
  <2>6. \A f \in Gens : t[f].status \in Live => \A y \in 1 .. Len(t[f].page) :
          rd[t[f].page[y]] = t[f].diskPage[y] => w[t[f].page[y]] = f
    BY DEF PagesOwned
  <2>7. w[t[g].page[i]] = g
    BY ONLY <2>2, <2>5, <2>6, g \in Gens
  <2>8. QED
    BY ONLY <2>1, <2>3, <2>4, <2>7
<1>4. \A p \in Pages : w[p] = v[p]
  BY <1>2, <1>3
<1>5. QED
  BY ONLY <1>1, <1>4

LEMMA TableRebuilt ==
  ASSUME NEW h \in Log, NEW j \in Nat, NEW n \in Nat, NEW t \in [Gens -> GenInfo],
         NEW u \in [Gens -> GenInfo], TableAt(t, h, j, n), TableAt(u, h, j, n)
  PROVE  t = u
<1>1. h.a \in Nat
  BY LogTypes
<1>2. ASSUME NEW g \in Gens PROVE t[g] = u[g]
  <2>1. CASE \E e \in h.a + 1 .. n : h.ev[e].gn = g
    <3>1. PICK e \in h.a + 1 .. n : h.ev[e].gn = g
      BY <2>1
    <3>2. CASE e <= j
      <4>1. e \in h.a + 1 .. j
        BY <1>1, <3>2
      <4>2. QED
        BY <3>1, <4>1 DEF TableAt
    <3>3. CASE j < e
      <4>1. e \in j + 1 .. n
        BY <1>1, <3>3
      <4>2. QED
        BY <3>1, <4>1 DEF TableAt
    <3>4. QED
      BY <1>1, <3>2, <3>3
  <2>2. CASE ~\E e \in h.a + 1 .. n : h.ev[e].gn = g
    BY <2>2 DEF TableAt
  <2>3. QED
    BY <2>1, <2>2
<1>3. QED
  BY <1>2

LEMMA LastBack ==
  ASSUME NEW h \in Log, SnapLog(h), RvyLog(h), phase = "rvy_return", rvyStack = <<>>
  PROVE  Back(h, h.m)
<1>1. h.m \in Nat /\ h.b \in Nat
  BY LogTypes
<1>2. PICK i \in h.b .. h.m : Back(h, i)
  BY DEF RvyLog
<1>3. PICK l \in Nat : l = h.m - i
  BY <1>1
<1>4. StackOf(h, i) = [x \in 1 .. l |->
        [gn |-> h.ev[i + x].gn, nfrom |-> h.ev[i + x].nfrom, first |-> First(h, i + x)]]
  BY <1>3 DEF StackOf
<1>5. l = 0
  <2>1. PICK s : s = StackOf(h, i)
    OBVIOUS
  <2>2. DOMAIN s = 1 .. l
    BY ONLY <1>4, <2>1
  <2>3. s = <<>>
    BY <1>2, <2>1 DEF Back, StackAt
  <2>4. DOMAIN s = {}
    BY ONLY <2>3
  <2>5. QED
    BY ONLY <2>2, <2>4, l \in Nat
<1>6. QED
  BY <1>1, <1>2, <1>3, <1>5

LEMMA BatchReturnedReplay ==
  ASSUME Inv, snap.exists, NEW h \in Log, SnapLog(h), RvyLog(h), rvy_batch_returned
  PROVE  RvyLog(h)'
<1>1. /\ h.m \in Nat /\ h.a \in Nat /\ h.b \in Nat /\ h.c \in Nat /\ LogShape(h) /\ LogOK(h)
      /\ LogColl(h)
  BY LogTypes DEF SnapLog, LogOK
<1>2. LogEvents(h, h.m + 1) /\ RvyPages
  BY DEF SnapLog, RvyLog
<1>3. h.a <= h.b /\ h.b <= h.c /\ h.c <= h.m
  BY ONLY <1>1 DEF LogShape
<1>4. Back(h, h.m)
  BY LastBack DEF rvy_batch_returned
<1>5. PICK j \in Nat : j = h.m + 1
  BY <1>1
<1>6. j \in h.a + 1 .. h.m + 1 /\ j \in h.m + 1 .. h.m + 1 /\ h.a < j /\ j - 1 = h.m
  BY <1>1, <1>3, <1>5
<1>7. PICK g \in Gens : g = h.ev[j].gn
  BY EventTypes
<1>8. h.ev[j] = [gn |-> root.gn, nfrom |-> 0, page |-> root.page, diskPage |-> root.diskPage]
  BY <1>5 DEF SnapLog
<1>9. g = root.gn /\ New(h, j)
  BY ONLY <1>7, <1>8 DEF New
<1>10. /\ TableAt(gen, h, h.m, h.m + 1) /\ order = UpTo(h, h.m) \o h.ord[h.m]
       /\ prevTo = h.pt[h.m] /\ isCollecting \in BOOLEAN
       /\ isCollecting <=> \E f \in Gens : gen[f].status = "TO_BE_COLLECTED"
       /\ \A e \in h.a + 1 .. h.m + 1 : New(h, e) \/ e <= h.m => AllocatedOnDisk(h.ev[e])
       /\ \A e \in h.a + 1 .. h.m : ~Gone(h, e, h.m) => InMemory(h.ev[e])
  BY <1>4 DEF Back
<1>11. PICK info : info = gen[g]
  OBVIOUS
<1>12. info = InfoOf(h.ev[j])
  BY <1>6, <1>7, <1>10, <1>11 DEF TableAt
<1>13. info.status \in Live /\ info.page = h.ev[j].page /\ info.diskPage = h.ev[j].diskPage
  BY ONLY <1>12 DEF InfoOf, Live
<1>14. RvyTable(gen, owner, diskStatus, rvyDisk, mem, nfree, disk, needs)
  BY <1>2 DEF RvyPages
<1>15. PICK t : t = gen
  OBVIOUS
<1>16. PICK rd : rd = Put(rvyDisk, info.page, info.diskPage)
  OBVIOUS
<1>17. PICK w, st, md, nf : w = OwnerRead(g, info) /\ st = StatusRead(info) /\ md = MemRead(info)
                            /\ nf = NFreeRead(info)
  OBVIOUS
<1>18. /\ RvyTable(t, w, st, rd, md, nf, disk, needs)
       /\ \A y \in 1 .. Len(info.page) : rd[info.page[y]] = info.diskPage[y]
       /\ \A q \in Pages : q \notin ToSet(info.page) => rd[q] = rvyDisk[q]
       /\ \A d \in DiskPages : diskStatus[d] = "ALLOCATED" => st[d] = "ALLOCATED"
  <2>1. diskStatus \in [DiskPages -> {"FREE", "ALLOCATED", "UNKNOWN"}]
    BY DEF Inv
  <2>2. /\ t[g].status \in Live /\ info.page = t[g].page /\ info.diskPage = t[g].diskPage
        /\ RvyTable(t, owner, diskStatus, rvyDisk, mem, nfree, disk, needs)
    BY <1>11, <1>13, <1>14, <1>15
  <2>3. /\ RvyTable(t, OwnerRead(g, info), StatusRead(info), rd, MemRead(info), NFreeRead(info),
                    disk, needs)
        /\ \A y \in 1 .. Len(info.page) : rd[info.page[y]] = info.diskPage[y]
        /\ \A q \in Pages : q \notin ToSet(info.page) => rd[q] = rvyDisk[q]
        /\ \A d \in DiskPages : diskStatus[d] = "ALLOCATED" => StatusRead(info)[d] = "ALLOCATED"
    BY ONLY <1>16, <2>1, <2>2, g \in Gens, ReadGen
  <2>4. QED
    BY ONLY <1>17, <2>3
<1>19. /\ owner' = w /\ diskStatus' = st /\ rvyDisk' = rd /\ mem' = md /\ nfree' = nf
       /\ phase' = "recovered"
       /\ gen' = t /\ UNCHANGED <<ngens, order, lists, prevTo, isCollecting, disk, root, needs, snap>>
  BY <1>9, <1>11, <1>15, <1>16, <1>17 DEF rvy_batch_returned, rvy_read_generation, gcVars, ghostVars
<1>20. RvyPages'
  <2>1. RvyTable(gen, owner, diskStatus, rvyDisk, mem, nfree, disk, needs)'
    BY <1>18, <1>19
  <2>2. QED
    BY <1>2, <1>15, <1>19, <2>1 DEF RvyPages, NeededPagesIntact, Existing
(* Everything live is in memory now.                                       *)
<1>21. ASSUME NEW e \in h.a + 1 .. h.m + 1, ~Gone(h, e, h.m)
       PROVE  \A y \in 1 .. Len(h.ev[e].page) : rd[h.ev[e].page[y]] = h.ev[e].diskPage[y]
  <2>1. InMemory(h.ev[j])'
    BY <1>13, <1>18, <1>19 DEF InMemory
  <2>2. \A q \in Pages : q \notin ToSet(h.ev[j].page) => rvyDisk'[q] = rvyDisk[q]
    BY <1>13, <1>18, <1>19
  <2>3. \A x \in h.a + 1 .. j - 1 : ~Gone(h, x, j - 1) => InMemory(h.ev[x])
    BY <1>6, <1>10
  <2>4. \A x \in h.a + 1 .. j : ~Gone(h, x, j) => InMemory(h.ev[x])'
    BY <1>2, <1>6, <2>1, <2>2, <2>3, BackKept
  <2>5. e \in h.a + 1 .. j /\ e \in Nat /\ h.a < e
    BY <1>1, <1>5
  <2>6. h.coll[e] # 0 => h.coll[e] <= h.m
    BY <1>1, <2>5 DEF LogColl, Index
  <2>7. ~Gone(h, e, j)
    BY <1>21, <2>6 DEF Gone
  <2>8. InMemory(h.ev[e])'
    BY <2>4, <2>5, <2>7
  <2>9. QED
    BY <1>19, <2>8 DEF InMemory
<1>22. /\ \A e \in h.a + 1 .. h.m + 1 :
            /\ t[h.ev[e].gn].status # "NONEXISTENT" /\ t[h.ev[e].gn].diskPage = h.ev[e].diskPage
            /\ t[h.ev[e].gn].status \in Live <=> (h.m < e \/ ~Gone(h, e, h.m))
            /\ t[h.ev[e].gn].status \in Live => t[h.ev[e].gn].page = h.ev[e].page
       /\ \A f \in Gens : t[f].status # "NONEXISTENT" => \E e \in h.a + 1 .. h.m + 1 : h.ev[e].gn = f
  <2>1. TableAt(t, h, h.m, h.m + 1)
    BY <1>10, <1>15
  <2>2. QED
    BY ONLY <1>1, <2>1, h \in Log, TableGens
<1>23. ~Gone(h, j, h.m)
  <2>1. SUFFICES ASSUME h.coll[j] # 0 PROVE FALSE
    BY DEF Gone
  <2>2. j <= h.c
    BY <1>1, <1>6, <2>1, CollRange
  <2>3. QED
    BY <1>1, <1>3, <1>5, <2>2
<1>24. ASSUME NEW f \in Gens, t[f].status \in Live
       PROVE  \E e \in h.a + 1 .. h.m + 1 : f = h.ev[e].gn /\ ~Gone(h, e, h.m)
                /\ t[f].page = h.ev[e].page /\ t[f].diskPage = h.ev[e].diskPage
  <2>1. t[f].status # "NONEXISTENT"
    BY <1>24 DEF Live
  <2>2. PICK e \in h.a + 1 .. h.m + 1 : h.ev[e].gn = f
    BY <1>22, <2>1
  <2>3. h.m < e \/ ~Gone(h, e, h.m)
    BY <1>22, <1>24, <2>2
  <2>4. ~Gone(h, e, h.m)
    <3>1. h.m < e => e = j
      BY <1>1, <1>5
    <3>2. QED
      BY <1>23, <2>3, <3>1
  <2>5. QED
    BY <1>22, <1>24, <2>2, <2>4
<1>25. /\ TableOK(snap.gen) /\ OwnerOK(snap.gen, snap.owner)
       /\ CollectorOK(snap.gen, snap.order, snap.prevTo, snap.isCollecting)
  BY DEF Inv, SnapOK
<1>26. t \in [Gens -> GenInfo]
  BY <1>18 DEF RvyTable, TableRead
<1>27. t = snap.gen
  <2>1. PICK u : u = snap.gen
    OBVIOUS
  <2>2. u \in [Gens -> GenInfo] /\ TableAt(u, h, h.m, h.m + 1)
    BY <1>25, <2>1 DEF TableOK, SnapLog
  <2>3. TableAt(t, h, h.m, h.m + 1)
    BY <1>10, <1>15
  <2>4. h.m + 1 \in Nat
    BY <1>1
  <2>5. t = u
    BY ONLY <1>1, <1>26, <2>2, <2>3, <2>4, h \in Log, TableRebuilt
  <2>6. QED
    BY <2>1, <2>5
<1>28. order' = snap.order
  <2>1. h.up[h.m] = <<>> /\ h.ev[h.m + 1].gn = root.gn
    BY <1>1, <1>5, <1>7, <1>9 DEF LogOK, LogUp
  <2>2. UpTo(h, h.m) = <<h.ev[h.m + 1].gn>> \o <<>>
    BY <2>1 DEF UpTo
  <2>3. PICK x \in Gens : x = h.ev[h.m + 1].gn
    BY <1>5, <1>7
  <2>4. <<x>> \o <<>> = <<x>>
    OBVIOUS
  <2>5. order = <<root.gn>> \o h.ord[h.m]
    BY <1>10, <2>1, <2>2, <2>3, <2>4
  <2>6. snap.order = <<root.gn>> \o h.ord[h.m]
    BY DEF SnapLog
  <2>7. QED
    BY <1>19, <2>5, <2>6
<1>29. prevTo' = snap.prevTo /\ isCollecting' = snap.isCollecting
  <2>1. snap.prevTo = h.pt[h.m]
    BY DEF SnapLog
  <2>2. snap.isCollecting \in BOOLEAN
        /\ (snap.isCollecting <=> \E f \in Gens : snap.gen[f].status = "TO_BE_COLLECTED")
    BY <1>25 DEF CollectorOK
  <2>3. isCollecting <=> \E f \in Gens : snap.gen[f].status = "TO_BE_COLLECTED"
    BY <1>10, <1>15, <1>27
  <2>4. QED
    BY <1>10, <1>19, <2>1, <2>2, <2>3
<1>30. ASSUME NEW f \in Gens, t[f].status \in Live
       PROVE  t[f].page \in Seq(Pages) /\ \A y \in 1 .. Len(t[f].page) : rd[t[f].page[y]] = t[f].diskPage[y]
  <2>1. t[f].page \in Seq(Pages)
    BY <1>26 DEF GenInfo
  <2>2. QED
    BY <1>21, <1>24, <1>30, <2>1
<1>31. PagesOwned(t, w, rd, nf) /\ PagesRead(t, st, rd, md, disk)
  BY <1>18 DEF RvyTable
<1>32. w = snap.owner
  <2>1. PICK v : v = snap.owner
    OBVIOUS
  <2>2. OwnerOK(t, v)
    BY <1>25, <1>27, <2>1
  <2>3. w = v
    BY ONLY <1>30, <1>31, <2>2, OwnersRebuilt
  <2>4. QED
    BY <2>1, <2>3
<1>33. ASSUME NEW p \in DOMAIN snap.mem PROVE md[p] = snap.mem[p]
  <2>1. p \in Pages /\ w[p] # NoGen
    BY <1>32 DEF SnapLog
  <2>2. w[p] \in Gens /\ t[w[p]].status \in Live
    BY <1>31, <2>1 DEF PagesOwned
  <2>3. PICK f \in Gens : f = w[p]
    BY <2>2
  <2>4. PICK i \in 1 .. Len(t[f].page) : t[f].page[i] = p /\ t[f].diskPage[i] = rd[p]
    BY <1>31, <2>1, <2>3 DEF PagesOwned
  <2>5. PICK e \in h.a + 1 .. h.m + 1 : ~Gone(h, e, h.m)
              /\ t[f].page = h.ev[e].page /\ t[f].diskPage = h.ev[e].diskPage
    BY <1>24, <2>2, <2>3
  <2>6. <<h.ev[e].diskPage[i], snap.mem[h.ev[e].page[i]]>> \in needs
    BY <2>4, <2>5 DEF SnapLog
  <2>7. <<rd[p], snap.mem[p]>> \in needs
    BY <2>4, <2>5, <2>6
  <2>8. disk[rd[p]] = snap.mem[p] /\ rd[p] \in DiskPages
    <3>1. PICK x : x = <<rd[p], snap.mem[p]>>
      OBVIOUS
    <3>2. disk[x[1]] = x[2] /\ x[1] \in DiskPages
      BY <1>2, <2>7, <3>1 DEF RvyPages, NeededPagesIntact, SnapLog
    <3>3. QED
      BY ONLY <3>1, <3>2
  <2>9. rd[p] # NoDiskPage
    BY <2>8, PagesAssumption DEF DiskPages, NoDiskPage
  <2>10. md[p] = disk[rd[p]]
    BY <1>31, <2>1, <2>9 DEF PagesRead
  <2>11. QED
    BY <2>8, <2>10
<1>34. nfree' = Cardinality({p \in Pages : owner'[p] = NoGen})
  BY <1>19, <1>31 DEF PagesOwned
<1>35. {d \in DiskPages : diskStatus'[d] = "ALLOCATED"} = UNION {ToSet(gen'[f].diskPage) : f \in Existing'}
  <2>1. ASSUME NEW d \in DiskPages, st[d] = "ALLOCATED"
        PROVE  \E f \in Gens : t[f].status # "NONEXISTENT" /\ d \in ToSet(t[f].diskPage)
    BY <1>31, <2>1 DEF PagesRead
  <2>2. ASSUME NEW f \in Gens, t[f].status # "NONEXISTENT", NEW d \in ToSet(t[f].diskPage)
        PROVE  d \in DiskPages /\ st[d] = "ALLOCATED"
    <3>1. PICK e \in h.a + 1 .. h.m + 1 : h.ev[e].gn = f
      BY <1>22, <2>2
    <3>2. t[f].diskPage = h.ev[e].diskPage
      BY <1>22, <3>1
    <3>3. New(h, e) \/ e <= h.m
      BY <1>1, <1>5, <1>9
    <3>4. AllocatedOnDisk(h.ev[e])
      BY <1>10, <3>3
    <3>5. diskStatus[d] = "ALLOCATED"
      BY <2>2, <3>2, <3>4 DEF AllocatedOnDisk
    <3>6. t[f].diskPage \in Seq(DiskPages)
      BY <1>26 DEF GenInfo
    <3>7. d \in DiskPages
      BY <2>2, <3>6, Members
    <3>8. QED
      BY <1>18, <3>5, <3>7
  <2>3. Existing' = {f \in Gens : t[f].status # "NONEXISTENT"}
    BY <1>19 DEF Existing
  <2>4. ASSUME NEW d \in DiskPages, diskStatus'[d] = "ALLOCATED"
        PROVE  d \in UNION {ToSet(gen'[f].diskPage) : f \in Existing'}
    BY <1>19, <2>1, <2>3, <2>4
  <2>5. ASSUME NEW d \in UNION {ToSet(gen'[f].diskPage) : f \in Existing'}
        PROVE  d \in DiskPages /\ diskStatus'[d] = "ALLOCATED"
    BY <1>19, <2>2, <2>3
  <2>6. QED
    BY <2>4, <2>5
<1>36. ngens' \in 1 .. MaxGenerations /\ Existing' \subseteq 0 .. ngens' - 1
  <2>1. ngens' \in 1 .. MaxGenerations /\ \A f \in Existing' : f < ngens'
    BY <1>20 DEF RvyPages
  <2>2. \A f \in Existing' : f \in Nat
    BY GenerationsAssumption DEF Existing, Gens
  <2>3. ngens' \in Nat
    BY <2>1, GenerationsAssumption
  <2>4. QED
    BY <2>1, <2>2, <2>3
<1>37. RecoveredFaithfully'
  <2>1. gen' = snap'.gen /\ owner' = snap'.owner /\ order' = snap'.order
        /\ prevTo' = snap'.prevTo /\ isCollecting' = snap'.isCollecting
    BY <1>19, <1>27, <1>28, <1>29, <1>32
  <2>2. \A p \in DOMAIN snap'.mem : mem'[p] = snap'.mem[p]
    BY <1>19, <1>33
  <2>3. QED
    BY ONLY <1>34, <1>35, <1>36, <2>1, <2>2, Zenon DEF RecoveredFaithfully
<1>38. QED
  BY ONLY <1>19, <1>20, <1>37 DEF RvyLog

(* Recovery begins with the youngest generation, which the root block      *)
(* describes.                                                              *)
LEMMA PutDistinct ==
  ASSUME NEW f, NEW s, NEW values, DOMAIN s = 1 .. Len(s), Distinct(s),
         NEW i \in 1 .. Len(s), s[i] \in DOMAIN f
  PROVE  Put(f, s, values)[s[i]] = values[i]
<1>1. \E k \in DOMAIN s : s[k] = s[i]
  OBVIOUS
<1>2. PICK k : k = CHOOSE z \in DOMAIN s : s[z] = s[i]
  OBVIOUS
<1>3. k \in 1 .. Len(s) /\ s[k] = s[i]
  BY <1>1, <1>2
<1>4. k = i
  BY <1>3 DEF Distinct
<1>5. QED
  BY <1>1, <1>2, <1>4 DEF Put

RootRead(ev, t, w, st, rd, m, nf, D, N) ==
  /\ Len(ev.page) = Len(ev.diskPage) /\ Distinct(ev.page)
  /\ \A i \in 1 .. Len(ev.diskPage) : \E x \in N : x[1] = ev.diskPage[i]
  /\ t = [g \in Gens |-> IF g = ev.gn THEN InfoOf(ev) ELSE NoInfo]
  /\ w = [p \in Pages |-> IF p \in ToSet(ev.page) THEN ev.gn ELSE NoGen]
  /\ st = [d \in DiskPages |-> IF d \in ToSet(ev.diskPage) THEN "ALLOCATED" ELSE "UNKNOWN"]
  /\ rd = Put([p \in Pages |-> NoDiskPage], ev.page, ev.diskPage)
  /\ m = Put([p \in Pages |-> Blank], ev.page, [i \in DOMAIN ev.page |-> D[ev.diskPage[i]]])
  /\ nf = NumberOfPages - Len(ev.page)

LEMMA FirstRead ==
  ASSUME NEW ev \in Event, NEW D, NEW N, NEW t, NEW w, NEW st, NEW rd, NEW m, NEW nf,
         RootRead(ev, t, w, st, rd, m, nf, D, N)
  PROVE  /\ RvyTable(t, w, st, rd, m, nf, D, N)
         /\ \A i \in 1 .. Len(ev.page) : rd[ev.page[i]] = ev.diskPage[i]
<1>0. /\ Len(ev.page) = Len(ev.diskPage) /\ Distinct(ev.page)
      /\ \A i \in 1 .. Len(ev.diskPage) : \E x \in N : x[1] = ev.diskPage[i]
      /\ t = [g \in Gens |-> IF g = ev.gn THEN InfoOf(ev) ELSE NoInfo]
      /\ w = [p \in Pages |-> IF p \in ToSet(ev.page) THEN ev.gn ELSE NoGen]
      /\ st = [d \in DiskPages |-> IF d \in ToSet(ev.diskPage) THEN "ALLOCATED" ELSE "UNKNOWN"]
      /\ rd = Put([p \in Pages |-> NoDiskPage], ev.page, ev.diskPage)
      /\ m = Put([p \in Pages |-> Blank], ev.page, [i \in DOMAIN ev.page |-> D[ev.diskPage[i]]])
      /\ nf = NumberOfPages - Len(ev.page)
  BY DEF RootRead
<1>1. ev.gn \in Gens /\ ev.page \in Seq(Pages) /\ ev.diskPage \in Seq(DiskPages)
  BY DEF Event
<1>2. PICK g \in Gens : g = ev.gn
  BY <1>1
<1>3. PICK s \in Seq(Pages) : s = ev.page
  BY <1>1
<1>4. PICK dp \in Seq(DiskPages) : dp = ev.diskPage
  BY <1>1
<1>5. /\ Len(s) \in Nat /\ DOMAIN s = 1 .. Len(s) /\ ToSet(s) = {s[i] : i \in 1 .. Len(s)}
      /\ ToSet(s) \subseteq Pages
  BY Members
<1>6. /\ Len(dp) = Len(s) /\ ToSet(dp) = {dp[i] : i \in 1 .. Len(s)} /\ ToSet(dp) \subseteq DiskPages
      /\ \A i \in 1 .. Len(s) : dp[i] \in DiskPages
  BY <1>0, <1>3, <1>4, Members
<1>7. Distinct(s)
  BY <1>0, <1>3
<1>8. \A i \in 1 .. Len(s) : rd[s[i]] = dp[i] /\ m[s[i]] = D[dp[i]]
  <2>1. TAKE i \in 1 .. Len(s)
  <2>2. PICK f : f = [p \in Pages |-> NoDiskPage]
    OBVIOUS
  <2>3. PICK b : b = [p \in Pages |-> Blank]
    OBVIOUS
  <2>4. PICK v : v = [k \in DOMAIN s |-> D[dp[k]]]
    OBVIOUS
  <2>5. s[i] \in DOMAIN f /\ s[i] \in DOMAIN b
    BY <1>5, <2>2, <2>3
  <2>6. Put(f, s, dp)[s[i]] = dp[i] /\ Put(b, s, v)[s[i]] = v[i]
    BY ONLY <1>5, <1>7, <2>1, <2>5, PutDistinct
  <2>7. v[i] = D[dp[i]]
    BY <1>5, <2>4
  <2>8. QED
    BY <1>0, <1>3, <1>4, <2>2, <2>3, <2>4, <2>6, <2>7
<1>9. \A p \in Pages : p \notin ToSet(s) => rd[p] = NoDiskPage
  BY <1>0, <1>3, PutFunction
<1>10. DOMAIN rd = Pages /\ DOMAIN m = Pages
  BY <1>0, PutFunction
<1>11. rd \in [Pages -> DiskPages \cup {NoDiskPage}]
  <2>1. \A p \in Pages : rd[p] \in DiskPages \cup {NoDiskPage}
    BY <1>5, <1>6, <1>8, <1>9
  <2>2. rd = [p \in Pages |-> rd[p]]
    <3>1. PICK f : f = [p \in Pages |-> NoDiskPage]
      OBVIOUS
    <3>2. DOMAIN f = Pages /\ rd = Put(f, s, dp)
      BY <1>0, <1>3, <1>4, <3>1
    <3>3. rd = [p \in DOMAIN f |-> rd[p]]
      BY ONLY <3>2, PutFunction
    <3>4. QED
      BY ONLY <3>2, <3>3
  <2>3. QED
    BY <2>1, <2>2
<1>12. /\ t[g] = InfoOf(ev) /\ t[g].status = "NORMAL" /\ t[g].page = s /\ t[g].diskPage = dp
       /\ \A f \in Gens : f # g => t[f] = NoInfo
  BY <1>0, <1>2, <1>3, <1>4 DEF InfoOf
<1>13. TableRead(t, N)
  <2>1. InfoOf(ev) \in GenInfo /\ NoInfo \in GenInfo
    BY <1>1 DEF InfoOf, NoInfo, GenInfo, GenStatus
  <2>2. t \in [Gens -> GenInfo]
    BY <1>0, <2>1
  <2>3. \A f \in Gens : Distinct(t[f].page)
    <3>1. Distinct(<<>>)
      BY DEF Distinct
    <3>2. QED
      BY <1>7, <1>12, <3>1 DEF NoInfo
  <2>4. \A f \in Gens : t[f].status # "NONEXISTENT" => f = g
    BY <1>12 DEF NoInfo
  <2>5. \A f \in Gens : t[f].status \in Live => f = g
    BY <2>4 DEF Live
  <2>6. \A d \in ToSet(dp) : \E x \in N : x[1] = d
    BY <1>0, <1>4, <1>6
  <2>7. QED
    BY ONLY <1>6, <1>12, <2>2, <2>3, <2>4, <2>5, <2>6 DEF TableRead
<1>14. PagesRead(t, st, rd, m, D)
  <2>1. \A d \in DiskPages : st[d] = "ALLOCATED" <=> d \in ToSet(dp)
    BY <1>0, <1>4
  <2>2. ASSUME NEW p \in Pages, rd[p] # NoDiskPage
        PROVE  m[p] = D[rd[p]] /\ st[rd[p]] = "ALLOCATED" /\ rd[p] \in ToSet(dp)
    <3>1. PICK i \in 1 .. Len(s) : p = s[i]
      BY <1>5, <1>9, <2>2
    <3>2. QED
      BY <1>6, <1>8, <2>1, <3>1
  <2>3. t[g].status # "NONEXISTENT"
    BY <1>12
  <2>4. QED
    BY ONLY <1>10, <1>11, <1>12, <2>1, <2>2, <2>3 DEF PagesRead
<1>15. PagesOwned(t, w, rd, nf)
  <2>1. \A p \in Pages : w[p] = IF p \in ToSet(s) THEN g ELSE NoGen
    BY <1>0, <1>2, <1>3
  <2>2. w \in [Pages -> Gens \cup {NoGen}]
    BY <1>0, <1>1
  <2>3. g # NoGen
    BY GenerationsAssumption DEF NoGen, Gens
  <2>4. ASSUME NEW p \in Pages, w[p] # NoGen
        PROVE  /\ t[w[p]].status \in Live
               /\ \E i \in 1 .. Len(t[w[p]].page) : t[w[p]].page[i] = p /\ t[w[p]].diskPage[i] = rd[p]
    <3>1. p \in ToSet(s) /\ w[p] = g
      BY <2>1, <2>4
    <3>2. PICK i \in 1 .. Len(s) : p = s[i]
      BY <1>5, <3>1
    <3>3. t[g].status \in Live /\ t[g].page = s /\ t[g].diskPage = dp
      BY <1>12 DEF Live
    <3>4. rd[p] = dp[i]
      BY <1>8, <3>2
    <3>5. QED
      BY ONLY <3>1, <3>2, <3>3, <3>4
  <2>5. ASSUME NEW f \in Gens, t[f].status \in Live, NEW i \in 1 .. Len(t[f].page)
        PROVE  w[t[f].page[i]] = f
    <3>1. f = g
      BY <1>12, <2>5 DEF NoInfo, Live
    <3>2. t[f].page[i] = s[i] /\ s[i] \in Pages /\ s[i] \in ToSet(s)
      BY <1>5, <1>12, <2>5, <3>1
    <3>3. QED
      BY <2>1, <3>1, <3>2
  <2>6. nf = Cardinality({p \in Pages : w[p] = NoGen})
    <3>1. {p \in Pages : w[p] = NoGen} = Pages \ ToSet(s)
      BY <2>1, <2>3
    <3>2. IsFiniteSet(Pages) /\ Cardinality(Pages) = NumberOfPages
      <4>1. 0 \in Int /\ NumberOfPages - 1 \in Int /\ NumberOfPages \in Nat /\ NumberOfPages > 0
        BY PagesAssumption
      <4>2. /\ IsFiniteSet(0 .. NumberOfPages - 1)
            /\ Cardinality(0 .. NumberOfPages - 1) =
                 IF 0 > NumberOfPages - 1 THEN 0 ELSE NumberOfPages - 1 - 0 + 1
        BY <4>1, FS_Interval
      <4>3. QED
        BY <4>1, <4>2 DEF Pages
    <3>3. IsFiniteSet(ToSet(s)) /\ Cardinality(ToSet(s)) = Len(s)
      BY <1>7, DistinctCount
    <3>4. Cardinality(Pages \ ToSet(s)) = Cardinality(Pages) - Cardinality(Pages \cap ToSet(s))
      BY <3>2, FS_Difference
    <3>5. Pages \cap ToSet(s) = ToSet(s)
      BY <1>5
    <3>6. QED
      BY <1>0, <1>3, <3>1, <3>2, <3>3, <3>4, <3>5
  <2>7. QED
    BY ONLY <2>2, <2>4, <2>5, <2>6 DEF PagesOwned
<1>16. QED
  BY <1>3, <1>4, <1>8, <1>13, <1>14, <1>15 DEF RvyTable

(* A crash; recovery begins.                                               *)
LEMMA RestartReplay ==
  ASSUME Inv, NeededPagesIntact, NEW h \in Log, SnapLog(h), Restart
  PROVE  RvyLog(h)' /\ DOMAIN mem' = Pages
<1>1. h.m \in Nat /\ h.a \in Nat /\ h.b \in Nat /\ h.c \in Nat /\ LogOK(h) /\ LogShape(h)
  BY LogTypes DEF SnapLog, LogOK
<1>2. /\ h.a <= h.b /\ h.b <= h.c /\ h.c <= h.m /\ h.m + 1 \in Nat
      /\ h.m + 1 \in h.a + 1 .. h.m + 1
  BY ONLY <1>1 DEF LogShape
<1>3. PICK ev \in Event : ev = h.ev[h.m + 1]
  BY <1>2, LogTypes
<1>4. /\ ev = [gn |-> root.gn, nfrom |-> 0, page |-> root.page, diskPage |-> root.diskPage]
      /\ LogEvents(h, h.m + 1) /\ root.lists = ListsOf(h)
      /\ \A i \in 1 .. Len(ev.diskPage) : \E x \in needs : x[1] = ev.diskPage[i]
  BY <1>2, <1>3 DEF SnapLog
<1>5. /\ ev.gn = root.gn /\ ev.nfrom = 0 /\ ev.page = root.page /\ ev.diskPage = root.diskPage
      /\ InfoOf(root) = InfoOf(ev)
  BY <1>4 DEF InfoOf
<1>6. ev.gn \in Gens /\ ev.page \in Seq(Pages) /\ ev.diskPage \in Seq(DiskPages)
  BY DEF Event
<1>7. Len(ev.page) = Len(ev.diskPage) /\ Distinct(ev.page)
  BY <1>2, <1>3, <1>4 DEF LogEvents
<1>8. InfoOf(root).page = ev.page /\ InfoOf(root).diskPage = ev.diskPage
  BY <1>5 DEF InfoOf
<1>9. /\ gen' = [g \in Gens |-> IF g = ev.gn THEN InfoOf(ev) ELSE NoInfo]
      /\ owner' = [p \in Pages |-> IF p \in ToSet(ev.page) THEN ev.gn ELSE NoGen]
      /\ nfree' = NumberOfPages - Len(ev.page)
      /\ mem' = Put([p \in Pages |-> Blank], ev.page, [i \in DOMAIN ev.page |-> disk[ev.diskPage[i]]])
      /\ rvyDisk' = Put([p \in Pages |-> NoDiskPage], ev.page, ev.diskPage)
      /\ diskStatus' = [d \in DiskPages |-> IF d \in ToSet(ev.diskPage) THEN "ALLOCATED" ELSE "UNKNOWN"]
  BY <1>5, <1>8 DEF Restart
<1>10. /\ ngens' = Max({InitialGenerations, ev.gn + 1}) /\ order' = <<ev.gn>>
       /\ lists' = ListsOf(h) /\ isCollecting' = FALSE /\ prevTo' = NoGen
       /\ rvyArgs' = [younger |-> ev.gn, lists |-> ListsOf(h)] /\ rvyStack' = <<>>
       /\ phase' = "rvy_batch"
       /\ disk' = disk /\ root' = root /\ needs' = needs /\ snap' = snap
  BY <1>4, <1>5 DEF Restart, ghostVars
<1>12. PICK D, N, t, w, st, rd, md, nf :
         /\ D = disk /\ N = needs /\ t = gen' /\ w = owner' /\ st = diskStatus' /\ rd = rvyDisk'
         /\ md = mem' /\ nf = nfree'
  OBVIOUS
<1>13. RvyTable(t, w, st, rd, md, nf, D, N) /\ \A i \in 1 .. Len(ev.page) : rd[ev.page[i]] = ev.diskPage[i]
  <2>1. \A i \in 1 .. Len(ev.diskPage) : \E x \in N : x[1] = ev.diskPage[i]
    BY <1>4, <1>12
  <2>3. /\ t = [g \in Gens |-> IF g = ev.gn THEN InfoOf(ev) ELSE NoInfo]
        /\ w = [p \in Pages |-> IF p \in ToSet(ev.page) THEN ev.gn ELSE NoGen]
        /\ st = [d \in DiskPages |-> IF d \in ToSet(ev.diskPage) THEN "ALLOCATED" ELSE "UNKNOWN"]
        /\ rd = Put([p \in Pages |-> NoDiskPage], ev.page, ev.diskPage)
        /\ md = Put([p \in Pages |-> Blank], ev.page, [i \in DOMAIN ev.page |-> D[ev.diskPage[i]]])
        /\ nf = NumberOfPages - Len(ev.page)
    BY <1>9, <1>12
  <2>4. RootRead(ev, t, w, st, rd, md, nf, D, N)
    BY ONLY <1>7, <2>1, <2>3, Zenon DEF RootRead
  <2>5. QED
    BY ONLY <2>4, FirstRead, ev \in Event
<1>14. /\ \A g \in Gens : g # ev.gn => t[g] = NoInfo
       /\ t[ev.gn] = InfoOf(ev)
  BY <1>6, <1>9, <1>12
<1>15. ngens' \in 1 .. MaxGenerations /\ ev.gn < ngens'
  <2>1. PICK r : r = Max({InitialGenerations, ev.gn + 1})
    OBVIOUS
  <2>2. {InitialGenerations, ev.gn + 1} \in SUBSET Nat /\ InitialGenerations <= MaxGenerations
        /\ ev.gn + 1 <= MaxGenerations /\ MaxGenerations \in Nat /\ InitialGenerations > 0
        /\ ev.gn \in Nat /\ InitialGenerations \in Nat
    BY <1>6, GenerationsAssumption DEF Gens
  <2>3. r \in {InitialGenerations, ev.gn + 1} /\ \A k \in {InitialGenerations, ev.gn + 1} : k <= r
    BY <2>1, <2>2, LargestNumber
  <2>4. r \in 1 .. MaxGenerations /\ ev.gn < r
    BY <2>2, <2>3
  <2>5. QED
    BY <1>10, <2>1, <2>4
<1>16. RvyPages'
  <2>1. NeededPagesIntact'
    BY <1>10 DEF NeededPagesIntact
  <2>2. RvyTable(gen', owner', diskStatus', rvyDisk', mem', nfree', disk', needs')
    BY <1>10, <1>12, <1>13
  <2>3. \A g \in Gens : gen'[g].status # "NONEXISTENT" => g < ngens'
    BY <1>12, <1>14, <1>15 DEF NoInfo
  <2>4. order' \in Seq(Gens) /\ Distinct(order')
    BY <1>6, <1>10, Single
  <2>5. lists' = root'.lists
    BY <1>4, <1>10
  <2>6. QED
    BY <1>15, <2>1, <2>2, <2>3, <2>4, <2>5 DEF RvyPages, Existing
<1>17. \A e \in h.m + 1 .. h.m + 1 : e = h.m + 1
  BY <1>1
<1>18. KnownAfter(h, h.m)'
  <2>1. New(h, h.m + 1) /\ NextNew(h, h.m, h.m + 1)
    <3>1. New(h, h.m + 1)
      BY <1>3, <1>5 DEF New
    <3>2. \A x \in h.m + 1 .. (h.m + 1) - 1 : ~New(h, x)
      BY <1>1
    <3>3. h.m + 1 \in h.m + 1 .. h.m + 1
      BY <1>1
    <3>4. QED
      BY <3>1, <3>2, <3>3 DEF NextNew
  <2>2. InMemory(h.ev[h.m + 1])'
    BY <1>3, <1>12, <1>13 DEF InMemory
  <2>3. AllocatedOnDisk(h.ev[h.m + 1])'
    <3>1. ToSet(ev.diskPage) \subseteq DiskPages
      BY <1>6, Members
    <3>2. QED
      BY <1>3, <1>9, <3>1 DEF AllocatedOnDisk
  <2>4. /\ \A e \in h.m + 1 .. h.m + 1 : gen'[h.ev[e].gn] = InfoOf(h.ev[e])
        /\ \A g \in Gens : (\A e \in h.m + 1 .. h.m + 1 : h.ev[e].gn # g) => gen'[g] = NoInfo
    <3>1. h.m + 1 \in h.m + 1 .. h.m + 1
      BY <1>1
    <3>2. QED
      BY <1>3, <1>12, <1>14, <1>17, <3>1
  <2>5. rvyArgs'.younger = h.ev[h.m + 1].gn
    BY <1>3, <1>10
  <2>6. h.m + 1 \in h.m + 1 .. h.m + 1
    BY <1>1
  <2>7. QED
    BY <1>10, <1>17, <2>1, <2>2, <2>3, <2>4, <2>5, <2>6 DEF KnownAfter
<1>19. StackAt(h, h.m)'
  <2>1. 1 .. h.m - h.m = {}
    BY <1>1
  <2>2. StackOf(h, h.m) = <<>>
    BY <2>1 DEF StackOf
  <2>3. QED
    BY <1>10, <2>2 DEF StackAt
<1>20. order' = UpTo(h, h.m)
  <2>1. h.up[h.m] = <<>>
    BY <1>1 DEF LogOK, LogUp
  <2>2. <<ev.gn>> \o <<>> = <<ev.gn>>
    BY <1>6
  <2>3. QED
    BY <1>3, <1>10, <2>1, <2>2 DEF UpTo
<1>21. rvyArgs'.younger = order'[Len(order')]
  BY <1>6, <1>10
<1>22. rvyArgs'.lists = [list |-> IF h.m = 0 THEN NullPtr ELSE h.ptr[h.m],
                         prev |-> IF h.c = h.m THEN NullPtr ELSE h.ptr[h.c],
                         prevPrev |-> IF h.b = h.c THEN NullPtr ELSE h.ptr[h.b]]
  BY <1>10 DEF ListsOf
<1>23. CASE h.c < h.m
  <2>1. h.m # 0 /\ h.c # h.m /\ h.m \in h.b + 1 .. h.m /\ Start(h, h.m) = h.c /\ h.m \in h.a .. h.m
    BY <1>1, <1>2, <1>23 DEF Start
  <2>2. h.b = h.c <=> ~(h.b < h.c)
    BY <1>1, <1>2
  <2>3. rvyArgs'.lists =
          [list |-> h.ptr[h.m], prev |-> h.ptr[Start(h, h.m)],
           prevPrev |-> IF h.c < h.m /\ h.b < h.c THEN h.ptr[h.b] ELSE NullPtr]
    BY <1>22, <1>23, <2>1, <2>2
  <2>4. Down(h, h.m)'
    BY <1>10, <1>18, <1>19, <1>20, <1>21, <2>1, <2>3 DEF Down
  <2>5. QED
    BY <1>9, <1>10, <1>16, <2>1, <2>4, PutFunction DEF RvyLog
<1>24. CASE ~(h.c < h.m)
  <2>1. h.a = 0 /\ h.b = h.m /\ h.c = h.m /\ h.m \in h.a .. h.b /\ h.m \in h.a .. h.m
    BY ONLY <1>1, <1>24 DEF LogShape
  <2>2. rvyArgs'.lists = [list |-> IF h.m = h.a THEN NullPtr ELSE h.ptr[h.m],
                          prev |-> NullPtr, prevPrev |-> NullPtr]
    BY <1>22, <2>1
  <2>3. Placed(h, h.m, order', rvyArgs'.younger)
    <3>1. Placed(h, h.b, order', order'[Len(order')])
      BY <1>1, <1>20, <2>1, BaseBegins
    <3>2. QED
      BY <1>21, <2>1, <3>1
  <2>4. \A e \in h.m + 1 .. h.b : FALSE
    BY <1>1, <2>1
  <2>5. InBase(h, h.m)'
    BY <1>10, <1>18, <1>19, <2>1, <2>2, <2>3, <2>4 DEF InBase
  <2>6. QED
    BY <1>9, <1>10, <1>16, <2>1, <2>5, PutFunction DEF RvyLog
<1>25. QED
  BY <1>23, <1>24

(* Recovery is complete; the youngest generation is described like after a *)
(* commit.                                                                 *)
LEMMA RecoveredMemory ==
  ASSUME Inv, RvyPages, RecoveredFaithfully, phase = "recovered"
  PROVE  MemOK /\ DOMAIN mem = Pages
<1>1. TableRead(gen, needs) /\ PagesRead(gen, diskStatus, rvyDisk, mem, disk)
      /\ PagesOwned(gen, owner, rvyDisk, nfree)
  BY DEF RvyPages, RvyTable
<1>2. OwnerOK(gen, owner)
  BY DEF Inv, SnapOK, Recovering, RecoveredFaithfully
<1>3. ASSUME NEW g \in Gens, gen[g].status \in Live
      PROVE  /\ Len(gen[g].page) = Len(gen[g].diskPage)
             /\ \A i \in 1 .. Len(gen[g].page) : mem[gen[g].page[i]] = disk[gen[g].diskPage[i]]
  <2>1. /\ gen[g].page \in Seq(Pages) /\ gen[g].diskPage \in Seq(DiskPages)
        /\ Distinct(gen[g].page) /\ Len(gen[g].page) = Len(gen[g].diskPage)
    BY <1>1, <1>3 DEF TableRead, GenInfo
  <2>2. ASSUME NEW i \in 1 .. Len(gen[g].page) PROVE mem[gen[g].page[i]] = disk[gen[g].diskPage[i]]
    <3>1. PICK p \in Pages : p = gen[g].page[i]
      BY <2>1
    <3>2. p \in ToSet(gen[g].page)
      BY <2>1, <3>1, Members
    <3>3. owner[p] = g
      BY <1>2, <1>3, <3>2 DEF OwnerOK
    <3>4. g # NoGen
      BY GenerationsAssumption DEF NoGen, Gens
    <3>5. PICK k \in 1 .. Len(gen[g].page) : gen[g].page[k] = p /\ gen[g].diskPage[k] = rvyDisk[p]
      BY <1>1, <3>3, <3>4 DEF PagesOwned
    <3>6. k = i
      BY <2>1, <3>1, <3>5 DEF Distinct
    <3>7. rvyDisk[p] = gen[g].diskPage[i] /\ gen[g].diskPage[i] \in DiskPages
      BY <2>1, <3>5, <3>6
    <3>8. rvyDisk[p] # NoDiskPage
      BY <3>7, PagesAssumption DEF DiskPages, NoDiskPage
    <3>9. mem[p] = disk[rvyDisk[p]]
      BY <1>1, <3>8 DEF PagesRead
    <3>10. QED
      BY <3>1, <3>7, <3>9
  <2>3. QED
    BY <2>1, <2>2
<1>4. QED
  BY <1>1, <1>3 DEF MemOK, PagesRead

LEMMA FinishRecoveryReplay ==
  ASSUME Inv, NEW h \in Log, SnapLog(h), RvyLog(h), FinishRecovery
  PROVE  DOMAIN mem' = Pages /\ MemOK' /\ \E r \in Log : RunLog(r)'
<1>0. /\ phase = "recovered" /\ phase' = "major"
      /\ pinfos' = Logged(<<>>, lists, root.gn, 0, root.page, root.diskPage)
      /\ lists' = [lists EXCEPT !.list = LogPtr(<<>>)]
      /\ gen' = gen /\ order' = order /\ mem' = mem /\ disk' = disk /\ prevTo' = prevTo
      /\ isCollecting' = isCollecting /\ wasStarted' = wasStarted
  BY DEF FinishRecovery, gcVars
<1>1. /\ RvyPages /\ RecoveredFaithfully /\ NeededPagesIntact /\ lists = root.lists
      /\ gen \in [Gens -> GenInfo]
  BY <1>0 DEF RvyLog, RvyPages, RvyTable, TableRead
<1>2. gen = snap.gen /\ order = snap.order /\ prevTo = snap.prevTo
  BY <1>0, <1>1 DEF RecoveredFaithfully
<1>3. wasStarted' = FALSE
  BY <1>0 DEF Inv, Recovering
<1>4. ~Pending'
  BY <1>0 DEF Pending
<1>5. MemOK /\ DOMAIN mem = Pages
  BY <1>0, <1>1, RecoveredMemory
<1>6. DOMAIN mem' = Pages /\ MemOK'
  BY <1>0, <1>5, MemSame
<1>7. /\ LogOK(h) /\ LogEvents(h, h.m + 1) /\ root.lists = ListsOf(h)
      /\ h.ev[h.m + 1] = [gn |-> root.gn, nfrom |-> 0, page |-> root.page, diskPage |-> root.diskPage]
      /\ TableAt(snap.gen, h, h.m, h.m + 1)
      /\ snap.order = <<root.gn>> \o h.ord[h.m] /\ snap.prevTo = h.pt[h.m]
      /\ \A j \in h.a + 1 .. h.m : CellOnDisk(h, j, needs)
      /\ \A x \in needs : x = <<x[1], x[2]>> /\ x[1] \in DiskPages
  BY DEF SnapLog
<1>8. New(h, h.m + 1)
  BY <1>7 DEF New
<1>9. /\ h.m \in Nat /\ h.a \in Nat /\ h.b \in Nat /\ h.c \in Nat /\ LogShape(h)
  BY <1>7, LogTypes DEF LogOK
<1>10. h.a <= h.b /\ h.b <= h.c /\ h.c <= h.m /\ h.m + 1 \in Nat
  BY ONLY <1>9 DEF LogShape
<1>11. PICK r \in Log :
         /\ NewLog(h, r) /\ LogOK(r) /\ LogEvents(r, r.m) /\ SameCells(h, r)
         /\ r.a = h.a
         /\ r.b = (IF h.c = h.m THEN h.m + 1 ELSE h.b)
         /\ r.c = (IF h.c = h.m THEN h.m + 1 ELSE h.c)
         /\ \A e \in h.a + 1 .. h.m : InfoAt(r, e, r.m) = InfoAt(h, e, h.m)
         /\ InfoAt(r, r.m, r.m) = InfoOf(r.ev[r.m])
  BY <1>7, <1>8, NextLog
<1>12. /\ r.m = h.m + 1 /\ r.ev = h.ev
       /\ \A j \in 0 .. h.m : r.ptr[j] = h.ptr[j]
       /\ r.ptr[h.m + 1] = [page |-> FirstGeneration, slot |-> 1]
       /\ r.ord[h.m + 1] = <<h.ev[h.m + 1].gn>> \o h.ord[h.m]
       /\ r.pt[h.m + 1] = h.pt[h.m]
  BY ONLY <1>11, Zenon DEF NewLog
<1>13. UnmarkedGen' = gen
  <2>1. UnmarkedGen' = [g \in Gens |-> [gen[g] EXCEPT !.status = @]]
    BY <1>0, <1>3 DEF UnmarkedGen, Unmarked
  <2>2. \A g \in Gens : [gen[g] EXCEPT !.status = @] = gen[g]
    BY <1>1 DEF GenInfo
  <2>3. QED
    BY <1>1, <2>1, <2>2
<1>14. TableAt(UnmarkedGen', r, r.m, r.m)
  <2>1. ASSUME NEW e \in r.a + 1 .. r.m PROVE gen[r.ev[e].gn] = InfoAt(r, e, r.m)
    <3>1. CASE e = r.m
      <4>1. e \in h.m + 1 .. h.m + 1
        BY <1>10, <1>12, <3>1
      <4>2. gen[h.ev[e].gn] = InfoOf(h.ev[e])
        BY <1>2, <1>7, <4>1 DEF TableAt
      <4>3. QED
        BY <1>11, <1>12, <3>1, <4>2
    <3>2. CASE e # r.m
      <4>1. e \in h.a + 1 .. h.m
        BY <1>9, <1>10, <1>11, <1>12, <3>2
      <4>2. gen[h.ev[e].gn] = InfoAt(h, e, h.m)
        BY <1>2, <1>7, <4>1 DEF TableAt
      <4>3. QED
        BY <1>11, <1>12, <4>1, <4>2
    <3>3. QED
      BY <3>1, <3>2
  <2>2. \A e \in r.m + 1 .. r.m : FALSE
    BY <1>10, <1>12
  <2>3. \A g \in Gens : (\A e \in r.a + 1 .. r.m : r.ev[e].gn # g) => gen[g] = NoInfo
    BY <1>2, <1>7, <1>11, <1>12 DEF TableAt
  <2>4. QED
    BY ONLY <1>13, <2>1, <2>2, <2>3, Zenon DEF TableAt
<1>15. ListsOf(h) =
         [list |-> IF r.m = r.a + 1 \/ First(r, r.m) THEN NullPtr ELSE h.ptr[h.m],
          prev |-> IF r.c = h.m + 1 THEN NullPtr ELSE h.ptr[r.c],
          prevPrev |-> IF r.b = r.c THEN NullPtr ELSE h.ptr[r.b]]
  <2>1. r.m = r.a + 1 \/ First(r, r.m) <=> h.m = 0
    BY <1>9, <1>10, <1>11, <1>12 DEF LogShape, First
  <2>2. (r.c = h.m + 1 <=> h.c = h.m) /\ (h.c # h.m => r.c = h.c)
    BY <1>9, <1>10, <1>11
  <2>3. (r.b = r.c <=> h.b = h.c) /\ (h.b # h.c => r.b = h.b)
    BY <1>9, <1>10, <1>11, <1>12 DEF LogShape
  <2>4. QED
    BY ONLY <2>1, <2>2, <2>3, Zenon DEF ListsOf
<1>16. /\ r.a \in Nat /\ h.a <= r.a /\ r.a <= h.m
       /\ r.c = h.m + 1 \/ r.c \in 0 .. h.m
       /\ r.b # r.c => r.b \in 0 .. h.m
  BY <1>9, <1>10, <1>11
<1>17. PICK ls : ls = ListsOf(h)
  OBVIOUS
<1>18. /\ lists = ls /\ ls = [list |-> ls.list, prev |-> ls.prev, prevPrev |-> ls.prevPrev]
  BY <1>1, <1>7, <1>17 DEF ListsOf
<1>19. pinfos' = <<Cell(r, r.m)>>
  <2>1. r.ptr[r.m - 1] = h.ptr[h.m]
    <3>1. r.m - 1 = h.m /\ h.m \in 0 .. h.m
      BY <1>9, <1>12
    <3>2. QED
      BY <1>12, <3>1, Zenon
  <2>2. ls.list = (IF r.m = r.a + 1 \/ First(r, r.m) THEN NullPtr ELSE h.ptr[h.m])
    BY <1>15, <1>17
  <2>3. PICK x : x = [gn |-> root.gn, nfrom |-> 0, page |-> root.page, diskPage |-> root.diskPage,
                      prev |-> ls.list]
    OBVIOUS
  <2>4. x = Cell(r, r.m)
    BY <1>7, <1>12, <2>1, <2>2, <2>3 DEF Cell
  <2>5. pinfos' = Append(<<>>, x)
    BY ONLY <1>0, <1>18, <2>3, Zenon DEF Logged
  <2>6. Append(<<>>, x) = <<x>>
    OBVIOUS
  <2>7. QED
    BY <2>4, <2>5, <2>6
<1>20. \A j \in r.a + 1 .. h.m : CellOnDisk(h, j, DiskNow)
  <2>1. TAKE j \in r.a + 1 .. h.m
  <2>2. CellOnDisk(h, j, needs)
    BY <1>7, <1>11
  <2>3. \A x \in needs : x \in DiskNow
    BY <1>1, <1>7 DEF NeededPagesIntact, DiskNow
  <2>4. QED
    BY <2>2, <2>3 DEF CellOnDisk
<1>21. DescribedLog(r)'
  <2>1. New(r, r.m) /\ order' = r.ord[r.m]
    BY <1>0, <1>2, <1>7, <1>8, <1>12 DEF New
  <2>2. QED
    BY ONLY h \in Log, r \in Log, <1>0, <1>9, <1>11, <1>12, <1>14, <1>16, <1>19, <1>20, <2>1,
            DescribedNow
<1>22. lists' = ListsOf(r)
  <2>1. r.m # 0
    BY <1>9, <1>12
  <2>2. ls.prev = (IF r.c = r.m THEN NullPtr ELSE r.ptr[r.c])
    BY <1>12, <1>15, <1>16, <1>17
  <2>3. ls.prevPrev = (IF r.b = r.c THEN NullPtr ELSE r.ptr[r.b])
    BY <1>12, <1>15, <1>16, <1>17
  <2>4. lists' = [list |-> [page |-> FirstGeneration, slot |-> 1], prev |-> ls.prev,
                  prevPrev |-> ls.prevPrev]
    <3>1. LogPtr(<<>>) = [page |-> FirstGeneration, slot |-> 1]
      BY DEF LogPtr
    <3>2. QED
      BY <1>0, <1>18, <3>1
  <2>5. QED
    BY ONLY <1>12, <2>1, <2>2, <2>3, <2>4, Zenon DEF ListsOf
<1>23. prevTo' = r.pt[r.m]
  BY <1>0, <1>2, <1>7, <1>12
<1>24. RunLog(r)'
  BY ONLY <1>3, <1>4, <1>11, <1>21, <1>22, <1>23, Zenon DEF RunLog
<1>25. QED
  BY <1>6, <1>24

--------------------------------------------------------------------------------
(* The invariant of recovery, and what it is for.                          *)

LEMMA ReplayFrame ==
  ASSUME Inv, UNCHANGED vars, NEW h \in Log
  PROVE  SnapLog(h) => SnapLog(h)' /\ (RvyLog(h) => RvyLog(h)')
<1>1. /\ phase' = phase /\ gen' = gen /\ ngens' = ngens /\ order' = order /\ owner' = owner
      /\ nfree' = nfree /\ mem' = mem /\ lists' = lists /\ prevTo' = prevTo
      /\ isCollecting' = isCollecting /\ diskStatus' = diskStatus /\ disk' = disk
      /\ rvyArgs' = rvyArgs /\ rvyStack' = rvyStack /\ rvyDisk' = rvyDisk
      /\ root' = root /\ snap' = snap /\ needs' = needs
  BY DEF vars, heapVars, gcVars, diskVars, rvyVars, ghostVars
<1>2. SnapLog(h) => SnapLog(h)'
  BY <1>1, SnapLogKept
<1>3. RvyPages => RvyPages'
  BY <1>1 DEF RvyPages, NeededPagesIntact, Existing
<1>4. \A e : (InMemory(e) => InMemory(e)') /\ (AllocatedOnDisk(e) => AllocatedOnDisk(e)')
  BY <1>1 DEF InMemory, AllocatedOnDisk
<1>5. \A j : KnownAfter(h, j) => KnownAfter(h, j)'
  BY <1>1, <1>4 DEF KnownAfter
<1>6. \A j : StackAt(h, j) => StackAt(h, j)'
  BY <1>1 DEF StackAt
<1>7. \A j : Down(h, j) => Down(h, j)'
  BY <1>1, <1>5, <1>6 DEF Down
<1>8. \A j : InBase(h, j) => InBase(h, j)'
  BY <1>1, <1>4, <1>5, <1>6 DEF InBase
<1>9. \A j : Back(h, j) => Back(h, j)'
  BY <1>1, <1>4, <1>6 DEF Back
<1>10. RecoveredFaithfully => RecoveredFaithfully'
  BY <1>1 DEF RecoveredFaithfully, Existing
<1>11. RvyLog(h) => RvyLog(h)'
  BY <1>1, <1>3, <1>7, <1>8, <1>9, <1>10 DEF RvyLog
<1>12. QED
  BY <1>2, <1>11

LEMMA ReplayIsSafe ==
  ASSUME ReplayInv
  PROVE  RecoveryReadsCommitted /\ PinfosInPlace /\ RecoveredFaithfully
<1>1. ASSUME ~Recovering PROVE RecoveryReadsCommitted /\ PinfosInPlace /\ RecoveredFaithfully
  BY <1>1 DEF Recovering, RecoveryReadsCommitted, PinfosInPlace, RecoveredFaithfully
<1>2. SUFFICES ASSUME Recovering
               PROVE  RecoveryReadsCommitted /\ PinfosInPlace /\ RecoveredFaithfully
  BY <1>1
<1>3. snap.exists
  BY <1>2 DEF ReplayInv, Inv
<1>4. PICK h \in Log : SnapLog(h) /\ RvyLog(h)
  BY <1>2, <1>3 DEF ReplayInv
<1>5. /\ RvyPages /\ NeededPagesIntact
      /\ TableRead(gen, needs) /\ PagesRead(gen, diskStatus, rvyDisk, mem, disk)
  BY <1>4 DEF RvyLog, RvyPages, RvyTable
<1>6. RecoveryReadsCommitted
  <2>1. SUFFICES ASSUME NEW p \in Pages, rvyDisk[p] # NoDiskPage
                 PROVE  <<rvyDisk[p], disk[rvyDisk[p]]>> \in needs
    BY DEF RecoveryReadsCommitted
  <2>2. PICK g \in Gens : gen[g].status # "NONEXISTENT" /\ rvyDisk[p] \in ToSet(gen[g].diskPage)
    BY <1>5, <2>1 DEF PagesRead
  <2>3. PICK x \in needs : x[1] = rvyDisk[p]
    BY <1>5, <2>2 DEF TableRead
  <2>4. x = <<x[1], x[2]>>
    BY <1>4 DEF SnapLog
  <2>5. disk[x[1]] = x[2]
    BY <1>5 DEF NeededPagesIntact
  <2>6. QED
    BY <2>3, <2>4, <2>5
<1>7. PinfosInPlace
  <2>1. SUFFICES ASSUME phase = "rvy_batch", NEW p, p = rvyArgs.lists.list
                 PROVE  /\ ~BaseRound => p # NullPtr
                        /\ p # NullPtr => /\ p.page \in Pages
                                          /\ owner[p.page] # NoGen
                                          /\ p.slot \in DOMAIN mem[p.page].pinfos
                                          /\ gen[Deref(p).gn].status \notin Live
    BY DEF PinfosInPlace
  <2>2. h.m \in Nat /\ h.a \in Nat /\ h.b \in Nat /\ h.c \in Nat /\ LogShape(h)
    BY <1>4, LogTypes DEF SnapLog, LogOK
  <2>3. h.a <= h.b /\ h.b <= h.m
    BY ONLY <2>2 DEF LogShape
  <2>4. ASSUME NEW j \in h.a + 1 .. h.m, KnownAfter(h, j), p = h.ptr[j]
        PROVE  /\ p # NullPtr /\ p.page \in Pages /\ owner[p.page] # NoGen
               /\ p.slot \in DOMAIN mem[p.page].pinfos
               /\ gen[Deref(p).gn].status \notin Live
    <3>1. /\ h.ptr[j].page \in Pages /\ owner[h.ptr[j].page] # NoGen
          /\ h.ptr[j].slot \in DOMAIN mem[h.ptr[j].page].pinfos
          /\ Deref(h.ptr[j]) = Cell(h, j)
          /\ gen[h.ev[j].gn] = NoInfo /\ h.ptr[j] # NullPtr
      BY <1>4, <1>5, <2>4, CellRead
    <3>2. Deref(p).gn = h.ev[j].gn
      BY <2>4, <3>1 DEF Cell
    <3>3. QED
      BY <2>4, <3>1, <3>2 DEF NoInfo, Live
  <2>5. PICK j \in h.a .. h.m : Down(h, j) \/ InBase(h, j)
    BY <1>4, <2>1 DEF RvyLog
  <2>6. CASE Down(h, j)
    <3>1. j \in h.a + 1 .. h.m
      BY <2>2, <2>3, <2>6 DEF Down
    <3>2. KnownAfter(h, j) /\ p = h.ptr[j]
      BY <2>1, <2>6 DEF Down
    <3>3. QED
      BY <2>4, <3>1, <3>2
  <2>7. CASE InBase(h, j)
    <3>1. KnownAfter(h, j) /\ BaseRound /\ p = (IF j = h.a THEN NullPtr ELSE h.ptr[j])
      BY <2>1, <2>7 DEF InBase, BaseRound
    <3>2. j # h.a => j \in h.a + 1 .. h.m
      BY <2>2
    <3>3. QED
      BY <2>4, <3>1, <3>2
  <2>8. QED
    BY <2>5, <2>6, <2>7
<1>8. RecoveredFaithfully
  BY <1>4 DEF RvyLog, RecoveredFaithfully
<1>9. QED
  BY <1>6, <1>7, <1>8

(* A step of the running program, and one of recovery.                     *)
LEMMA RunningStep ==
  ASSUME ReplayInv, Inv', Running', DOMAIN mem' = Pages, MemOK', \E r \in Log : RunLog(r)',
         UNCHANGED <<root, snap, needs>>
  PROVE  ReplayInv'
<1>1. ~Recovering'
  BY DEF Running, Recovering
<1>2. snap.exists => \E h \in Log : SnapLog(h)'
  BY SnapLogKept DEF ReplayInv
<1>3. snap'.exists => root'.exists
  BY DEF ReplayInv
<1>4. QED
  BY <1>1, <1>2, <1>3 DEF ReplayInv

LEMMA RecoveryStep ==
  ASSUME ReplayInv, Inv', Recovering', NEW h \in Log, SnapLog(h), RvyLog(h)',
         UNCHANGED <<root, snap, needs>>
  PROVE  ReplayInv'
<1>1. ~Running'
  BY DEF Running, Recovering
<1>2. SnapLog(h)'
  BY SnapLogKept
<1>3. snap'.exists => root'.exists
  BY DEF ReplayInv
<1>4. DOMAIN mem' = Pages
  BY DEF RvyLog, RvyPages, RvyTable, PagesRead
<1>5. QED
  BY <1>1, <1>2, <1>3, <1>4 DEF ReplayInv

LEMMA InitReplay ==
  ASSUME Init
  PROVE  ReplayInv
<1>0. Inv
  BY InitKeepsInv
<1>1. /\ phase = "mutator" /\ gen = [g \in Gens |-> NoInfo] /\ order = <<>>
      /\ mem = [p \in Pages |-> Blank] /\ pinfos = <<>> /\ lists = NoLists
      /\ isCollecting = FALSE /\ wasStarted = FALSE /\ prevTo = NoGen
      /\ snap.exists = FALSE
  BY DEF Init
<1>2. DOMAIN mem = Pages
  BY <1>1
<1>3. MemOK
  BY <1>1 DEF MemOK, NoInfo, Live
<1>4. ~Recovering /\ Running /\ ~Pending
  BY <1>1 DEF Recovering, Running, Pending
<1>5. PICK ev : ev = [gn |-> 0, nfrom |-> 0, page |-> <<>>, diskPage |-> <<>>]
  OBVIOUS
<1>6. ev \in Event
  <2>1. 0 \in Gens
    BY GenerationsAssumption DEF Gens
  <2>2. QED
    BY <1>5, <2>1 DEF Event
<1>7. NullPtr \in Ptr
  BY DEF NullPtr, Ptr
<1>8. PICK h : h = [m |-> 0, a |-> 0, b |-> 0, c |-> 0, ev |-> [i \in Index |-> ev],
                    ptr |-> [i \in Index |-> NullPtr], coll |-> [i \in Index |-> 0],
                    pos |-> [i \in Index |-> 0], ord |-> [i \in Index |-> <<>>],
                    up |-> [i \in Index |-> <<>>], pt |-> [i \in Index |-> NoGen]]
  OBVIOUS
<1>9. h \in Log
  <2>1. /\ [i \in Index |-> ev] \in [Index -> Event] /\ [i \in Index |-> NullPtr] \in [Index -> Ptr]
        /\ [i \in Index |-> 0] \in [Index -> Nat] /\ [i \in Index |-> <<>>] \in [Index -> Seq(Gens)]
        /\ [i \in Index |-> NoGen] \in [Index -> Gens \cup {NoGen}] /\ 0 \in Nat
    BY <1>6, <1>7
  <2>2. QED
    BY ONLY <1>8, <2>1, Zenon DEF Log
<1>10. /\ h.m = 0 /\ h.a = 0 /\ h.b = 0 /\ h.c = 0 /\ \A i \in Nat : h.coll[i] = 0
       /\ h.ord[0] = <<>> /\ h.up[0] = <<>> /\ h.pt[0] = NoGen
  BY <1>8 DEF Index
<1>11. /\ \A j \in 0 + 1 .. 0 : FALSE
       /\ \A j \in 0 .. 0 : j = 0
  OBVIOUS
<1>12. LogOK(h)
  <2>1. LogShape(h) /\ LogUp(h) /\ LogPt(h)
    BY <1>10, <1>11 DEF LogShape, LogUp, LogPt
  <2>2. LogColl(h)
    BY <1>10 DEF LogColl, Index
  <2>3. LogSteps(h)
    BY <1>10, <1>11 DEF LogSteps
  <2>4. LogOrd(h)
    <3>1. Len(<<>>) = 0 /\ Distinct(<<>>)
      BY DEF Distinct
    <3>2. \A q \in 1 .. 0 : FALSE
      OBVIOUS
    <3>3. OrdAt(h, 0)
      BY <1>10, <1>11, <3>1, <3>2 DEF OrdAt
    <3>4. QED
      BY <1>10, <1>11, <3>3 DEF LogOrd
  <2>5. QED
    BY <1>9, <2>1, <2>2, <2>3, <2>4 DEF LogOK
<1>13. UnmarkedGen = gen
  <2>1. \A g \in Gens : [gen[g] EXCEPT !.status = Unmarked(@)] = NoInfo
    BY <1>1 DEF Unmarked, NoInfo
  <2>2. QED
    BY <1>1, <2>1 DEF UnmarkedGen
<1>14. DescribedLog(h)
  <2>1. LogEvents(h, 0)
    BY <1>10, <1>11 DEF LogEvents
  <2>2. TableAt(UnmarkedGen, h, 0, 0)
    BY <1>1, <1>10, <1>11, <1>13 DEF TableAt
  <2>3. QED
    BY <1>1, <1>10, <2>1, <2>2 DEF DescribedLog
<1>15. lists = ListsOf(h)
  BY <1>1, <1>10 DEF ListsOf, NoLists
<1>16. RunLog(h)
  BY <1>1, <1>4, <1>10, <1>12, <1>14, <1>15 DEF RunLog
<1>17. QED
  BY <1>0, <1>1, <1>2, <1>3, <1>4, <1>9, <1>16 DEF ReplayInv

LEMMA NextReplay ==
  ASSUME ReplayInv, [Next]_vars
  PROVE  ReplayInv'
<1>1. /\ Inv /\ DOMAIN mem = Pages
      /\ Running => MemOK /\ \E h \in Log : RunLog(h)
      /\ snap.exists => \E h \in Log : SnapLog(h) /\ (Recovering => RvyLog(h))
      /\ Recovering => snap.exists
  BY DEF ReplayInv, Inv
<1>2. Inv'
  BY <1>1, ReplayIsSafe, NextKeepsInv
<1>4. CASE Commit
  <2>1. ASSUME NEW n \in 0 .. MaxNewPages, NEW holder \in 0 .. MaxNewPages,
               collect_first_generation(n, holder)
        PROVE  ReplayInv'
    <3>1. Running /\ Running' /\ UNCHANGED <<root, snap, needs>>
      BY <2>1 DEF collect_first_generation, Running, ghostVars
    <3>2. PICK h \in Log : RunLog(h)
      BY <1>1, <3>1
    <3>3. n \in Nat
      BY LimitsAssumption
    <3>4. DOMAIN mem' = Pages /\ MemOK' /\ \E r \in Log : RunLog(r)'
      BY <1>1, <2>1, <3>1, <3>2, <3>3, CollectFirstReplay
    <3>5. QED
      BY <1>2, <3>1, <3>4, RunningStep
  <2>2. CASE io_write_root
    <3>1. Running /\ ~Recovering'
      BY <2>2 DEF io_write_root, Running, Recovering
    <3>2. PICK h \in Log : RunLog(h)
      BY <1>1, <3>1
    <3>3. DOMAIN mem' = Pages /\ MemOK' /\ RunLog(h)' /\ SnapLog(h)' /\ root'.exists
      BY <1>1, <2>2, <3>1, <3>2, WriteRootReplay
    <3>4. QED
      BY <1>2, <3>1, <3>3 DEF ReplayInv
  <2>3. CASE StartGroup
    <3>1. Running /\ Running' /\ UNCHANGED <<root, snap, needs>>
      BY <2>3 DEF StartGroup, Running, ghostVars
    <3>2. PICK h \in Log : RunLog(h)
      BY <1>1, <3>1
    <3>3. DOMAIN mem' = Pages /\ MemOK' /\ \E r \in Log : RunLog(r)'
      BY <1>1, <2>3, <3>1, <3>2, StartGroupReplay
    <3>4. QED
      BY <1>2, <3>1, <3>3, RunningStep
  <2>4. QED
    BY <1>4, <2>1, <2>2, <2>3 DEF Commit
<1>5. CASE major_gc
  <2>1. CASE NoMajorGc \/ PrepareStep
    <3>1. Running /\ Running' /\ UNCHANGED <<root, snap, needs>>
      BY <2>1 DEF NoMajorGc, PrepareStep, Running, ghostVars
    <3>2. PICK h \in Log : RunLog(h)
      BY <1>1, <3>1
    <3>3. DOMAIN mem' = Pages /\ MemOK' /\ RunLog(h)'
      BY <1>1, <2>1, <3>1, <3>2, NoMajorGcReplay
    <3>4. QED
      BY <1>2, <3>1, <3>3, RunningStep
  <2>2. CASE mark_major_gc_generations
    <3>1. Running /\ Running' /\ UNCHANGED <<root, snap, needs>>
      BY <2>2 DEF mark_major_gc_generations, Running, ghostVars
    <3>2. PICK h \in Log : RunLog(h)
      BY <1>1, <3>1
    <3>3. DOMAIN mem' = Pages /\ MemOK' /\ RunLog(h)'
      BY <1>1, <2>2, <3>1, <3>2, MarkReplay
    <3>4. QED
      BY <1>2, <3>1, <3>3, RunningStep
  <2>3. ASSUME NEW n \in 0 .. NumberOfPages, NEW again \in BOOLEAN, major_gc_step(n, again)
        PROVE  ReplayInv'
    <3>1. Running /\ Running' /\ UNCHANGED <<root, snap, needs>>
      BY <2>3 DEF major_gc_step, Running, ghostVars
    <3>2. PICK h \in Log : RunLog(h)
      BY <1>1, <3>1
    <3>3. n \in Nat
      BY PagesAssumption
    <3>4. DOMAIN mem' = Pages /\ MemOK' /\ \E r \in Log : RunLog(r)'
      BY <1>1, <2>3, <3>1, <3>2, <3>3, MajorStepReplay
    <3>5. QED
      BY <1>2, <3>1, <3>4, RunningStep
  <2>4. QED
    BY <1>5, <2>1, <2>2, <2>3 DEF major_gc
<1>6. CASE recover_db
  <2>1. CASE FinishRecovery
    <3>1. Recovering /\ Running' /\ UNCHANGED <<root, snap, needs>>
      BY <2>1 DEF FinishRecovery, Recovering, Running, ghostVars
    <3>2. PICK h \in Log : SnapLog(h) /\ RvyLog(h)
      BY <1>1, <3>1
    <3>3. DOMAIN mem' = Pages /\ MemOK' /\ \E r \in Log : RunLog(r)'
      BY <1>1, <2>1, <3>2, FinishRecoveryReplay
    <3>4. QED
      BY <1>2, <3>1, <3>3, RunningStep
  <2>2. CASE rvy_base_major_gc_round
    <3>1. Recovering /\ Recovering' /\ UNCHANGED <<root, snap, needs>>
      BY <2>2 DEF rvy_base_major_gc_round, Recovering, ghostVars
    <3>2. PICK h \in Log : SnapLog(h) /\ RvyLog(h)
      BY <1>1, <3>1
    <3>3. RvyLog(h)'
      BY <1>1, <2>2, <3>2, BaseRoundReplay
    <3>4. QED
      BY <1>2, <3>1, <3>2, <3>3, RecoveryStep
  <2>3. CASE rvy_base_done
    <3>1. Recovering /\ Recovering' /\ UNCHANGED <<root, snap, needs>>
      BY <2>3 DEF rvy_base_done, Recovering, ghostVars
    <3>2. PICK h \in Log : SnapLog(h) /\ RvyLog(h)
      BY <1>1, <3>1
    <3>3. RvyLog(h)'
      BY <1>1, <2>3, <3>2, BaseDoneReplay
    <3>4. QED
      BY <1>2, <3>1, <3>2, <3>3, RecoveryStep
  <2>4. CASE rvy_batch_new
    <3>1. Recovering /\ Recovering' /\ UNCHANGED <<root, snap, needs>>
      BY <2>4 DEF rvy_batch_new, Recovering, ghostVars
    <3>2. PICK h \in Log : SnapLog(h) /\ RvyLog(h)
      BY <1>1, <3>1
    <3>3. RvyLog(h)'
      BY <1>1, <2>4, <3>2, BatchNewReplay
    <3>4. QED
      BY <1>2, <3>1, <3>2, <3>3, RecoveryStep
  <2>5. CASE rvy_batch_collected
    <3>1. Recovering /\ Recovering' /\ UNCHANGED <<root, snap, needs>>
      BY <2>5 DEF rvy_batch_collected, Recovering, ghostVars
    <3>2. PICK h \in Log : SnapLog(h) /\ RvyLog(h)
      BY <1>1, <3>1
    <3>3. RvyLog(h)'
      BY <1>1, <2>5, <3>2, BatchCollectedReplay
    <3>4. QED
      BY <1>2, <3>1, <3>2, <3>3, RecoveryStep
  <2>6. CASE rvy_return_new
    <3>1. Recovering /\ Recovering' /\ UNCHANGED <<root, snap, needs>>
      BY <2>6 DEF rvy_return_new, Recovering, ghostVars
    <3>2. PICK h \in Log : SnapLog(h) /\ RvyLog(h)
      BY <1>1, <3>1
    <3>3. RvyLog(h)'
      BY <1>1, <2>6, <3>2, ReturnNewReplay
    <3>4. QED
      BY <1>2, <3>1, <3>2, <3>3, RecoveryStep
  <2>7. CASE rvy_return_collected
    <3>1. Recovering /\ Recovering' /\ UNCHANGED <<root, snap, needs>>
      BY <2>7 DEF rvy_return_collected, Recovering, ghostVars
    <3>2. PICK h \in Log : SnapLog(h) /\ RvyLog(h)
      BY <1>1, <3>1
    <3>3. RvyLog(h)'
      BY <1>1, <2>7, <3>2, ReturnCollectedReplay
    <3>4. QED
      BY <1>2, <3>1, <3>2, <3>3, RecoveryStep
  <2>8. CASE rvy_batch_returned
    <3>1. Recovering /\ Recovering' /\ UNCHANGED <<root, snap, needs>>
      BY <2>8 DEF rvy_batch_returned, Recovering, ghostVars
    <3>2. PICK h \in Log : SnapLog(h) /\ RvyLog(h)
      BY <1>1, <3>1
    <3>3. RvyLog(h)'
      BY <1>1, <2>8, <3>1, <3>2, BatchReturnedReplay
    <3>4. QED
      BY <1>2, <3>1, <3>2, <3>3, RecoveryStep
  <2>9. QED
    BY <1>6, <2>1, <2>2, <2>3, <2>4, <2>5, <2>6, <2>7, <2>8 DEF recover_db
<1>7. CASE NeededPagesIntact /\ Restart
  <2>1. Recovering' /\ UNCHANGED <<root, snap, needs>> /\ root.exists
    BY <1>7 DEF Restart, Recovering, ghostVars
  <2>2. PICK h \in Log : SnapLog(h)
    BY <1>1, <2>1 DEF Inv
  <2>3. RvyLog(h)'
    BY <1>1, <1>7, <2>2, RestartReplay
  <2>4. QED
    BY <1>2, <2>1, <2>2, <2>3, RecoveryStep
<1>8. CASE UNCHANGED vars
  <2>1. /\ phase' = phase /\ mem' = mem /\ disk' = disk /\ gen' = gen /\ order' = order
        /\ pinfos' = pinfos /\ lists' = lists /\ wasStarted' = wasStarted
        /\ isCollecting' = isCollecting /\ prevTo' = prevTo
        /\ root' = root /\ snap' = snap /\ needs' = needs
    BY <1>8 DEF vars, heapVars, gcVars, diskVars, ghostVars
  <2>2. CASE Running
    <3>1. PICK h \in Log : RunLog(h)
      BY <1>1, <2>2
    <3>2. Running' /\ RunLog(h)' /\ MemOK'
      BY <1>1, <2>1, <2>2, <3>1, RunLogKept, MemSame DEF Running, Pending
    <3>3. QED
      BY <1>1, <1>2, <2>1, <3>2, RunningStep
  <2>3. CASE Recovering
    <3>1. PICK h \in Log : SnapLog(h) /\ RvyLog(h)
      BY <1>1, <2>3
    <3>2. RvyLog(h)' /\ Recovering'
      BY <1>1, <1>8, <2>1, <2>3, <3>1, ReplayFrame DEF Recovering
    <3>3. QED
      BY <1>2, <2>1, <3>1, <3>2, RecoveryStep
  <2>4. QED
    BY <1>1, <2>2, <2>3 DEF Inv
<1>9. QED
  BY <1>4, <1>5, <1>6, <1>7, <1>8 DEF Next

--------------------------------------------------------------------------------
(* The theorems.  Crashes happen at any moment at which the disk pages     *)
(* that recovery will read are as the last commit left them (Next); in     *)
(* between, and during the steps of recovery, any number of commits, steps *)
(* of the collector and crashes follow each other.                         *)

THEOREM Replays == Spec => []ReplayInv
<1>1. Init => ReplayInv
  BY InitReplay
<1>2. ReplayInv /\ [Next]_vars => ReplayInv'
  BY NextReplay
<1>3. QED
  BY <1>1, <1>2, PTL DEF Spec

(* Replaying the pinfo lists rebuilds the generation table, the list of    *)
(* live generations, the collector's place, the owner of every memory page *)
(* and the contents of those in use as they were at the last commit, and   *)
(* counts the free pages right (rvy_batch and recover_db,                  *)
(* shades.c:2193-2373).                                                    *)
THEOREM RecoverySafe == Spec => []RecoveredFaithfully
<1>1. ReplayInv => RecoveredFaithfully
  BY ReplayIsSafe
<1>2. QED
  BY <1>1, Replays, PTL

(* Every page that recovery holds in memory was read from a disk page that *)
(* the last commit needs, as it was then (rvy_read_generation,             *)
(* shades.c:2162).                                                         *)
THEOREM RecoveryReadsSafe == Spec => []RecoveryReadsCommitted
<1>1. ReplayInv => RecoveryReadsCommitted
  BY ReplayIsSafe
<1>2. QED
  BY <1>1, Replays, PTL

(* Recovery finds each pinfo cell in memory at the address where the root  *)
(* block or the next cell says it is, although other generations took its  *)
(* page before and after, and learns of each generation once (the asserts  *)
(* of rvy_batch and rvy_allocate_generation, shades.c:822, 2203, 2257).    *)
THEOREM PinfosSafe == Spec => []PinfosInPlace
<1>1. ReplayInv => PinfosInPlace
  BY ReplayIsSafe
<1>2. QED
  BY <1>1, Replays, PTL

(* With recovery, the whole of it: before, between and after any number of *)
(* crashes.                                                                *)
THEOREM StorageSafe == Spec => []Safe
<1>1. ReplayInv => Safe
  BY InvIsSafe DEF ReplayInv
<1>2. QED
  BY <1>1, Replays, PTL

(* Memory and disk pages are neither lost nor used twice, and the counter  *)
(* of free pages is right (shades.c:568-641, io.c:961-971).                *)
THEOREM PagesSafe == Spec => []PagesAccounted
<1>1. Safe => PagesAccounted
  BY DEF Safe
<1>2. QED
  BY <1>1, StorageSafe, PTL

(* New generations are linked in front of the older ones while a major     *)
(* collection is under way, and the collector resumes behind prev_to_gn at *)
(* the place where it stopped (shades.c:1557-1715), after a crash too.     *)
THEOREM OrderSafe == Spec => []CollectionOrder
<1>1. Safe => CollectionOrder
  BY DEF Safe
<1>2. QED
  BY <1>1, StorageSafe, PTL

(* Of what the root block last written refers to, the generations not yet  *)
(* collected twice are on disk as they were written, at every moment until *)
(* the next root block (shades.c:1970).                                    *)
THEOREM CommittedSafe == Spec => []CommittedPagesIntact
<1>1. Safe => CommittedPagesIntact
  BY DEF Safe
<1>2. QED
  BY <1>1, StorageSafe, PTL

(* No page is changed between the request to write it and the write, which *)
(* reads it from memory (shades.c:1839-1843).                              *)
THEOREM WritesStable == Spec => []PagesBeingWrittenStable
<1>1. Safe => PagesBeingWrittenStable
  BY DEF Safe
<1>2. QED
  BY <1>1, StorageSafe, PTL

================================================================================
