-------------------------------- MODULE Shades ---------------------------------
(***************************************************************************)
(* The storage manager (shades.c) at the level of generations and pages:   *)
(* group commit, incremental major garbage collection of mature            *)
(* generations, crash, and recovery by replaying the collections.          *)
(*                                                                         *)
(* A generation is a set of memory pages with a disk page each.  Its       *)
(* description, a generation_pinfo cell, is allocated in the FIRST         *)
(* generation and so lives in a page of the generation committed next; the *)
(* root block holds pointers to the three newest lists of these cells.     *)
(* Recovery follows the lists through pages it has to bring in first, at   *)
(* the memory addresses they had, and these addresses were reused in the   *)
(* meantime.  What the cells of a page hold besides pinfos is a number     *)
(* (uid) that is different for every page written.                         *)
(***************************************************************************)
EXTENDS Naturals, Sequences, FiniteSets, SequencesExt, FiniteSetsExt

CONSTANTS NumberOfPages,      \* number_of_pages: memory pages
          NumberOfDiskPages,  \* pages of the (one) database file
          InitialGenerations, \* size of generation_info after init_shades
          MaxGenerations,     \* bound on generation numbers
          StartGcLimit,       \* start_gc_limit, in pages
          MatureLimit,        \* first_generation_size * relative_mature_..., in pages
          MaxNewPages,        \* pages a first generation can fill
          MaxBatches,         \* bound on group commits
          MaxCrashes          \* bound on crashes

ASSUME PagesAssumption == NumberOfPages \in Nat \ {0} /\ NumberOfDiskPages \in Nat \ {0}
ASSUME GenerationsAssumption ==
  /\ InitialGenerations \in Nat \ {0} /\ MaxGenerations \in Nat
  /\ InitialGenerations <= MaxGenerations
ASSUME LimitsAssumption ==
  {StartGcLimit, MatureLimit, MaxNewPages, MaxBatches, MaxCrashes} \subseteq Nat

Pages == 0 .. NumberOfPages - 1
DiskPages == 0 .. NumberOfDiskPages - 1
Gens == 0 .. MaxGenerations - 1
NoGen == MaxGenerations          \* INVALID_GENERATION_NUMBER
NoDiskPage == NumberOfDiskPages  \* INVALID_DISK_PAGE_NUMBER

(* A pointer to a pinfo: a slot of a memory page or of the first           *)
(* generation, or NULL_PTR.                                                *)
FirstGeneration == NumberOfPages
Nil == NumberOfPages + 1
Ptr == [page : Pages \cup {FirstGeneration, Nil}, slot : Nat]
NullPtr == [page |-> Nil, slot |-> 0]

Pinfo == [gn : Gens, nfrom : Nat, page : Seq(Pages), diskPage : Seq(DiskPages), prev : Ptr]
Content == [uid : Nat, pinfos : Seq(Pinfo)]
Blank == [uid |-> 0, pinfos |-> <<>>]

Lists == [list : Ptr, prev : Ptr, prevPrev : Ptr]
NoLists == [list |-> NullPtr, prev |-> NullPtr, prevPrev |-> NullPtr]

GenStatus == {"NONEXISTENT", "NORMAL", "TO_BE_COLLECTED", "COLLECTED_ONCE", "COLLECTED_TWICE"}
GenInfo == [status : GenStatus, page : Seq(Pages), diskPage : Seq(DiskPages), from : SUBSET Gens]
NoInfo == [status |-> "NONEXISTENT", page |-> <<>>, diskPage |-> <<>>, from |-> {}]

VARIABLES
  (* Volatile state. *)
  phase,       \* where the program is between two actions
  gen,         \* generation_info
  ngens,       \* number_of_generations
  gnCursor,    \* the static cursor of allocate_generation
  order,       \* the live generations, youngest first (younger/older links)
  owner,       \* page_info: the generation of an allocated page, or NoGen
  freePages,   \* list_of_free_pages
  nfree,       \* number_of_free_pages
  mem,         \* memory pages
  pinfos,      \* the pinfo cells in the first generation
  lists,       \* the pinfo list fields of the root block in memory
  isCollecting, wasStarted, prevTo, \* is_collecting, major_gc_was_started, prev_to_gn
  stepped,     \* already_major_gc_stepped
  unstable,    \* memory pages whose writes may still be in progress
  diskStatus,  \* file[0].status
  diskCursor,  \* file[0].cursor
  (* Volatile state of recover_db. *)
  rvyArgs,     \* arguments of the next rvy_batch call, or of the base round
  rvyStack,    \* the active rvy_batch calls, innermost first
  rvyDisk,     \* rvy_disk_page
  (* Durable state. *)
  disk, root,
  (* History variables. *)
  snap,        \* what recovery has to reconstruct from the last root block
  needs,       \* the disk pages recovery will read, with their contents
  uid, batches, crashes

heapVars == <<gen, ngens, gnCursor, order, owner, freePages, nfree, mem>>
gcVars == <<isCollecting, wasStarted, prevTo, stepped>>
diskVars == <<diskStatus, diskCursor, disk>>
rvyVars == <<rvyArgs, rvyStack, rvyDisk>>
ghostVars == <<snap, needs>>
boundVars == <<uid, batches, crashes>>
vars == <<phase, heapVars, pinfos, lists, gcVars, unstable, diskVars, rvyVars,
          root, ghostVars, boundVars>>

Live == {"NORMAL", "TO_BE_COLLECTED"}
Twice == {g \in Gens : gen[g].status = "COLLECTED_TWICE"}
Existing == {g \in Gens : gen[g].status # "NONEXISTENT"}

--------------------------------------------------------------------------------
(* f with dom[i] mapped to values[i].                                      *)
Put(f, dom, values) ==
  [x \in DOMAIN f |-> IF \E i \in DOMAIN dom : dom[i] = x
                      THEN values[CHOOSE i \in DOMAIN dom : dom[i] = x] ELSE f[x]]

(* Disk page allocation of io_write_page for one file: the next FREE pages *)
(* at or after the cursor, cyclically.                                     *)
Distance(d) == (d + NumberOfDiskPages - diskCursor) % NumberOfDiskPages
FreeDisk == {d \in DiskPages : diskStatus[d] = "FREE"}
NthFreeDisk(k) ==
  CHOOSE d \in FreeDisk : Cardinality({e \in FreeDisk : Distance(e) < Distance(d)}) = k - 1

(* Every write leaves one page free; the program ends when it cannot.      *)
DiskHasRoomFor(n) == n = 0 \/ Cardinality(FreeDisk) > n

(* io_write_page for the n pages of a new generation, in finish_gc.        *)
NewDiskPages(n) == [i \in 1 .. n |-> NthFreeDisk(i)]
WritePages(n, contents) ==
  LET dps == NewDiskPages(n) IN
  /\ disk' = Put(disk, dps, contents)
  /\ diskStatus' = Put(diskStatus, dps, [i \in 1 .. n |-> "ALLOCATED"])
  /\ diskCursor' = IF n = 0 THEN diskCursor ELSE (dps[n] + 1) % NumberOfDiskPages

(* Mutant: frees the pages of generations collected only once, too.        *)
FreeDiskPagesTooEarly(gs) ==
  diskStatus' = [d \in DiskPages |->
    IF \E g \in Existing : gen[g].status \notin Live /\ d \in ToSet(gen[g].diskPage)
    THEN "FREE" ELSE diskStatus[d]]

(* io_free_disk_page over the disk pages of the generations gs.            *)
FreeDiskPages(gs) ==
  diskStatus' = [d \in DiskPages |->
    IF \E g \in gs : d \in ToSet(gen[g].diskPage) THEN "FREE" ELSE diskStatus[d]]

(* allocate_generation: the table doubles when less than an eighth of it   *)
(* is free; then the first free number at or after the cursor is taken.    *)
NGensFor ==
  IF Cardinality({g \in 0 .. ngens - 1 : gen[g].status = "NONEXISTENT"}) * 8 < ngens
  THEN 2 * ngens ELSE ngens
AllocatedGen ==
  LET n == NGensFor
      dist(g) == (g + n - gnCursor) % n
      candidates == {g \in 0 .. n - 1 : gen[g].status = "NONEXISTENT"} IN
  CHOOSE g \in candidates : \A h \in candidates : dist(g) <= dist(h)
allocate_generation ==
  /\ NGensFor <= MaxGenerations
  /\ ngens' = NGensFor
  /\ gnCursor' = AllocatedGen

(* The first n pages of the free list, and fresh contents for them.        *)
NewPages(n) == SubSeq(freePages, 1, n)
Filled(n, holder, cells) ==
  [i \in 1 .. n |-> [uid |-> uid + i, pinfos |-> IF i = holder THEN cells ELSE <<>>]]

IndexOf(g) == CHOOSE i \in 1 .. Len(order) : order[i] = g

(* insert_generation_after, on the list of live generations.               *)
insert_generation_after(younger, g) ==
  IF younger = NoGen THEN <<g>> \o order ELSE InsertAt(order, IndexOf(younger) + 1, g)

(* Mutant: logs the memory page numbers in place of the disk page numbers. *)
LoggedSwapped(cells, ls, g, nfrom, page, diskPage) ==
  Append(cells, [gn |-> g, nfrom |-> nfrom, page |-> page, diskPage |-> page,
                 prev |-> ls.list])
(* log_to_generation_pinfo_list: a new cell in the first generation in     *)
(* front of the list ls.                                                   *)
Logged(cells, ls, g, nfrom, page, diskPage) ==
  Append(cells, [gn |-> g, nfrom |-> nfrom, page |-> page, diskPage |-> diskPage,
                 prev |-> ls.list])
LogPtr(cells) == [page |-> FirstGeneration, slot |-> Len(cells) + 1]

--------------------------------------------------------------------------------
(* init_shades and create_db.                                              *)
Init ==
  /\ phase = "mutator"
  /\ gen = [g \in Gens |-> NoInfo]
  /\ ngens = InitialGenerations /\ gnCursor = 0
  /\ order = <<>>
  /\ owner = [p \in Pages |-> NoGen]
  /\ freePages = [i \in 1 .. NumberOfPages |-> NumberOfPages - i]
  /\ nfree = NumberOfPages
  /\ mem = [p \in Pages |-> Blank]
  /\ pinfos = <<>> /\ lists = NoLists
  /\ isCollecting = FALSE /\ wasStarted = FALSE /\ prevTo = NoGen /\ stepped = FALSE
  /\ unstable = {}
  /\ diskStatus = [d \in DiskPages |-> "FREE"] /\ diskCursor = 0
  /\ rvyArgs = [younger |-> NoGen, lists |-> NoLists]
  /\ rvyStack = <<>>
  /\ rvyDisk = [p \in Pages |-> NoDiskPage]
  /\ disk = [d \in DiskPages |-> Blank]
  /\ root = [exists |-> FALSE]
  /\ snap = [exists |-> FALSE] /\ needs = {}
  /\ uid = 0 /\ batches = 0 /\ crashes = 0

--------------------------------------------------------------------------------
(* flush_batch.                                                            *)

(* collect_first_generation: the survivors fill n pages of a new youngest  *)
(* generation; the pinfo cells move to one of them, and pointers to them   *)
(* follow.                                                                 *)
collect_first_generation(n, holder) ==
  LET g == AllocatedGen
      pages == NewPages(n)
      moved(ptr) == IF ptr.page = FirstGeneration
                    THEN [ptr EXCEPT !.page = pages[holder]] ELSE ptr
      cells == [i \in DOMAIN pinfos |-> [pinfos[i] EXCEPT !.prev = moved(@)]]
      contents == Filled(n, holder, cells) IN
  /\ phase = "mutator" /\ batches < MaxBatches
  /\ holder \in 1 .. n \/ (n = 0 /\ holder = 0 /\ pinfos = <<>>)
  /\ n <= Len(freePages) /\ DiskHasRoomFor(n)
  /\ allocate_generation
  /\ gen' = [gen EXCEPT ![g] = [status |-> "NORMAL", page |-> pages,
                                diskPage |-> NewDiskPages(n), from |-> {}]]
  /\ order' = insert_generation_after(NoGen, g)
  /\ owner' = Put(owner, pages, [i \in 1 .. n |-> g])
  /\ freePages' = SubSeq(freePages, n + 1, Len(freePages))
  /\ nfree' = nfree - n
  /\ mem' = Put(mem, pages, contents)
  /\ WritePages(n, contents)
  /\ unstable' = unstable \cup ToSet(pages)
  /\ lists' = [lists EXCEPT !.list = moved(@)]
  /\ phase' = "collected"
  /\ uid' = uid + n
  /\ batches' = batches + 1
  /\ UNCHANGED <<pinfos, gcVars, rvyVars, root, ghostVars, crashes>>

(* What recovery has to bring back: the generation table and the list of   *)
(* live generations.  A major collection that was only announced           *)
(* (mark_major_gc_generations) is forgotten.                               *)
Unmarked(status) == IF wasStarted /\ status = "TO_BE_COLLECTED" THEN "NORMAL" ELSE status
ContentsOf(gs) ==
  UNION {{<<gen[g].diskPage[i], disk[gen[g].diskPage[i]]>> :
            i \in DOMAIN gen[g].diskPage} : g \in gs}
Snapshot ==
  [exists |-> TRUE,
   gen |-> [g \in Gens |-> [gen[g] EXCEPT !.status = Unmarked(@)]],
   order |-> order, prevTo |-> prevTo,
   isCollecting |-> isCollecting /\ ~wasStarted,
   owner |-> owner,
   mem |-> [p \in {q \in Pages : owner[q] # NoGen} |-> mem[p]],
   core |-> ContentsOf(Existing \ Twice)]

(* cache_generation_pinfo_to_root and io_write_root: the commit point.     *)
io_write_root ==
  /\ phase = "collected"
  /\ root' = [exists |-> TRUE, lists |-> lists, gn |-> order[1],
              page |-> gen[order[1]].page, diskPage |-> gen[order[1]].diskPage]
  /\ unstable' = {}
  /\ phase' = "committed"
  /\ snap' = Snapshot
  /\ needs' = ContentsOf(Existing)
  /\ UNCHANGED <<heapVars, pinfos, lists, gcVars, diskVars, rvyVars, boundVars>>

(* mark_twice_collected_generations_nonexistent.                           *)
Purged == [g \in Gens |-> IF g \in Twice THEN NoInfo ELSE gen[g]]

(* Mutant: the list fields of the root block are shifted in the wrong      *)
(* order.                                                                  *)
StartGroupShiftedWrong ==
  LET ls == IF wasStarted
            THEN [list |-> NullPtr, prev |-> lists.list, prevPrev |-> lists.list]
            ELSE lists
      y == order[1] IN
  /\ phase = "committed"
  /\ IF wasStarted THEN gen' = Purged /\ FreeDiskPages(Twice)
                   ELSE UNCHANGED <<gen, diskStatus>>
  /\ wasStarted' = FALSE
  /\ pinfos' = Logged(<<>>, ls, y, 0, gen[y].page, gen[y].diskPage)
  /\ lists' = [ls EXCEPT !.list = LogPtr(<<>>)]
  /\ stepped' = FALSE
  /\ phase' = "major"
  /\ UNCHANGED <<ngens, gnCursor, order, owner, freePages, nfree, mem, isCollecting,
                 prevTo, unstable, diskCursor, disk, rvyVars, root, ghostVars, boundVars>>

(* The rest of flush_batch up to major_gc: clear the first generation; if  *)
(* a major collection was announced before this commit, free what was      *)
(* collected twice and start a new pinfo list; describe the generation     *)
(* just committed.                                                         *)
StartGroup ==
  LET ls == IF wasStarted
            THEN [list |-> NullPtr, prev |-> lists.list, prevPrev |-> lists.prev]
            ELSE lists
      y == order[1] IN
  /\ phase = "committed"
  /\ IF wasStarted THEN gen' = Purged /\ FreeDiskPages(Twice)
                   ELSE UNCHANGED <<gen, diskStatus>>
  /\ wasStarted' = FALSE
  /\ pinfos' = Logged(<<>>, ls, y, 0, gen[y].page, gen[y].diskPage)
  /\ lists' = [ls EXCEPT !.list = LogPtr(<<>>)]
  /\ stepped' = FALSE
  /\ phase' = "major"
  /\ UNCHANGED <<ngens, gnCursor, order, owner, freePages, nfree, mem, isCollecting,
                 prevTo, unstable, diskCursor, disk, rvyVars, root, ghostVars, boundVars>>

--------------------------------------------------------------------------------
(* major_gc.  How many steps its effort heuristic allows is left open.     *)

(* Enough memory is free and no collection is going on.                    *)
NoMajorGc ==
  /\ phase = "major" /\ ~isCollecting
  /\ ~stepped /\ nfree > StartGcLimit
  /\ phase' = "mutator"
  /\ UNCHANGED <<heapVars, pinfos, lists, gcVars, unstable, diskVars, rvyVars, root,
                 ghostVars, boundVars>>

(* mark_major_gc_generations: all live generations; major_gc returns.      *)
mark_major_gc_generations ==
  /\ phase = "major" /\ ~isCollecting
  /\ stepped \/ nfree <= StartGcLimit
  /\ gen' = [g \in Gens |-> IF g \in ToSet(order)
                            THEN [gen[g] EXCEPT !.status = "TO_BE_COLLECTED"] ELSE gen[g]]
  /\ isCollecting' = TRUE /\ wasStarted' = TRUE
  /\ phase' = "mutator"
  /\ UNCHANGED <<ngens, gnCursor, order, owner, freePages, nfree, mem, pinfos, lists,
                 prevTo, stepped, unstable, diskVars, rvyVars, root, ghostVars, boundVars>>

(* Mutant: the second step does not wait for the writes of the first.      *)
PrepareStepUndrained ==
  /\ phase = "major" /\ isCollecting
  /\ stepped' = TRUE
  /\ phase' = "step"
  /\ UNCHANGED <<heapVars, pinfos, lists, isCollecting, wasStarted, prevTo, unstable, diskVars,
                 rvyVars, root, ghostVars, boundVars>>

(* Before a second step in the same call: io_allow_page_changes.           *)
PrepareStep ==
  /\ phase = "major" /\ isCollecting
  /\ unstable' = IF stepped THEN {} ELSE unstable
  /\ stepped' = TRUE
  /\ phase' = "step"
  /\ UNCHANGED <<heapVars, pinfos, lists, isCollecting, wasStarted, prevTo, diskVars,
                 rvyVars, root, ghostVars, boundVars>>

(* The position in order where a step starts to collect.                   *)
FirstFrom ==
  IF prevTo = NoGen
  THEN CHOOSE i \in 1 .. Len(order) :
         /\ gen[order[i]].status = "TO_BE_COLLECTED"
         /\ \A j \in 1 .. i - 1 : gen[order[j]].status # "TO_BE_COLLECTED"
  ELSE IndexOf(prevTo) + 1

(* How many consecutive generations a step starting there merges.          *)
PagesIn(i, k) == MapThenSumSet(LAMBDA j : Len(gen[order[j]].page), i .. i + k - 1)
FromCount(i) ==
  Max({k \in 1 .. Len(order) - i + 1 :
         \A m \in 2 .. k : /\ gen[order[i + m - 1]].status = "TO_BE_COLLECTED"
                           /\ PagesIn(i, m) < MatureLimit})

(* mark_generation_collected_once for the k generations at position i of   *)
(* order, with the generation to in front of them: they leave the list and *)
(* memory; what they were collected from is collected twice.               *)
CollectedOnce(table, i, k, to) ==
  LET from == {order[j] : j \in i .. i + k - 1}
      older == UNION {gen[g].from : g \in from} IN
  [g \in Gens |->
     CASE g = to    -> [table[g] EXCEPT !.from = from]
       [] g \in from -> [gen[g] EXCEPT !.status = "COLLECTED_ONCE", !.page = <<>>, !.from = {}]
       [] g \in older -> [gen[g] EXCEPT !.status = "COLLECTED_TWICE"]
       [] OTHER      -> table[g]]
(* Mutant: the new generation is put in front of all others.               *)
OrderAfterStepYoungest(i, k, to) ==
  <<to>> \o SubSeq(order, 1, i - 1) \o SubSeq(order, i + k, Len(order))
OrderAfterStep(i, k, to) ==
  SubSeq(order, 1, i - 1) \o <<to>> \o SubSeq(order, i + k, Len(order))
(* Mutant: the pages of the last generation of the step are not freed.     *)
FromPagesOffByOne(i, k) == FlattenSeq([j \in 1 .. k - 1 |-> gen[order[i + j - 1]].page])
(* free_page over the generations collected, in the order of the code.     *)
FromPages(i, k) == FlattenSeq([j \in 1 .. k |-> gen[order[i + j - 1]].page])
(* Is there anything left to collect behind the generation at position i?  *)
MoreToCollect(i, k) ==
  i + k <= Len(order) /\ gen[order[i + k]].status = "TO_BE_COLLECTED"

(* major_gc_step: the live cells of k generations fill n pages of a new    *)
(* one that takes their place.                                             *)
major_gc_step(n, again) ==
  LET i == FirstFrom
      k == FromCount(i)
      to == AllocatedGen
      pages == NewPages(n)
      dps == NewDiskPages(n)
      gone == FromPages(i, k)
      table == [gen EXCEPT ![to] = [status |-> "NORMAL", page |-> pages,
                                    diskPage |-> dps, from |-> {}]] IN
  /\ phase = "step"
  /\ n <= PagesIn(i, k)
  /\ n <= Len(freePages) /\ DiskHasRoomFor(n)
  /\ allocate_generation
  /\ gen' = CollectedOnce(table, i, k, to)
  /\ order' = OrderAfterStep(i, k, to)
  /\ owner' = [p \in Pages |-> CASE p \in ToSet(pages) -> to
                                 [] p \in ToSet(gone) -> NoGen
                                 [] OTHER -> owner[p]]
  /\ freePages' = Reverse(gone) \o SubSeq(freePages, n + 1, Len(freePages))
  /\ nfree' = nfree - n + Len(gone)
  /\ mem' = Put(mem, pages, Filled(n, 0, <<>>))
  /\ WritePages(n, Filled(n, 0, <<>>))
  /\ unstable' = unstable \cup ToSet(pages)
  /\ pinfos' = Logged(pinfos, lists, to, k, pages, dps)
  /\ lists' = [lists EXCEPT !.list = LogPtr(pinfos)]
  /\ prevTo' = IF MoreToCollect(i, k) THEN to ELSE NoGen
  /\ isCollecting' = MoreToCollect(i, k)
  /\ again => nfree' < StartGcLimit
  /\ phase' = IF again THEN "major" ELSE "mutator"
  /\ uid' = uid + n
  /\ UNCHANGED <<wasStarted, stepped, rvyVars, root, ghostVars, batches, crashes>>

--------------------------------------------------------------------------------
(* Crash and recovery.                                                     *)

(* Mutant: a memory page is read only once, although its contents may have *)
(* been replaced by another generation's since.                            *)
ToReadOnce(info) == {i \in DOMAIN info.page : rvyDisk[info.page[i]] = NoDiskPage}
(* rvy_read_generation reads the pages that memory does not already hold.  *)
ToRead(info) == {i \in DOMAIN info.page : rvyDisk[info.page[i]] # info.diskPage[i]}
OwnerRead(g, info) ==
  [p \in Pages |-> IF \E i \in ToRead(info) : info.page[i] = p THEN g ELSE owner[p]]
NFreeRead(info) ==
  nfree - Cardinality({i \in ToRead(info) : owner[info.page[i]] = NoGen})
MemRead(info) ==
  [p \in Pages |-> IF \E i \in ToRead(info) : info.page[i] = p
                   THEN disk[info.diskPage[CHOOSE i \in ToRead(info) : info.page[i] = p]]
                   ELSE mem[p]]
StatusRead(info) ==
  [d \in DiskPages |-> IF \E i \in ToRead(info) : info.diskPage[i] = d
                       THEN "ALLOCATED" ELSE diskStatus[d]]
rvy_read_generation(info) ==
  /\ mem' = MemRead(info)
  /\ rvyDisk' = Put(rvyDisk, info.page, info.diskPage)

(* The generation info rvy_allocate_generation sets up from a pinfo.       *)
InfoOf(p) == [status |-> "NORMAL", page |-> p.page, diskPage |-> p.diskPage, from |-> {}]
Grown(g) == Max({ngens, g + 1})

(* Everything in memory is lost, at any point, in the middle of an earlier *)
(* recovery too; the process starts again and recover_db reads the root    *)
(* block and the youngest generation.                                      *)
Restart ==
  LET y == InfoOf(root) IN
  /\ root.exists /\ crashes < MaxCrashes
  /\ gen' = [g \in Gens |-> IF g = root.gn THEN y ELSE NoInfo]
  /\ ngens' = Max({InitialGenerations, root.gn + 1}) /\ gnCursor' = 0
  /\ order' = <<root.gn>>
  /\ owner' = [p \in Pages |-> IF p \in ToSet(y.page) THEN root.gn ELSE NoGen]
  /\ freePages' = <<>>
  /\ nfree' = NumberOfPages - Len(y.page)
  /\ mem' = Put([p \in Pages |-> Blank], y.page, [i \in DOMAIN y.page |-> disk[y.diskPage[i]]])
  /\ rvyDisk' = Put([p \in Pages |-> NoDiskPage], y.page, y.diskPage)
  /\ diskStatus' = [d \in DiskPages |-> IF d \in ToSet(y.diskPage) THEN "ALLOCATED" ELSE "UNKNOWN"]
  /\ diskCursor' = 0
  /\ pinfos' = <<>> /\ lists' = root.lists
  /\ isCollecting' = FALSE /\ wasStarted' = FALSE /\ prevTo' = NoGen /\ stepped' = FALSE
  /\ unstable' = {}
  /\ rvyArgs' = [younger |-> root.gn, lists |-> root.lists]
  /\ rvyStack' = <<>>
  /\ phase' = "rvy_batch"
  /\ crashes' = crashes + 1
  /\ UNCHANGED <<disk, root, ghostVars, uid, batches>>

Deref(ptr) == mem[ptr.page].pinfos[ptr.slot]
RvyPinfo == Deref(rvyArgs.lists.list)
BaseRound == rvyArgs.lists.prev = NullPtr

(* One pinfo of rvy_base_major_gc_round: read the generation and put it in *)
(* its place; nothing is replayed.                                         *)
rvy_base_major_gc_round ==
  LET p == RvyPinfo IN
  /\ phase = "rvy_batch" /\ BaseRound /\ rvyArgs.lists.list # NullPtr
  /\ gen' = [gen EXCEPT ![p.gn] = InfoOf(p)]
  /\ ngens' = Grown(p.gn)
  /\ order' = insert_generation_after(rvyArgs.younger, p.gn)
  /\ owner' = OwnerRead(p.gn, p)
  /\ nfree' = NFreeRead(p)
  /\ rvy_read_generation(p)
  /\ diskStatus' = StatusRead(p)
  /\ rvyArgs' = [rvyArgs EXCEPT !.lists.list = p.prev,
                                !.younger = IF p.nfrom = 0 THEN p.gn ELSE @]
  /\ UNCHANGED <<phase, gnCursor, freePages, pinfos, lists, gcVars, unstable, diskCursor,
                 disk, rvyStack, root, ghostVars, boundVars>>

rvy_base_done ==
  /\ phase = "rvy_batch" /\ BaseRound /\ rvyArgs.lists.list = NullPtr
  /\ phase' = "rvy_return"
  /\ UNCHANGED <<heapVars, pinfos, lists, gcVars, unstable, diskVars, rvyVars, root,
                 ghostVars, boundVars>>

(* rvy_batch up to its recursive call: for a new generation, ...           *)
rvy_batch_new ==
  LET p == RvyPinfo
      ls == rvyArgs.lists
      first == p.prev = NullPtr IN
  /\ phase = "rvy_batch" /\ ~BaseRound
  /\ p.nfrom = 0
  /\ gen' = [gen EXCEPT ![p.gn] = InfoOf(p)]
  /\ ngens' = Grown(p.gn)
  /\ order' = insert_generation_after(rvyArgs.younger, p.gn)
  /\ owner' = OwnerRead(p.gn, p)
  /\ nfree' = NFreeRead(p)
  /\ rvy_read_generation(p)
  /\ diskStatus' = StatusRead(p)
  /\ rvyStack' = <<[gn |-> p.gn, nfrom |-> 0, first |-> first]>> \o rvyStack
  /\ rvyArgs' = [younger |-> p.gn,
                 lists |-> IF first
                           THEN [list |-> ls.prev, prev |-> ls.prevPrev, prevPrev |-> NullPtr]
                           ELSE [ls EXCEPT !.list = p.prev]]
  /\ UNCHANGED <<phase, gnCursor, freePages, pinfos, lists, gcVars, unstable, diskCursor,
                 disk, root, ghostVars, boundVars>>

(* ... and for a collected one, which is not read yet.                     *)
rvy_batch_collected ==
  LET p == RvyPinfo IN
  /\ phase = "rvy_batch" /\ ~BaseRound
  /\ p.nfrom # 0
  /\ gen' = [gen EXCEPT ![p.gn] = InfoOf(p)]
  /\ ngens' = Grown(p.gn)
  /\ rvyStack' = <<[gn |-> p.gn, nfrom |-> p.nfrom, first |-> FALSE]>> \o rvyStack
  /\ rvyArgs' = [rvyArgs EXCEPT !.lists.list = p.prev]
  /\ UNCHANGED <<phase, gnCursor, order, owner, freePages, nfree, mem, pinfos, lists, gcVars,
                 unstable, diskVars, rvyDisk, root, ghostVars, boundVars>>

(* rvy_batch after its recursive call, new generation: the oldest one of a *)
(* list announces the major collection of everything older.  Its pages are *)
(* read again where older generations took their place.                    *)
rvy_return_new ==
  LET fr == Head(rvyStack)
      i == IndexOf(fr.gn)
      older == {order[j] : j \in i + 1 .. Len(order)} IN
  /\ phase = "rvy_return" /\ rvyStack # <<>>
  /\ fr.nfrom = 0
  /\ IF fr.first
     THEN /\ gen' = [g \in Gens |-> IF g \in older
                                    THEN [gen[g] EXCEPT !.status = "TO_BE_COLLECTED"]
                                    ELSE Purged[g]]
          /\ isCollecting' = TRUE
     ELSE UNCHANGED <<gen, isCollecting>>
  /\ owner' = OwnerRead(fr.gn, gen[fr.gn])
  /\ nfree' = NFreeRead(gen[fr.gn])
  /\ rvy_read_generation(gen[fr.gn])
  /\ diskStatus' = [d \in DiskPages |->
       IF fr.first /\ \E g \in Twice : d \in ToSet(gen[g].diskPage) THEN "FREE"
       ELSE StatusRead(gen[fr.gn])[d]]
  /\ rvyStack' = Tail(rvyStack)
  /\ UNCHANGED <<phase, ngens, gnCursor, order, freePages, pinfos, lists, wasStarted, prevTo,
                 stepped, unstable, diskCursor, disk, rvyArgs, root, ghostVars, boundVars>>

(* Collected generation: read it and replay the step that made it          *)
(* (rvy_major_gc_step).                                                    *)
rvy_return_collected ==
  LET fr == Head(rvyStack)
      info == gen[fr.gn]
      i == FirstFrom
      k == fr.nfrom
      gone == FromPages(i, k) IN
  /\ phase = "rvy_return" /\ rvyStack # <<>>
  /\ fr.nfrom # 0
  /\ rvy_read_generation(info)
  /\ diskStatus' = StatusRead(info)
  /\ gen' = CollectedOnce(gen, i, k, fr.gn)
  /\ order' = OrderAfterStep(i, k, fr.gn)
  /\ owner' = [p \in Pages |-> IF p \in ToSet(gone) THEN NoGen ELSE OwnerRead(fr.gn, info)[p]]
  /\ nfree' = NFreeRead(info) + Len(gone)
  /\ prevTo' = IF MoreToCollect(i, k) THEN fr.gn ELSE NoGen
  /\ isCollecting' = (isCollecting /\ MoreToCollect(i, k))
  /\ rvyStack' = Tail(rvyStack)
  /\ UNCHANGED <<phase, ngens, gnCursor, freePages, pinfos, lists, wasStarted, stepped, unstable,
                 diskCursor, disk, rvyArgs, root, ghostVars, boundVars>>

(* Back in recover_db: the youngest generation is read again if needed.    *)
rvy_batch_returned ==
  LET info == gen[root.gn] IN
  /\ phase = "rvy_return" /\ rvyStack = <<>>
  /\ owner' = OwnerRead(root.gn, info)
  /\ nfree' = NFreeRead(info)
  /\ rvy_read_generation(info)
  /\ diskStatus' = StatusRead(info)
  /\ phase' = "recovered"
  /\ UNCHANGED <<gen, ngens, gnCursor, order, freePages, pinfos, lists, gcVars, unstable,
                 diskCursor, disk, rvyArgs, rvyStack, root, ghostVars, boundVars>>

(* construct_page_freelist: each free page is pushed in front of the free  *)
(* list, the lowest number first.                                          *)
construct_page_freelist(free) ==
  [i \in 1 .. Cardinality(free) |->
     CHOOSE p \in free : Cardinality({q \in free : q > p}) = i - 1]

(* io_declare_unallocated_pages_free and the end of recover_db, which goes *)
(* on like flush_batch.                                                    *)
FinishRecovery ==
  LET unallocated == {p \in Pages : owner[p] = NoGen} IN
  /\ phase = "recovered"
  /\ freePages' = construct_page_freelist(unallocated)
  /\ owner' = [p \in Pages |-> IF p \in unallocated THEN NoGen ELSE owner[p]]
  /\ diskStatus' = [d \in DiskPages |-> IF diskStatus[d] = "UNKNOWN" THEN "FREE" ELSE diskStatus[d]]
  /\ pinfos' = Logged(<<>>, lists, root.gn, 0, root.page, root.diskPage)
  /\ lists' = [lists EXCEPT !.list = LogPtr(<<>>)]
  /\ rvyArgs' = [younger |-> NoGen, lists |-> NoLists]
  /\ rvyDisk' = [p \in Pages |-> NoDiskPage]
  /\ phase' = "major"
  /\ UNCHANGED <<gen, ngens, gnCursor, order, nfree, mem, gcVars, unstable, diskCursor, disk,
                 rvyStack, root, ghostVars, boundVars>>

--------------------------------------------------------------------------------
Commit ==
  \/ \E n \in 0 .. MaxNewPages, h \in 0 .. MaxNewPages : collect_first_generation(n, h)
  \/ io_write_root
  \/ StartGroup
major_gc ==
  \/ NoMajorGc
  \/ mark_major_gc_generations
  \/ PrepareStep
  \/ \E n \in 0 .. NumberOfPages, again \in BOOLEAN : major_gc_step(n, again)
recover_db ==
  \/ rvy_base_major_gc_round \/ rvy_base_done
  \/ rvy_batch_new \/ rvy_batch_collected
  \/ rvy_return_new \/ rvy_return_collected \/ rvy_batch_returned
  \/ FinishRecovery

(* Every disk page recovery will read still holds what it held when the    *)
(* root block was written.                                                 *)
NeededPagesIntact == \A x \in needs : disk[x[1]] = x[2]

(* Crashes only while that is so; AnyCrashSpec below is without this.      *)
Next == Commit \/ major_gc \/ recover_db \/ (NeededPagesIntact /\ Restart)
Spec == Init /\ [][Next]_vars
AnyCrashSpec == Init /\ [][Next \/ Restart]_vars

--------------------------------------------------------------------------------
Running == phase \in {"mutator", "collected", "committed", "major", "step"}

TypeOK ==
  /\ phase \in {"mutator", "collected", "committed", "major", "step",
                "rvy_batch", "rvy_return", "recovered"}
  /\ gen \in [Gens -> GenInfo]
  /\ ngens \in 1 .. MaxGenerations /\ gnCursor \in Gens
  /\ order \in Seq(Gens)
  /\ owner \in [Pages -> Gens \cup {NoGen}]
  /\ freePages \in Seq(Pages) /\ nfree \in 0 .. NumberOfPages
  /\ mem \in [Pages -> Content]
  /\ pinfos \in Seq(Pinfo)
  /\ lists \in Lists
  /\ {isCollecting, wasStarted, stepped} \subseteq BOOLEAN
  /\ prevTo \in Gens \cup {NoGen}
  /\ unstable \in SUBSET Pages
  /\ diskStatus \in [DiskPages -> {"FREE", "ALLOCATED", "UNKNOWN"}]
  /\ diskCursor \in DiskPages
  /\ rvyArgs \in [younger : Gens \cup {NoGen}, lists : Lists]
  /\ rvyStack \in Seq([gn : Gens, nfrom : Nat, first : BOOLEAN])
  /\ rvyDisk \in [Pages -> DiskPages \cup {NoDiskPage}]
  /\ disk \in [DiskPages -> Content]

(* Memory pages: the pages of live generations are disjoint and belong to  *)
(* them, the free list holds exactly the others, and the counter that      *)
(* drives the collector agrees, also after recovery allocated the same     *)
(* page for several generations in turn.                                   *)
MemoryAccounted ==
  Running =>
    /\ \A p \in Pages, g \in Gens :
         owner[p] = g <=> gen[g].status \in Live /\ p \in ToSet(gen[g].page)
    /\ \A g \in Gens : Cardinality(ToSet(gen[g].page)) = Len(gen[g].page)
    /\ ToSet(freePages) = {p \in Pages : owner[p] = NoGen}
    /\ nfree = Len(freePages)
    /\ Cardinality(ToSet(freePages)) = nfree

(* Disk pages: every generation that exists on disk, collected ones        *)
(* included, has pages of its own that io.c knows to be allocated, and no  *)
(* disk page is lost for good, whatever crashes and replays went before.   *)
DiskAccounted ==
  Running =>
    /\ \A g, h \in Existing :
         g # h => ToSet(gen[g].diskPage) \cap ToSet(gen[h].diskPage) = {}
    /\ {d \in DiskPages : diskStatus[d] = "ALLOCATED"}
         = UNION {ToSet(gen[g].diskPage) : g \in Existing}
    /\ \A d \in DiskPages : diskStatus[d] # "UNKNOWN"

(* No page is lost or used twice, in memory or on disk.                    *)
PagesAccounted == MemoryAccounted /\ DiskAccounted

(* The list of generations by age: all live ones, those still to be        *)
(* collected oldest, and the collector's position just in front of them.   *)
CollectionOrder ==
  Running =>
    /\ ToSet(order) = {g \in Gens : gen[g].status \in Live}
    /\ Cardinality(ToSet(order)) = Len(order)
    /\ \A i, j \in 1 .. Len(order) :
         i < j /\ gen[order[i]].status = "TO_BE_COLLECTED"
           => gen[order[j]].status = "TO_BE_COLLECTED"
    /\ isCollecting <=> \E g \in Gens : gen[g].status = "TO_BE_COLLECTED"
    /\ prevTo # NoGen =>
         \E i \in 1 .. Len(order) - 1 :
           /\ order[i] = prevTo
           /\ gen[order[i]].status = "NORMAL"
           /\ gen[order[i + 1]].status = "TO_BE_COLLECTED"

(* Disk pages of generations that were live, or collected once, when the   *)
(* last root block was written are not written again before the next one,  *)
(* however far commit and collection have come since.                      *)
CommittedPagesIntact ==
  snap.exists => \A x \in snap.core : disk[x[1]] = x[2]

(* What recovery reads is what the last commit left there.                 *)
RecoveryReadsCommitted ==
  phase \in {"rvy_batch", "rvy_return", "recovered"} =>
    \A p \in Pages : rvyDisk[p] # NoDiskPage => <<rvyDisk[p], disk[rvyDisk[p]]>> \in needs

(* Recovery finds every pinfo cell it follows at the memory address where  *)
(* the root block or another pinfo says it is, and the generation it       *)
(* describes is not already there (asserts of rvy_batch and                *)
(* rvy_allocate_generation).                                               *)
PinfosInPlace ==
  phase = "rvy_batch" =>
    LET p == rvyArgs.lists.list IN
    /\ ~BaseRound => p # NullPtr
    /\ p # NullPtr => /\ p.page \in Pages
                      /\ owner[p.page] # NoGen
                      /\ p.slot \in DOMAIN mem[p.page].pinfos
                      /\ gen[Deref(p).gn].status \notin Live

(* Replaying the collections rebuilds the state of the last commit: the    *)
(* same generations in the same order and state, the collector at the same *)
(* point, the same contents in every memory page in use; and the page      *)
(* accounts that the program goes on with agree with them.                 *)
RecoveredFaithfully ==
  phase = "recovered" =>
    /\ order = snap.order
    /\ gen = snap.gen
    /\ prevTo = snap.prevTo /\ isCollecting = snap.isCollecting
    /\ owner = snap.owner
    /\ \A p \in DOMAIN snap.mem : mem[p] = snap.mem[p]
    /\ nfree = Cardinality({p \in Pages : owner[p] = NoGen})
    /\ {d \in DiskPages : diskStatus[d] = "ALLOCATED"}
         = UNION {ToSet(gen[g].diskPage) : g \in Existing}
    /\ ngens \in 1 .. MaxGenerations /\ Existing \subseteq 0 .. ngens - 1

(* A memory page whose write may be in progress is never changed: it is    *)
(* not free, and a collection step, which puts forward pointers into the   *)
(* pages it collects and redirects pointers in younger ones, only runs     *)
(* when no live page is being written.                                     *)
PagesBeingWrittenStable ==
  /\ unstable \cap ToSet(freePages) = {}
  /\ phase = "step" => \A p \in unstable : owner[p] = NoGen
================================================================================
