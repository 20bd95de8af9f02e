---------------------------------- MODULE Io -----------------------------------
(***************************************************************************)
(* Disk space and root blocks (io.c, root.c) in the build with             *)
(* OPTIMIZED_ROOT_LOCATION: the root block is written among the data pages *)
(* of all files, and io_read_root finds the newest one by time stamps,     *)
(* with a binary search in every file.                                     *)
(*                                                                         *)
(* The caller is shades.c: it says which pages a root block refers to,     *)
(* frees pages right after a root block is written, those the block refers *)
(* to among them, and after a crash declares the pages allocated that the  *)
(* root block found refers to.                                             *)
(***************************************************************************)
EXTENDS Naturals, FiniteSets

CONSTANTS Databases,       \* the databases: how many files, and pages of every
                           \* file, and the bounds on root blocks and crashes
          LoadBalancing,   \* DISK_LOAD_BALANCING: defined with ASYNC_IO
          Word,            \* number of values of an unsigned long
          StampWord        \* number of values of time_stamp_lo

ASSUME DatabasesAssumption ==
  Databases \subseteq [files : Nat \ {0}, pages : Nat \ {0}, maxRoots : Nat, maxCrashes : Nat]
ASSUME LoadBalancingAssumption == LoadBalancing \in BOOLEAN
ASSUME WordAssumption == Word \in Nat /\ \A d \in Databases : Word > d.files * d.pages + 1
ASSUME StampWordAssumption == StampWord \in Nat /\ StampWord > 1

VARIABLE db                \* the database in use, one of Databases

NumberOfFiles == db.files
NumberOfPages == db.pages  \* number_of_pages of every file
MaxRoots == db.maxRoots
MaxCrashes == db.maxCrashes

Files == 0 .. NumberOfFiles - 1
PageNumbers == 0 .. NumberOfPages - 1
DiskPages == Files \X PageNumbers        \* MAKE_DISK_PAGE_NUMBER(file, page)

VARIABLES
  phase,     \* where the program is
  status,    \* file[].status
  nfree,     \* file[].number_of_free_pages
  total,     \* number_of_free_disk_pages
  cursor,    \* file[].cursor
  fileCursor,\* file_cursor
  prevRoot,  \* prev_root_file and prev_root_page
  stamp,     \* time_stamp_hi and time_stamp_lo of the root block in memory
  search,    \* the locals of io_read_root
  disk,      \* what is on disk
  pending,   \* pages whose writes are accepted and may not be on disk yet
  (* History variables. *)
  newest,    \* where the last root block was written
  committed, \* the pages it refers to
  roots, crashes

spaceVars == <<status, nfree, total, cursor, fileCursor, prevRoot>>
diskVars == <<disk, pending>>
ghostVars == <<newest, committed, roots, crashes>>
vars == <<db, phase, spaceVars, stamp, search, diskVars, ghostVars>>

(* The first words of a page: UNUSED_PAGE_COOKIE, PAGE_MAGIC_COOKIE, or    *)
(* ROOT_MAGIC_COOKIE with a time stamp.                                    *)
Unused == [cookie |-> "UNUSED"]
Data == [cookie |-> "PAGE"]
RootBlock(s) == [cookie |-> "ROOT", hi |-> s.hi, lo |-> s.lo]
Stamp == [hi : Nat, lo : 0 .. StampWord - 1]
OldestStamp == [hi |-> 0, lo |-> 0]

NoPage == <<NumberOfFiles, NumberOfPages>>   \* prev_root_file = -1

(* left_page, right_page, mid_page, first_mid_page, direction,             *)
(* first_direction and right_page_is_valid_root for file i; root_file,     *)
(* root_page and their time stamp.                                         *)
Search == [i : Files, left : Nat, right : Nat, mid : Nat, firstMid : Nat,
           dir : {"LEFTWARD", "RIGHTWARD"}, firstDir : {"LEFTWARD", "RIGHTWARD"},
           rightValid : BOOLEAN, root : DiskPages \cup {NoPage}, rootStamp : Stamp]
SearchIn(i, root, rootStamp) ==
  [i |-> i, left |-> 0, right |-> NumberOfPages, mid |-> 0, firstMid |-> 0,
   dir |-> "RIGHTWARD", firstDir |-> "RIGHTWARD", rightValid |-> FALSE,
   root |-> root, rootStamp |-> rootStamp]
NoSearch == SearchIn(0, NoPage, OldestStamp)

(* Unsigned arithmetic.                                                    *)
Inc(n) == (n + 1) % Word
Dec(n) == (n + Word - 1) % Word

TypeOK ==
  /\ db \in Databases
  /\ phase \in {"running", "leftmost", "range", "mid", "declare", "full", "assert"}
  /\ status \in [Files -> [PageNumbers -> {"ALLOCATED", "ROOT", "FREE", "UNKNOWN"}]]
  /\ nfree \in [Files -> 0 .. Word - 1]
  /\ total \in 0 .. Word - 1
  /\ cursor \in [Files -> PageNumbers]
  /\ fileCursor \in Files
  /\ prevRoot \in DiskPages \cup {NoPage}
  /\ stamp \in Stamp
  /\ search \in Search
  /\ \A f \in Files, p \in PageNumbers :
       disk[f][p] \in {Unused, Data} \cup {RootBlock(s) : s \in [hi : 0 .. MaxRoots, lo : 0 .. StampWord - 1]}
  /\ pending \in SUBSET DiskPages
  /\ newest \in DiskPages \cup {NoPage}
  /\ committed \in SUBSET DiskPages
  /\ roots \in 0 .. MaxRoots /\ crashes \in 0 .. MaxCrashes

--------------------------------------------------------------------------------
(* root.c.                                                                 *)

increment_root_time_stamp(s) ==
  IF s.lo = StampWord - 1 THEN [hi |-> s.hi + 1, lo |-> 0]
                          ELSE [hi |-> s.hi, lo |-> s.lo + 1]

(* Mutant: compares the low words first.                                   *)
LowWordsNewer(a, b) == a.lo > b.lo \/ (a.lo = b.lo /\ a.hi > b.hi)
time_stamp_is_newer_than(a, b) == a.hi > b.hi \/ (a.hi = b.hi /\ a.lo > b.lo)

--------------------------------------------------------------------------------
(* io_init and io_create_file: every page is wiped and free.               *)
Init ==
  /\ db \in Databases
  /\ phase = "running"
  /\ status = [f \in Files |-> [p \in PageNumbers |-> "FREE"]]
  /\ nfree = [f \in Files |-> NumberOfPages]
  /\ total = NumberOfFiles * NumberOfPages
  /\ cursor = [f \in Files |-> 0] /\ fileCursor = 0
  /\ prevRoot = NoPage
  /\ stamp = [hi |-> 0, lo |-> 1]
  /\ search = NoSearch
  /\ disk = [f \in Files |-> [p \in PageNumbers |-> Unused]]
  /\ pending = {}
  /\ newest = NoPage /\ committed = {} /\ roots = 0 /\ crashes = 0

(* The scans for a FREE page: from the cursor on, cyclically.              *)
FreeIn(f) == {p \in PageNumbers : status[f][p] = "FREE"}
PagesAhead(f, p) == (p + NumberOfPages - cursor[f]) % NumberOfPages
FirstFree(f) == CHOOSE p \in FreeIn(f) : \A q \in FreeIn(f) : PagesAhead(f, p) <= PagesAhead(f, q)
FilesAhead(f) == (f + NumberOfFiles - fileCursor) % NumberOfFiles
FirstFile(fs) == CHOOSE f \in fs : \A g \in fs : FilesAhead(f) <= FilesAhead(g)

(* The files with room for this page and the root block.                   *)
WithRoom == {f \in Files : nfree[f] > 1}

(* Where io_write_page puts a page.  Round robin looks for a free page in  *)
(* the files one after the other; with load balancing the file is any with *)
(* room, and the page is the one under the cursor if none is free.         *)
Targets ==
  IF LoadBalancing
  THEN {<<f, IF FreeIn(f) = {} THEN cursor[f] ELSE FirstFree(f)>> : f \in WithRoom}
  ELSE LET fs == {f \in WithRoom : FreeIn(f) # {}} IN
       IF fs = {} THEN {} ELSE {<<FirstFile(fs), FirstFree(FirstFile(fs))>>}

(* The cursors move past the page taken, to the next file.                 *)
Advance(t) ==
  /\ cursor' = [cursor EXCEPT ![t[1]] = (t[2] + 1) % NumberOfPages]
  /\ fileCursor' = (t[1] + 1) % NumberOfFiles

Stop(why) ==
  /\ phase' = why
  /\ UNCHANGED <<spaceVars, stamp, search, diskVars, ghostVars>>

io_write_page ==
  /\ phase = "running" /\ total # 0
  /\ \E t \in Targets :
       /\ status' = [status EXCEPT ![t[1]][t[2]] = "ALLOCATED"]
       /\ Advance(t)
       /\ nfree' = [nfree EXCEPT ![t[1]] = Dec(@)]
       /\ total' = Dec(total)
       /\ pending' = pending \cup {t}
  /\ UNCHANGED <<phase, prevRoot, stamp, search, disk, ghostVars>>

(* No page free at all: the program says so and ends.                      *)
WriteFull == phase = "running" /\ total = 0 /\ Stop("full")
(* The search found nothing: assert(0), or with load balancing the use of  *)
(* fastest_file, which has no value.                                       *)
WriteAsserts == phase = "running" /\ total # 0 /\ Targets = {} /\ Stop("assert")

(* Writes that reached the disk.                                           *)
Landed(ts) ==
  [f \in Files |-> [p \in PageNumbers |-> IF <<f, p>> \in ts THEN Data ELSE disk[f][p]]]

(* Mutant: the old root block's page is freed before the new one is        *)
(* written, and may be chosen for it.                                      *)
RootTargetsOverOld ==
  IF prevRoot # NoPage THEN {prevRoot}
  ELSE LET fs == {f \in Files : FreeIn(f) # {}} IN
       {<<f, FirstFree(f)>> : f \in IF fs = {} THEN {} ELSE {FirstFile(fs)}}

(* Where io_write_root puts the root block: as io_write_page, but in the   *)
(* last page of a file too.                                                *)
RootTargets ==
  LET fs == {f \in Files : FreeIn(f) # {}} IN
  {<<f, FirstFree(f)>> : f \in IF fs = {} THEN {} ELSE {FirstFile(fs)}}

Plus(n, f, t) == IF t # NoPage /\ t[1] = f THEN Inc(n) ELSE n

(* Mutant: the total misses the page of the old root block.                *)
TotalWithoutOld == Dec(total)
TotalAfterRoot == IF prevRoot = NoPage THEN Dec(total) ELSE total

(* io_write_root: all pages first, then the root block in a page of its    *)
(* own; then the page of the old root block is free.  refs are the pages   *)
(* the new root block refers to.                                           *)
io_write_root(refs) ==
  /\ phase = "running" /\ roots < MaxRoots /\ total # 0
  /\ \E t \in RootTargets :
       LET old == prevRoot
           taken == [status EXCEPT ![t[1]][t[2]] = "ROOT"] IN
       /\ status' = IF old = NoPage THEN taken ELSE [taken EXCEPT ![old[1]][old[2]] = "FREE"]
       /\ nfree' = [f \in Files |-> Plus(IF f = t[1] THEN Dec(nfree[f]) ELSE nfree[f], f, old)]
       /\ total' = TotalAfterRoot
       /\ Advance(t)
       /\ disk' = [Landed(pending) EXCEPT ![t[1]][t[2]] = RootBlock(stamp)]
       /\ prevRoot' = t /\ newest' = t
  /\ pending' = {}
  /\ stamp' = increment_root_time_stamp(stamp)
  /\ committed' = refs
  /\ roots' = roots + 1
  /\ UNCHANGED <<phase, search, crashes>>

RootFull == phase = "running" /\ total = 0 /\ roots < MaxRoots /\ Stop("full")

(* shades.c frees pages of twice-collected generations, which the last     *)
(* root block may well refer to, between io_write_root and the next write  *)
(* of a page (flush_batch) or when it has recovered.                       *)
io_free_disk_page(t) ==
  /\ phase = "running" /\ pending = {}
  /\ status[t[1]][t[2]] = "ALLOCATED"
  /\ status' = [status EXCEPT ![t[1]][t[2]] = "FREE"]
  /\ nfree' = [nfree EXCEPT ![t[1]] = Inc(@)]
  /\ total' = Inc(total)
  /\ UNCHANGED <<phase, cursor, fileCursor, prevRoot, stamp, search, diskVars, ghostVars>>

--------------------------------------------------------------------------------
(* A crash, any of the pending writes done; then io_init and io_open_file. *)
Restart ==
  /\ phase \in {"running", "full", "assert"} /\ newest # NoPage /\ crashes < MaxCrashes
  /\ \E done \in SUBSET pending : disk' = Landed(done)
  /\ pending' = {}
  /\ status' = [f \in Files |-> [p \in PageNumbers |-> "UNKNOWN"]]
  /\ nfree' = [f \in Files |-> 0] /\ total' = 0
  /\ cursor' = [f \in Files |-> 0] /\ fileCursor' = 0
  /\ prevRoot' = NoPage
  /\ stamp' = [hi |-> 0, lo |-> 1]
  /\ search' = NoSearch
  /\ phase' = "leftmost"
  /\ crashes' = crashes + 1
  /\ UNCHANGED <<newest, committed, roots>>

--------------------------------------------------------------------------------
(* io_read_root.  S is the search, On(p) what is on page p of its file.    *)
S == search
On(p) == disk[S.i][p]
StampOf(f, p) == [hi |-> disk[f][p].hi, lo |-> disk[f][p].lo]

searching(next, s) ==
  /\ phase' = next /\ search' = s
  /\ UNCHANGED <<spaceVars, stamp, diskVars, ghostVars>>

(* On to the next file, or out of the loop: the page of the root block is  *)
(* marked, and its file's counter, zero since io_open_file, decremented.   *)
NextFile(root, rootStamp, cur) ==
  IF S.i < NumberOfFiles - 1
  THEN /\ phase' = "leftmost"
       /\ search' = SearchIn(S.i + 1, root, rootStamp)
       /\ cursor' = cur
       /\ UNCHANGED <<status, nfree, total, fileCursor, prevRoot, stamp, diskVars, ghostVars>>
  ELSE /\ phase' = "declare"
       /\ search' = NoSearch
       /\ cursor' = cur
       /\ prevRoot' = root
       /\ status' = [status EXCEPT ![root[1]][root[2]] = "ROOT"]
       /\ nfree' = [nfree EXCEPT ![root[1]] = Dec(@)]
       /\ stamp' = increment_root_time_stamp(StampOf(root[1], root[2]))
       /\ UNCHANGED <<total, fileCursor, diskVars, ghostVars>>

(* found_newest_root_in_this_file: the newer of the two ends.              *)
FoundInFile ==
  LET l == StampOf(S.i, S.left)
      r == StampOf(S.i, S.right)
      useRight == S.rightValid /\ time_stamp_is_newer_than(r, l)
      p == IF useRight THEN S.right ELSE S.left
      ts == IF useRight THEN r ELSE l
      better == time_stamp_is_newer_than(ts, S.rootStamp) IN
  NextFile(IF better THEN <<S.i, p>> ELSE S.root, IF better THEN ts ELSE S.rootStamp,
           [cursor EXCEPT ![S.i] = p])

(* search_leftmost_root.                                                   *)
SearchLeftmost ==
  /\ phase = "leftmost"
  /\ IF On(S.left).cookie = "ROOT"
     THEN searching("range", S)
     ELSE IF S.left + 1 = NumberOfPages \/ On(S.left) = Unused
          THEN NextFile(S.root, S.rootStamp, cursor)
          ELSE searching("leftmost", [S EXCEPT !.left = @ + 1])

(* left_or_right_page_changed.                                             *)
HalveRange ==
  LET m == (S.left + S.right) \div 2 IN
  /\ phase = "range"
  /\ IF S.left = S.right
     THEN FoundInFile
     ELSE searching("mid", [S EXCEPT !.firstDir = S.dir, !.firstMid = m, !.mid = m])

(* Mutant: the scan never turns round.                                     *)
SameDirection(d) == d
Opposite(d) == IF d = "RIGHTWARD" THEN "LEFTWARD" ELSE "RIGHTWARD"

(* A data page: scan on in the same direction; from the end of the range   *)
(* turn back once, to the other side of where the scan began.              *)
ScanOn ==
  LET right == S.dir = "RIGHTWARD"
      m == IF right THEN S.mid + 1 ELSE S.mid - 1
      end == IF right THEN S.right ELSE S.left
      back == IF right THEN S.firstMid - 1 ELSE S.firstMid + 1
      otherEnd == IF right THEN S.left ELSE S.right IN
  IF m # end THEN searching("mid", [S EXCEPT !.mid = m])
  ELSE IF S.firstDir # S.dir \/ back = otherEnd THEN FoundInFile
  ELSE searching("mid", [S EXCEPT !.mid = back, !.dir = Opposite(S.dir)])

(* A root block: it becomes the left end if it is newer, else the right.   *)
NarrowToRoot ==
  searching("range",
    IF time_stamp_is_newer_than(StampOf(S.i, S.mid), StampOf(S.i, S.left))
    THEN [S EXCEPT !.left = S.mid, !.dir = Opposite(@)]
    ELSE [S EXCEPT !.right = S.mid, !.rightValid = TRUE, !.dir = Opposite(@)])

(* A page not written yet: everything is to the left of it.                *)
NarrowToUnused == searching("range", [S EXCEPT !.right = S.mid, !.rightValid = FALSE])

(* mid_page_changed.                                                       *)
ProbeMid ==
  /\ phase = "mid"
  /\ CASE S.mid = S.left             -> FoundInFile
       [] S.mid # S.left /\ On(S.mid) = Data -> ScanOn
       [] S.mid # S.left /\ On(S.mid) = Unused -> NarrowToUnused
       [] OTHER                      -> NarrowToRoot

(* The rest of recovery: the pages the root block refers to are declared   *)
(* allocated, then io_declare_unallocated_pages_free.                      *)
io_declare_unallocated_pages_free ==
  LET unknown(f) == {p \in PageNumbers : status[f][p] = "UNKNOWN" /\ <<f, p>> \notin committed}
      gained == Cardinality({t \in DiskPages : t[2] \in unknown(t[1])}) IN
  /\ phase = "declare"
  /\ status' = [f \in Files |-> [p \in PageNumbers |->
       IF <<f, p>> \in committed THEN "ALLOCATED"
       ELSE IF p \in unknown(f) THEN "FREE" ELSE status[f][p]]]
  /\ nfree' = [f \in Files |-> (nfree[f] + Cardinality(unknown(f))) % Word]
  /\ total' = (total + gained) % Word
  /\ phase' = "running"
  /\ UNCHANGED <<cursor, fileCursor, prevRoot, stamp, search, diskVars, ghostVars>>

io_read_root == SearchLeftmost \/ HalveRange \/ ProbeMid

Allocated == {t \in DiskPages : status[t[1]][t[2]] = "ALLOCATED"}
Client ==
  \/ io_write_page \/ WriteFull \/ WriteAsserts
  \/ \E refs \in SUBSET Allocated : io_write_root(refs)
  \/ RootFull
  \/ \E t \in DiskPages : io_free_disk_page(t)
Recovery == io_read_root \/ io_declare_unallocated_pages_free

Next == (Client \/ Restart \/ Recovery) /\ UNCHANGED db

(* Nothing but a crash stops recover_db.                                   *)
Spec == Init /\ [][Next]_vars /\ WF_vars(Recovery /\ UNCHANGED db)

--------------------------------------------------------------------------------
(* io_read_root finds the last root block written, although old root       *)
(* blocks with older time stamps are still in all files, pages between     *)
(* them were overwritten by data, the cursors have gone round, and the     *)
(* time stamps have carried.                                               *)
NewestRootFound == phase = "declare" => prevRoot = newest

(* The last root block stays as it is until the next one is on disk: no    *)
(* write is directed to it, whichever pages the client gives back.  The    *)
(* pages it refers to may be given back and written again (Shades says     *)
(* when that does harm), but then with data, never with a root block.      *)
LastRootUntouched ==
  newest # NoPage =>
    /\ disk[newest[1]][newest[2]].cookie = "ROOT"
    /\ newest \notin pending \cup committed
    /\ \A t \in committed : disk[t[1]][t[2]] = Data

(* number_of_free_disk_pages is the number of free pages, and the only     *)
(* page kept for a root block is that of the last one: old root blocks are *)
(* given back once, whether they were written before a crash or since.     *)
(* The counter of a file is at most one too low, which it may be after a   *)
(* recovery; so io_write_page gives up at its assert(0) only if every file *)
(* has at most two free pages.                                             *)
FreePagesCounted ==
  phase \in {"running", "assert"} =>
    /\ total = Cardinality({t \in DiskPages : status[t[1]][t[2]] = "FREE"})
    /\ {t \in DiskPages : status[t[1]][t[2]] = "ROOT"} = {newest} \ {NoPage}
    /\ \A f \in Files : LET n == Cardinality(FreeIn(f)) IN
         /\ nfree[f] \in {n, Dec(n)}
         /\ n > 2 => phase # "assert"

(* The search of io_read_root comes to an end.                             *)
SearchEnds == phase = "leftmost" ~> phase = "running"

(* "`io_write_page' allocates "free" disk pages into "allocated"".         *)
OnlyFreePagesTaken ==
  [][\A t \in pending' \ pending : status[t[1]][t[2]] = "FREE"]_vars
================================================================================
