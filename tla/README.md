# HiBase: a TLA+ verification project

HiBase (`src/hibase-0.1.3/`) is a main memory database in one process.  The
database is a heap of cells that lives in memory pages; a generational,
*incremental* copying collector moves it, and a group commit makes it durable:
the first generation is collected into new pages, the pages are written, and
then one root block.  Recovery reads the root block and replays the collections
that were made since, because only new pages are ever written and pointers in
old ones are not updated on disk.

This directory holds TLA+ modules translated from the C source, TLC
configurations for them and proofs checked by TLAPS.

## 1. Inventory

| component | source | state | operations | modelled in |
|---|---|---|---|---|
| asynchronous I/O | `asyncio-pthread.c` | per file two linked queues of aio nodes, counters, two threads; one free list; the shared file offset | `asyncio_write_page`, `asyncio_read_page`, the two drains, the threads | `AsyncIo`, abstractly `WriteBehind` |
| its alternatives | `asyncio-posix.c`, `asyncio-dummy.c` | a list of pending and one of free requests; none | the same interface | `AsyncPosix`, abstractly `WriteBehind` |
| disk I/O | `io.c`, `root.c` | page status and cursor per file, place of the next root block | page allocation, write, read, root write, root search | `Io`; its clients in `AsyncIo` and `Shades` |
| storage manager | `shades.c` | generation table, age list, page table, free list, first generation, remembered sets, pinfo lists, collector position | `allocate`, `flush_batch`, `major_gc`, `recover_db` | `Shades` (generations and pages), `CopyGc` (cells) |
| cells, tagged words, smart pointers | `cells*.{c,h}`, `tagged.c`, `smartptr.c` | cell layouts; the ring of registered root pointers | scanning, tagging | `Shades`, `CopyGc` |
| AVL tree | `avl.c` | a functional tree in cells | find, insert, delete, the same from byte code | `Avl` |
| 2-3-4 tree | `ist234.c` | a functional tree in cells | find, minimum, insert, delete | `Ist234` |
| tries | `trie.c`, `triev2.c` | functional tries in cells, of four sons or of one to four | find, neighbours, insert, delete, sets of keys | `Trie`, `TrieV2` |
| dynamic hashing | `dh.c` | a functional tree of leaves with many keys | find, insert, delete | `Dh` |
| queues, priority queue | `queue.c`, `lq.c`, `list.c`, `priq.c` | cells | insert, remove, merge | `Queue`, `Lq`, `Priq` |
| strings | `shtring*.c` | windows into trees of chunks of text | create, catenate, copy, trim, compare, hash, intern, cursors | `Shtring` (without cursors) |
| object identifiers | `oid.c` | a trie of values, a free list, a cursor, counters | allocate, dispose, reference, update | `Oid` |
| byte code | `interp.c`, `insn-*.h`, `asm*` | contexts of ready threads, a queue per priority; blocked ones by identifier | `interp`, spawn, yield, block, wake, die, recover | `Interp` (the scheduler) |
| network | `net.c` | table of connections, a ring of chunks for each direction, the sets for `select`, wakeups | listen, accept, read, write, close, poll, get a wakeup | `NetBuffer`, `Net` |
| parameters, bit operations, vendored code, tests | `params.c`, `bitops.c`, `obstack.*`, `alloca.c`, `random.c`, `test_*.c` | - | - | not modelled |

How they interact.  The main thread runs everything but the I/O threads.
`flush_batch` calls the collector, which asks `io.c` for a disk page per new
page; `io.c` picks one and hands the write to `asyncio`, whose thread reads the
page *from the heap* later.  `io_write_root` drains the writes and writes the
root block itself.  The drain and the threads communicate through a mutex and
condition variables per queue.  Recovery calls back into `io.c` and the collector.
The interpreter is a loop on top: it runs a byte code sequence, polls `net.c`,
moves the threads whose connections woke from the trie of blocked threads to a queue, and picks
the next; its tables are in the root block, the connections are not.

What is hard here, and what must therefore hold:

* **threads, one offset.**  The descriptors are `dup()`s, so all users of a file
  share one offset between `lseek` and `write`; nodes are recycled through one
  list; a drain may be told before it waits.  A page must reach its place, the
  root block must come after its pages, lists must stay lists, drains must return.
* **late reads of memory.**  A page must not change between the request to write
  it and the write.
* **group commit and reuse.**  A disk page named by the durable root block must
  not be overwritten before another root block is durable, although collection
  frees pages all the time.
* **incremental collection across commits.**  The age list, the status of the
  generations and the collector's position must agree after any number of commits.
* **recovery by replay.**  Generations come back at the addresses they had, which
  overlap over time; following the pinfo lists needs the right page in place at
  the right moment; the result must be what was committed.
* **functional data structures.**  Old versions must stay valid whatever is made of
  them; work is put off (queues transfer or unpack later) or cut short (an AVL
  insertion stops at its rotation), so errors show many operations later.
* **cells that move.**  A collection step moves a few generations; pointers into
  them from newer ones must all be known, and recovery must repeat every
  redirection of a pointer in pages that were written before it happened.
* **requests the system serves.**  With `asyncio-posix.c` they finish in any order
  or are refused; the nodes of refused ones are on the same list.
* **green threads and sockets.**  A thread that blocks is known to its connection by
  number only; writes go on without it, a poll may find several reasons to wake
  it, a descriptor closed may still be polled, and after a crash the threads are
  there and their connections are not.  No thread may be lost or run twice and
  no byte of a stream lost, doubled or reordered.
* **limits.**  Words reserved before an operation, page counters, the generation table, disk pages.

`PROJECT.json` lists these hazards by source line with the properties that
answer them.

## 2. Plan

In this order, most important behaviour first:

1. `WriteBehind` and `AsyncIo` with proofs (done).
2. `Shades`: commit, collection and recovery of generations (done).
3. `Io`: disk pages over several files; root blocks, their places and the search
   for the newest one; time stamps that carry (done).
4. `AsyncPosix`: the requests of `asyncio-posix.c` as a second implementation of
   `WriteBehind` (done).
5. `CopyGc`: cells, remembered sets, collection steps against an immutable graph
   reachable from the roots, and replay (done).
6. The access methods, queues, strings and oids against a finite map, a sequence,
   a multiset or a text, composed in `DataStructures`; and what their headers promise
   and the code does not do, in `HeaderClaims` (done).
7. `NetBuffer`, `Net` and `Interp`: the network interface and the scheduler, with the
   server of `test_net.s` (done).
8. More proofs: that `AsyncIo` implements `WriteBehind`; the safety of
   `AsyncPosix` and that it implements `WriteBehind` too; the root blocks and the
   page accounting of `Io`; that `Queue` is a queue (done).
9. Page accounting, the order of collection and the durability of committed pages
   of `Shades`; that the replay of `recover_db` rebuilds the committed state, and with
   it the former through any number of crashes (done).
10. Not done: the ring of `NetBuffer` and the copying of `CopyGc` without recursive
   operators, to prove `StreamsIntact` and `HeapFaithful`.

Modules that are proved about have no `RECURSIVE` operators, assumptions on the
constants by name, and invariants made of named parts.

## 3. Modules and the code

### WriteBehind
What the storage manager relies on: per file a FIFO of accepted page writes, of
which the oldest may land at any time (`Land`); `Submit` accepts one with the
contents the page has *then*; a root block is committed (`Commit`) only when all
queues are empty, and then covers exactly the disk as it is.

### AsyncIo
`asyncio-pthread.c` and its one client.  `head`, `tail`, `pending`, `freeAios`
and `node` are the C variables of the same purpose, `tpc`/`cur` the position and
the local `aio` of each thread, `mpc`/`call` those of the main thread, `offset`
the file offset shared by all descriptors.  A critical section is one action:
nothing inside it blocks except `pthread_cond_wait`, which ends it.  `lseek` and
`write`/`read` are separate actions.  `asyncio_write_page` is two actions
(`WritePage` takes the node under one lock, `Enqueue` links it under another),
`writer_thread` and `reader_thread` are `Pop`, `Wait`, `Seek`, `Transfer`,
`Release`, `Finish`; a drain is `StartDrain`, `DrainFile` per file and wakeup,
`DrainReturn`; the root block is the main thread's `RootSeek` and `RootWrite`.

What the client does is taken from `shades.c`: disk pages are freed only after a
root block, so none is written twice between two; memory pages are changed only
after `io_allow_page_changes` or `io_write_root`; reads happen in recovery only.
History variables (`queued`, `freed`, `lent`, `written`, `want`, `committed`,
`asked`) state the properties and guard nothing but this contract.  A failed
system call ends the program and is left out.

### Shades
`shades.c` at the level of generations and pages.  A generation is a sequence of
memory pages with a disk page each; `order` stands for the younger/older links;
a page holds a fresh number (`uid`) and the pinfo cells allocated in it, whose
pointers are (page, slot) pairs that `collect_first_generation` relocates.
`flush_batch` is cut at the points where a crash can make a difference:
`collect_first_generation`, `io_write_root`, `StartGroup`, then the steps of
`major_gc`.  `Restart` is the crash together with the start of `recover_db`; the
recursion of `rvy_batch` is the explicit stack `rvyStack`, split at the recursive
call.  Disk page allocation is `io_write_page`'s round robin on one file.

Abstractions: how many pages survive a collection and how many steps the effort
heuristic allows are nondeterministic within the code's limits; the contents of
cells other than pinfos is one number per page.  A collection that was only
announced is forgotten by recovery, as the comment at `shades.c:2376` concedes.
`allow_additional_generationality` (off by default) is left out, and so are the
copies of pinfo cells made when their own generation is collected.

`Spec` lets the process crash at every moment, in the middle of an earlier recovery
too, but one: after disk pages of twice collected generations were overwritten and
before the next root block (`NeededPagesIntact`).
`AnyCrashSpec` has no such restriction (see the findings).

### Io
`io.c` and `root.c` in the build with `OPTIMIZED_ROOT_LOCATION`, where root blocks
lie among the data pages of all files.  `status`, `nfree`, `total`, `cursor`,
`fileCursor`, `prevRoot` are the C variables of the same purpose, `stamp` the time
stamp of the root block in memory; the counters are unsigned, so they are kept
modulo `Word`, and the low word of a time stamp carries at `StampWord`.
`io_write_page` takes a page by round robin or, with `LoadBalancing`, in any file
with room (which file the disks' load makes best is not modelled).
`io_read_root` is one action per label of its search: `SearchLeftmost`,
`HalveRange` and `ProbeMid`, with the locals of the function in `search`.
The client is that of `shades.c`: a root block refers to allocated pages, and pages
are freed when nothing is outstanding, right after a root block or at the end of a
recovery.  They may be pages that the last root block refers to, as those of twice
collected generations are (finding 1), and are then reused before the next one.
A crash leaves any subset of the accepted writes on disk; root blocks are taken
to be written whole, as they fit in a disk block.

A behaviour chooses its database (number and size of files, bounds) from
`Databases` at the start, so that one run covers several.

### AsyncPosix
`asyncio-posix.c` and the same client as in `AsyncIo`.  `list_of_free_aios`,
`list_of_pending_aios` and `HAVE_SOLARIS` are the variables of the code, the last
one a build flag that a behaviour chooses once; `request` is what a node was filled
with and `state` what the system has made of it.  The system is external: it
serves requests in any order (`Complete`), or refuses one (`Issue`), after which
the main thread does the transfer itself (`SyncTransfer`).  A drain is
`StartDrain`, `DrainAio` per node and `DrainReturn`; `PosixWait` waits for the node
of its turn, `SolarisWait` for any request.  What `aio_return` says of a request
that was never made is not defined, so both are possible; a drain that fails
exits the program (`mpc = "exited"`).

### CopyGc
The collector of `shades.c` at the level of cells.  A generation is the sequence of
its cells in the order they were copied, which is their order in memory.
`copy_cell`, `drain_copy_stack`, `PREPEND_TO_REM_SET` and their `rvy_` counterparts
are operators on a record of heap, remembered sets and copy stack; `flush_batch`,
`mark_major_gc_generations`, `major_gc_step(n)` for any number n of generations and
`LeaveMajorGc` are the actions, between those of clients: `allocate`, `Assign` to a
cell of the first generation, `SET_ROOT_PTR`, which also stands for
`smart_ptr_assign`.  `graph` and `rootIds` are what clients built.

Recovery is not an action of its own.  `replica` is what it would have rebuilt if
the program crashed now: every collection that is committed is replayed there with
`Replay` from the cells as they were written (`image`).  `nextReplica` becomes the
replica when the next major collection moves the base of recovery.  `Spec` leaves
out the collections in which the last cell copied from the roots has no pointers
(`LeafLast`), which `AnyRootsSpec` has (finding 5).

### The data structures
`Queue`, `Lq`, `Priq`, `Avl`, `Ist234`, `Trie`, `TrieV2`, `Oid`, `Dh`, `Shtring`, composed
in `DataStructures`.
The operations are operators with the names they have in C, from a structure to
the structure returned; the state is the client's, which has a structure and, as
history, what it should hold.  `DataStructures` puts them under one
specification, each behaviour using one.

* `Queue`: lists are sequences; a loop that moves k keys from one list to another
  is a reversal of the first k.  `CellQueueRev` has the fields of a transfer that
  is under way.
* `Lq`: a list of trees is a sequence; the four cell types are told by whether a
  tree has sons and by its position.  `Unpack` is the loop at the label `unpack`.
* `Priq`: cells one by one, because `merge` assigns to some: `cells` grows by
  allocation, and a failed operation cuts it back to the allocation point.
  `MergeLoop` is both loops of `merge`; `good` says after how many comparisons
  `item_cmp` fails.  The client keeps all versions.
* `Avl`: trees are nested records with the heights stored in the cells.  A rotation
  changes the node it is given; nothing else depends on assignment, so values
  suffice, and `Demoted` is what the changed node has become.  `AvlNext` uses
  `avl_delete` where it does not rotate the root, `AvlAnyDelete` everywhere
  (finding 3).
* `Ist234`: a version is the sequence of its cells, because `ist234_delete` assigns
  to nodes it has copied; the locals of that function are the record that
  `IstStart` makes, its labels are operators (`DeleteFind`, `DeleteCopy`,
  `DeleteKey`, `ReplaceItem`, `Join`, `DeleteLeaf`).  `IstAnyInsert` also inserts
  what the second key's nilpotence test mistakes for no change (finding 7).
* `Trie`: a heap of nodes, as the set operations assign to them; `TrieStart` has the
  locals of these, and keys are sequences of digits of two bits.  The length of a
  key and of a prefix are constants, so that a path has several prefixes already in
  short keys.
* `TrieV2`: the cell type is the set of digits a node has sons for, and `offset`,
  `deoffset`, `greatest_non_null`, `first_nonexistent_key` are the tables computed
  from it; the 64 cases of the switches in insertion and replacement are
  `V2WithSon`.
* `Oid`: the five places an oid can come from are the disjuncts of `OidAllocate`, in
  the order of the code; the map is a `TrieV2`.  Random numbers are any.
  `oid_update` is in an action of its own, `OidUpdates` (finding 10).
* `Dh`: trees are values; `words` counts what an insertion allocates.  `DhNext`
  deletes a key only when there is no other one, `DhAnyDelete` any (finding 9); `DhFill`
  inserts only (finding 4).
* `Shtring`: trees are values; a set of shtrings grows with the text each should
  have.  Operations that allocate return the words they took, failed assertions are
  `Abort`, unwritten words are `Junk`.  `shtring_create` refuses a
  text longer than half of `first_generation_size`.  `ShtringNext` calls operations where they
  work as documented; where they do not is said by `CatsWell`, `EndsWell`,
  `MinimalSubtreeExists` and `HashesOwnText` (section 7).  `ShtringAnyCat` and `ShtringAnyTrim`
  have the other catenations and trims (findings 11 and 12).

`HeaderClaims` has a client that calls the operations of six of these modules where they
do not work.  It tries nine claims of the headers and comments in turn, each from an
empty structure, and goes on to the next when the one at hand is found broken
(`Broken`).  That it never gets to the end, `SomeClaimKept`, is refuted by a behaviour that
breaks all nine.

### NetBuffer, Net, Interp

`NetBuffer` is the buffers of `net.c`: the ring is a sequence that starts with the
chunk to read, a byte read is 0 from then on; `read_to_buffer` computes the vectors
for `readv` as the code does.  `Net` is the rest of `net.c`: the state of the interface is one record, a call an
operator from it to the new state and the error it returns; `net_write_char`,
`net_write_shtring`, `net_read_char`, `net_read_shtring` are `net_write_mem` and
`net_read_mem` (a string that memory is short for is `net_read_shtring_short`).
The caller names the free handle a new connection gets; a descriptor is known by
its connection's handle.  `wakeup_handle` is left out: the connections below it
have nothing left to report.  Sockets and peers are external: a socket
takes `SocketRoom` bytes before a write blocks, and a peer may send, receive, close and reset.

`Interp` is the loop of `interp`: `pc` is the label it is at, `cont` the context in the
registers, `root` what the root block in memory holds.

| code | action |
|---|---|
| a byte code sequence of `test_net.s` | `daemon`, `daemon1`, `responder1`, `responder2`; the last step is one of `RUN_CONT`, `YIELD_CONT`, `BLOCK_CONT`, `DIE_CONT` |
| `net_read_shtring` with `FLUSH_AND_RETRY_CONT` | `responder1retry` |
| `net_close` | `close` |
| `die_cont:` the poll, one wakeup, the flush between them, the end | `Poll`, `WakeUp`, `FlushDuringWakeups`, `AfterWakeups` |
| the choice of the next thread | `Pick` |
| `flush_and_run_cont:`, `recover_cont:` | `CrashInFlush`, `CrashAndRecover` |

The server reads one character at a time; here a responder may read several and
close its connection.  An assertion that fails ends the behaviour (`"failed"`).  A crash
takes the interpreter back to the last commit; what happened since leaves no
trace, so the crash is taken with the commit.

## 4. Runs

| run | what it shows |
|---|---|
| `asyncio` | one file, two threads and the main thread, two pages, so that a queue holds two requests: `WakeupFindsRequest`, `ListsAreSeparate`, `RootCovered`, `ReadsArrive`, `DrainReturns` (liveness), `PromiseKept` (refinement of `WriteBehind`); the invariants are proved for any number of files |
| `asyncio_posix` | both builds, two requests at once, one refused: `FreeAiosFinished`, `ReadsArrive`, `PromiseKept` (refinement of `WriteBehind`), `DrainEnds` (liveness) |
| `asyncio_spurious` | finding 6 |
| `shades` | eight commit groups, two crashes, the second one at any point of the first recovery too: page accounting in memory and on disk, the order of collection, durability of committed pages of generations not collected twice, recovery in place and faithful |
| `shades_any_crash` | finding 1 |
| `copygc` | three cells, three commits, two major collections: `HeapFaithful` (clients find the graph they built), `RememberedSets` (complete and exact), `ReplayRebuilds` (recovery arrives at the same cells in the same places) |
| `copygc_replay` | finding 5 |
| `io` | two files of three pages and five root blocks, or one file of five pages, seven root blocks and two crashes: page accounting, the last root block untouched, the newest root block found, the search ends |
| `io_load` | finding 2 |
| `data_structures` | every sequence of operations within the bounds on each structure: contents, order, shape and balance, persistence of old versions, agreement of the direct and the byte code operations, allocations within what is reserved |
| `interp` | the echo server, one connection at a time besides the listening one, two of them in turn, a crash: `NoThreadLost`, `StreamsIntact`, `EchoReturns` (liveness) |
| `header_claims` | findings 3, 4 and 7 to 13: one behaviour that breaks nine claims of the headers and comments, one after the other; `DH_MAX_ALLOCATION` with the sizes of `dh.h` |

**Bounds.**  `AsyncIo`: two nodes are enough for a node to move between queues
with a stale tail left behind, for two threads to be busy at once and for a queue
of two; two contents tell a page written too late from one written in time.
`Shades`: six memory pages, ten disk pages, one page per commit, eight commits
and two crashes; generations reach `COLLECTED_TWICE` and are purged, steps merge
two generations and more, recovery goes through the base round and through
replayed steps, and crashes happen during a recovery and during a collection that
recovery resumed.
`Io`: time stamps carry every third root block; the cursors go round every file
at least once; a scan that turns round needs a range of at least four pages,
which the run with five pages has.
`DataStructures`: 26 insertions with any removals between them take the real time
queue through transfers of 2 to 12 keys with every parity, 22 the logarithmic
queue to trees of height 3; six operations, one of them a merge of two versions,
make the binomial heap carry through several heights; five trie keys of five digits
differ in the first, inner and last ones and prefixes have up to two digits, so
that paths of three nodes, splits of prefixes and all combinations after deletions
occur, with vectors of up to three keys; seven oids of five binary digits fill ranges of four,
so that the cursor, random ranges and the end are used; dynamic hashing has two
keys per leaf and three digits; strings of up to four chunks of two characters
give trees of two and three levels, three shtrings one catenation of parts.
One of the texts is too long to be made.
`Avl`: eight keys give trees of height 4 with all four rotations after insertions and
deletions, deletions that rotate below the root included (that needs eight; two
rotations in one deletion would need 13); the data of two of them is updated.  `Ist234`: the tenth key makes a third level;
with eleven, inner nodes are split and joined, `DeleteInternal` goes on below a join,
`ToTheEnd` goes down from inner nodes below the root, and nodes are filled from either
brother.  One key may have the data of another, so that an insertion may change nothing.
`AsyncPosix`: two requests at once, one refused, is what a drain can mix up.
`CopyGc`: three cells with two pointers each and one change let a cell of a newer
generation refer to two older ones and a pointer move through two collections.
`Interp`: chunks of one byte and a socket that takes one make three bytes go round
the ring, block a write twice and be read in parts; two handles make the second
connection take the handle of the first, or `accept` fail for want of one; one
jiffy between yields gives both continuing and yielding.

**Fairness.**  Weak fairness of each I/O thread (the operating system schedules
runnable threads, and a mutex held for a bounded time is obtained) and of the main
thread inside a call.  Nothing obliges the main thread to make a call.  `Io` has
weak fairness of recovery: `recover_db` waits for nobody.  `AsyncPosix` has weak
fairness of every request the system accepted, and of the main thread inside a call.
`Interp`: the interpreter, which waits for nobody longer than the timeout of
`select`, goes on until it returns or fails, and a peer reads what arrives.  Peers need not
send, and nothing is assumed of crashes.

**Deadlock** is checked for `AsyncIo`.  `Shades` ends when its bounds on commits
are used up or when memory or disk is full, where the program exits; so do
`Io`, `CopyGc` and the data structures.  `AsyncPosix` stops when a drain exits,
`Interp` when the interpreter returns or an assertion fails.

## 5. Proofs

`AsyncIoProofs`, for any number of files, pages, memory pages and nodes, from the assumptions of `AsyncIo` only (at least one file;
`NULL`, the root block and its place are distinct from the rest).

* `TypeCorrect`, `WakeupSafe`, `ListsSafe` rest on the invariant `Core`.  The type
  invariant is not inductive: that `pending` does not fall below zero needs
  `ThreadsCount` (it is the length of the queue plus one while the thread is
  busy), that `Pop` follows no null pointer needs that a woken thread has a
  request, and that lists stay lists needs that no two holders share a node
  (`HoldersDisjoint`) and that only nodes from `malloc` are in use.  The lists are
  related to the sequences `queued` and `freed` by `Links`; the lemmas on
  sequences and lists come first, then one lemma per action that changes a list.
* `RootSafe` and `ReadsSafe` rest on `Durable` on top of `Core`: each outstanding
  write's memory page still holds what is wanted at its disk page
  (`WritesWanted`), a disk page holds what is wanted or a write is outstanding
  (`DiskWanted`), a file is not read and written at the same time
  (`OneDirection`) - which is what makes the shared offset safe (`OffsetsKept`) -
  and files the drain has passed have nothing outstanding (`DrainProgress`).

* `ImplementsPromise` (`AsyncIoRefinement`): every step of `AsyncIo` is a step of
  `WriteBehind` or leaves its variables alone.  The queue of `WriteBehind` is what is
  queued and what the thread holds, with the contents that the memory page has; that
  these are still the contents at the time of the request is `Durable`.

`AsyncPosixProofs`, for both builds and any number of files, pages, memory pages and
nodes:

* `NodesSafe`, `FreeAiosSafe`, `ReadsSafe` and `PosixImplementsPromise` rest on
  one invariant: the free and the pending list share no node and hold no node twice, every
  request under way is of a pending node, the pages of the pending requests are
  distinct, and what a drain has passed is finished.  A node that was refused stays on
  the pending list without a request, which is why the invariant speaks of requests
  and nodes apart.

`QueueProofs`, for any number of insertions: `QueueSafe` rests on `QueueInv`.  That the
queue holds its keys in order is not inductive, since during a transfer the keys are in
five lists, some of them reversed and some twice.  `InTransfer` says how far each list
has come as a function of one counter, and `Progress` that the transfer is over before
the head runs out: an operation moves enough keys, in proportion to the lengths when the
transfer began.

`IoProofs`, for any number of files and pages, root blocks and crashes, from `Word` larger
than the number of pages and without load balancing (with it, `OnlyFreePagesTaken` and
with that the rest is false, finding 2):

* `RootFoundSafe` and `RootUntouchedSafe` rest on `Inv`, which does not depend on which
  allocated pages the client frees.  While the program runs, the root
  blocks of a file that no accepted write will destroy are ever newer on the way round
  from the file's cursor (`CursorsMean`), or from the page behind it right after a recovery,
  which leaves the cursor on the newest root block; a write passes only the newest one,
  because pages between the cursor and the first free page are not free (`NextPlace`).
  A crash may stop any of the accepted writes, so what is on disk is such a rotation
  from *some* page (`Rotated`), unwritten pages last (`UnusedLast`).  `Recovering` says of
  the binary search that root blocks outside the range are older than its left end
  (`InRange`) and that the scan from its middle has met none (`Scanned`); a rotation
  lets one comparison rule out a part of the range (`BetweenOlder`, `BeyondOlder`).
  Time stamps are compared as the numbers they stand for (`NewerIsGreater`).
* `FreePagesSafe` rests on `Counted` on top of `Inv`; unsigned arithmetic is dealt with once,
  in `IncDec`, and taking or giving back one page in `TakeOne` and `GiveOne`.
* `OnlyFreeSafe` is the action property that the run `io_load` refutes with load balancing.

`ShadesProofs`, `ShadesLog` and `ShadesRecovery`, for any number of memory pages, disk
pages and generations, pages per generation, commits, steps of the collector and
crashes, during recovery too: all seven properties of the run `shades` are theorems
(`RecoverySafe`, `RecoveryReadsSafe`, `PinfosSafe`, `PagesSafe`, `OrderSafe`, `CommittedSafe`,
`WritesStable`).  The one restriction is part of `Spec`, not of the theorems: a crash
finds the disk pages that the root block refers to as they were when it was written
(`Next`).  Finding 1 is that the code does not ensure this; `CommittedPagesIntact`, which is
proved, says for which pages it does: those of generations live or collected once, not
of those collected twice, which recovery may read too.

`ShadesProofs` has the running program.  `PagesAccounted`, `CollectionOrder`,
`CommittedPagesIntact` and `PagesBeingWrittenStable` are not inductive.  `Inv` says that generations that exist share no disk page
and no two live ones were collected from the same one (`TableOK`), that the page table is
the inverse of the live generations' pages (`OwnerOK`), that the age list holds exactly the
live generations with those to be collected last (`OrderOK`), and that `prev_to_gn` is
followed by the first of these (`CollectorOK`); `DiskOK`, `NumbersOK` and `FreeOK` tie disk pages,
generation numbers and the free list to that table.  All of it holds also of what the
root block promises (`SnapOK`), so that a faithful recovery starts from a good state; and
`CoreOK` says why freeing disk pages two collections late is safe: what the root block
needs belongs to generations collected at most once when it was written.  Each action has
one lemma.  The hardest is `major_gc_step`, which replaces a segment of the age list by one
generation (`StepRange`, `Spliced`) and frees the concatenation of its pages: what
`FlattenSeq` returns is a recursive function, and its elements and length are proved
from a minimal counterexample (`FlattenExists`, `Flattened`).

`ShadesLog` and `ShadesRecovery` have recovery, which runs the history of the lost process
again from cells that the process left in its pages.  No variable holds that
history: the pinfo cells are linked lists from younger to older, spread over pages that
may have been given to other generations since, and each tells of one generation
only.  A *log* is such a history written down: its events are the generations made, with the
address of the cell that describes each, which event collected it, and the list of
generations and the collector's place after each.  `LogOK` says which logs there are and
`RunLog` that one explains the state of the running program: the table, the list, the
collector's place, and the cells, which lie in the first generation or, once committed, on
the disk page where recovery will find them.  The lemmas of `ShadesLog` say that a log stays one when a new
generation, a collected segment or a switch of the lists is added.  `SnapLog` says of a log
that it is what the root block on disk leads to.

The invariant of recovery is `ReplayInv`: `Inv`, a log of the running program and one
of the root block, and while recovery runs one of the following about the latter.  `Down`:
`rvy_batch` is before event *j*, on its way to the oldest cell; later events are known,
its calls on the stack are those for them, and the generation with the next cell is
in memory.  `InBase`: the same in the oldest list, which ends in a generation that was live
at the beginning.  `Back`: on its way back it has rebuilt what the log says there was
after event *j*.  `RvyPages` and `RvyTable` hold throughout: what was read is what was
committed, and each page has the owner that read it last.  Each step
of `rvy_batch` and each collection replayed has its lemma, then the crash that begins
recovery (`RestartReplay`, `RootRead`) and the end of it (`RecoveredMemory`), from which the log of
the root block is the log of the running program again.

Only model-checked: `DrainReturns`, `DrainEnds`, `SearchEnds`, `EchoReturns` (liveness), and
everything about `CopyGc`, `Interp` and the other data structures, whose modules use recursive
operators (copying, trees, tries, the ring of `NetBuffer`): those are out of the prover's
reach.  `ReplayInv` itself is not checked by TLC, as it quantifies over logs; TLC checks
the seven properties.

## 6. Findings

1. `shades.c:1970`: disk pages of twice collected generations are freed right
   after the root block that still refers to them, and may be overwritten before
   the next root block; a crash in between makes recovery read other pages.
2. `io.c:913`: `io_read_root` decrements the free page counter of a file when it
   is still zero; it stays one too low, and wraps for a file without free pages.
   With load balancing `io_write_page` then writes over a page in use.
3. `avl.c:560`: `avl_delete` drops the result of a rotation at the root and with
   it a part of the tree.
4. `dh.h:66`: `DH_MAX_ALLOCATION` counts four keys per leaf where there may be 32.
5. `shades.c:1781`: replay counts pointers where it needs to count cells, and goes
   wrong when the last cell copied from the roots has no pointers.
6. `asyncio-pthread.c:401`: the threads test the queue with `if` around
   `pthread_cond_wait` and assert that it is not empty; POSIX permits wakeups without
   a signal.
7. `ist234.c:246`: for the second key of a node the test for an update that changes
   nothing compares with the data of the first, so that an update may be lost.
8. `ist234.c:53`: `ist234_find_min` returns the data of the smallest key, where
   `ist234.h:77` promises the key.
9. `dh.c:223`: `dh_delete` returns `NULL_PTR` whatever else is in the tree, though
   `dh.h:83` says "Return new root" and `test_dh.c` expects the other keys to stay.
10. `oid.c:192`: `oid_update` uses the tagged oid as key: it does not find the value
   it should replace and return.
11. `shtring.c:537`: `copy_chunk_text` gives `memcpy` words for bytes, so that a
   catenation that trims a chunk at the start of a word loses text.
12. `shtring.c:1303`: `find_last_non_ws` stops at the first non-space of a chunk, so
   that `shtring_trim_trailing` removes text.
13. `lq.c:26`: `lq_get_first` looks at the first tree of the tail, where the first
   item is only by chance, and fails an assertion when the tail is empty.

Each has a run of expectation "violation", named in section 4 (findings 3, 4 and 7 to 13
share `header_claims`); the passing runs keep away from the calls by a guard that says
which they are (`NeededPagesIntact`, no load balancing, `RotatesRoot`, `LeafLast`,
`LosesUpdate`, `DhLosesOthers`, `CatsWell`, `EndsWell`, no `SpuriousWakeup`, no `OidUpdates`,
no `lq_get_first`).

## 7. Further observations

Made while translating; the models have them as actions or specifications outside
the passing runs, or guards keep away from them.

* `io.c:438`: `io_write_page` checks that any file has a free page and then looks
  only at files with more than one; with one left in each it fails an assertion
  (`WriteAsserts`).
* `asyncio-posix.c:183`: a refused request stays on the pending list; the next drain
  asks for it, and what it is answered is not defined, so that it may exit the program
  although the caller has written the page itself.  `AsyncPosix` has this as an outcome
  (`mpc = "exited"`).
* `trie.c:1108`: the climb from an absent key may leave a node without sons
  (excluded by a guard in `TrieDeleteSetTo`), on which a later `trie_find_at_least` fails.
* `dh_find_min` takes the word `p[4]` whichever key is smallest.
* `shtring.c:623`: `trim_ends` copies the last chunk's text from the first and may
  return a lower tree than its caller asserts; `shtring.c:1022`: `hash_chunk` counts the
  wrong part of its first word; `shtring_trim_trailing` ignores the window's offset.

* `interp.c:587`: the thread of a wakeup is asserted to be blocked.  `net_write_mem`
  returns 0 with the descriptor in `write_set` when bytes stay in the buffer, so that a
  later wakeup may find the thread running or in a queue, and a connection that is
  both readable and writable wakes its thread twice (`WakeUpBy` with no context).
* `net.c:1380`: `net_close` blocks once while the buffer holds data, but nothing writes
  the buffer of a closing connection (`net.c:1453` asks for a connected one); the
  retried call drops it.  `net.h` says it "Blocks until all pending data to be written is
  written to the socket".
* `net.c:1455`: an error met while polling is kept in the connection and reported by
  the next call, and `net_get_wakeup` returns the same connection again meanwhile;
  the instruction `net_close` asserts that there is none (`CloseAfter`).
* `insn-def.h:1779`: each retry of `net_read_shtring` subtracts the length of the whole
  string read so far, not of the new part; right for one retry, which is what the model takes.
* `net.c:1316`: `net_do_connect` takes `EINPROGRESS` for an error, and
  `CONN_CONNECTING` is never assigned.
* after a recovery threads use the handles of connections that are gone, which
  is beyond the new, empty table of connections or fails an assertion of `net.c`.

## 8. Not modelled

Parameter parsing, bit operations, vendored library code and test programs have
no state other components depend on.  The instructions of the byte code, but for
`spawn`, `die`, the jumps between sequences and `net_*`, act on the accumulator and
the stack or call operations of other components; the assembler translates.  In
`net.c`, outgoing connections (no instruction makes one), a failing `malloc` and
thresholds changed on the way are left out.  String cursors are wrong from their creation on (the length of
a chunk is read with the macro for nodes), which leaves little to state.  In
`shades.c`, statistics, heap checks and the mapping of memory are left out, and
`allow_additional_generationality`, which is off by default.
