-------------------------------- MODULE AsyncIo --------------------------------
(***************************************************************************)
(* The pthread implementation of asynchronous I/O (asyncio-pthread.c) and  *)
(* its one client, the main thread inside io.c.                            *)
(*                                                                         *)
(* Every file has a writer and a reader thread, each serving a linked      *)
(* queue of aio nodes guarded by a mutex and two condition variables.  The *)
(* nodes are recycled through one free list shared by all threads.  The    *)
(* threads and the main thread use descriptors made by dup(), so they      *)
(* share ONE file offset per file.                                         *)
(*                                                                         *)
(* A critical section is one action: nothing inside it blocks but          *)
(* pthread_cond_wait, which ends it.  lseek() and write() are separate     *)
(* actions.                                                                *)
(***************************************************************************)
EXTENDS Naturals, Sequences, FiniteSets

CONSTANTS NumberOfFiles,   \* number_of_files
          Pages,           \* data page numbers within a file
          Buffers,         \* main memory pages
          Contents,        \* what a page can hold
          Aios,            \* the aio nodes malloc may hand out (a bound)
          NULL,            \* the null pointer
          RootPage,        \* the place of the root block, behind the data pages
          RootBlock,       \* what the root block looks like on disk
          Nowhere          \* a file offset that is not the start of a page used

ASSUME FilesAssumption == NumberOfFiles \in Nat \ {0}
ASSUME NullAssumption == NULL \notin Aios
ASSUME RootPageAssumption == RootPage \notin Pages
ASSUME NowhereAssumption == Nowhere \notin Pages \cup {RootPage}
ASSUME RootBlockAssumption == RootBlock \notin Contents

Files == 0 .. NumberOfFiles - 1
FixedRootDisk == 0                       \* FIXED_ROOT_DISK
Chans == Files \X {"write", "read"}      \* one queue and one thread each
FileOf(c) == c[1]
IsWrite(c) == c[2] = "write"

VARIABLES
  node,      \* the aio nodes: page number, memory page, next
  freeAios,  \* list_of_free_aios
  malloced,  \* the nodes obtained from malloc so far
  head,      \* head_of_pending_writes / _reads, per queue
  tail,      \* tail_of_pending_writes / _reads
  pending,   \* number_of_pending_writes / _reads
  tpc,       \* where each I/O thread is
  cur,       \* its local variable aio
  offset,    \* the offset shared by all descriptors of a file
  disk,      \* the disk blocks
  mem,       \* the memory pages
  mpc,       \* where the main thread is
  call,      \* arguments and locals of the call the main thread is in
  mode,      \* "recovering" (reads pages) or "running" (writes pages)
  (* History variables, not in the program. *)
  queued,    \* the nodes in each queue, in order
  freed,     \* the nodes on the free list, in order
  lent,      \* memory pages in requests made since the last drain
  written,   \* disk pages written since the last root block
  want,      \* what each disk page must hold once its writes are done
  committed, \* want as the last root block found it
  asked      \* the reads requested, <<memory page, file, page>>

heapVars == <<node, freeAios, malloced, freed>>
queueVars == <<head, tail, pending, queued>>
threadVars == <<tpc, cur>>
storeVars == <<offset, disk, mem>>
clientVars == <<mpc, call, mode>>
ghostVars == <<lent, written, want, committed, asked>>
vars == <<heapVars, queueVars, threadVars, storeVars, clientVars, ghostVars>>

Node == [page : Pages \cup {NULL}, data : Buffers \cup {NULL},
         next : Aios \cup {NULL}]
NoNode == [page |-> NULL, data |-> NULL, next |-> NULL]

Call == [chan : Chans, aio : Aios \cup {NULL}, file : 0 .. NumberOfFiles,
         after : {"root", "return"}]
NoCall == [chan |-> <<0, "write">>, aio |-> NULL, file |-> 0, after |-> "return"]

TypeOK ==
  /\ node \in [Aios -> Node]
  /\ freeAios \in Aios \cup {NULL}
  /\ malloced \in SUBSET Aios
  /\ head \in [Chans -> Aios \cup {NULL}]
  /\ tail \in [Chans -> Aios \cup {NULL}]
  /\ pending \in [Chans -> Nat]
  /\ tpc \in [Chans -> {"lock", "wait", "woken", "seek", "transfer",
                        "release", "finish"}]
  /\ cur \in [Chans -> Aios \cup {NULL}]
  /\ offset \in [Files -> Pages \cup {RootPage, Nowhere}]
  /\ disk \in [Files -> [Pages \cup {RootPage} -> Contents \cup {RootBlock}]]
  /\ mem \in [Buffers -> Contents \cup {RootBlock}]
  /\ mpc \in {"idle", "enqueue", "drain", "drainwait", "rootseek", "rootwrite"}
  /\ call \in Call
  /\ mode \in {"recovering", "running"}
  /\ queued \in [Chans -> Seq(Aios)]
  /\ freed \in Seq(Aios)
  /\ lent \in SUBSET Buffers
  /\ written \in SUBSET (Files \X Pages)
  /\ want \in [Files -> [Pages -> Contents \cup {RootBlock}]]
  /\ committed \in [Files -> [Pages -> Contents \cup {RootBlock}]]
  /\ asked \in SUBSET (Buffers \X Files \X Pages)

--------------------------------------------------------------------------------
(* A new database, or one about to be recovered.                           *)
Init ==
  /\ node = [a \in Aios |-> NoNode]
  /\ freeAios = NULL
  /\ malloced = {}
  /\ head = [c \in Chans |-> NULL]
  /\ tail = [c \in Chans |-> NULL]
  /\ pending = [c \in Chans |-> 0]
  /\ tpc = [c \in Chans |-> "lock"]
  /\ cur = [c \in Chans |-> NULL]
  /\ offset = [f \in Files |-> Nowhere]
  /\ \E onDisk \in [Files -> [Pages -> Contents]] :
       /\ disk = [f \in Files |-> [p \in Pages \cup {RootPage} |->
                    IF p = RootPage THEN RootBlock ELSE onDisk[f][p]]]
       /\ want = onDisk
       /\ committed = onDisk
  /\ mem \in [Buffers -> Contents]
  /\ mpc = "idle"
  /\ call = NoCall
  /\ mode \in {"recovering", "running"}
  /\ queued = [c \in Chans |-> <<>>]
  /\ freed = <<>>
  /\ lent = {}
  /\ written = {}
  /\ asked = {}

--------------------------------------------------------------------------------
(* Mutant: all threads share one condition variable, signalled with        *)
(* pthread_cond_broadcast.                                                 *)
SignalAllThreads(c) ==
  tpc' = [d \in Chans |-> IF tpc[d] = "wait" THEN "woken" ELSE tpc[d]]

(* pthread_cond_signal on the queue's first condition variable: the thread *)
(* is the only waiter.                                                     *)
SignalThread(c) ==
  tpc' = [tpc EXCEPT ![c] = IF @ = "wait" THEN "woken" ELSE @]

(* The queue a drain has come to.                                          *)
Drained == <<call.file, call.chan[2]>>

(* Mutant: the signal is forgotten.                                        *)
SignalNoDrain(c) == UNCHANGED mpc

(* pthread_cond_signal on the second: only the main thread waits on it,    *)
(* inside a drain, for the queue it has come to.                           *)
SignalDrain(c) ==
  mpc' = IF mpc = "drainwait" /\ c = Drained THEN "drain" ELSE mpc

(* The first half of asyncio_write_page and asyncio_read_page: a node from *)
(* the free list or, when that is empty, from malloc, filled in with the   *)
(* request.                                                                *)
TakeAio(c, p, b, a) ==
  /\ IF freeAios = NULL
     THEN /\ a \in Aios \ malloced
          /\ malloced' = malloced \cup {a}
          /\ UNCHANGED <<freeAios, freed>>
     ELSE /\ a = freeAios
          /\ freeAios' = node[a].next
          /\ freed' = Tail(freed)
          /\ UNCHANGED malloced
  /\ node' = [node EXCEPT ![a] = [page |-> p, data |-> b, next |-> NULL]]
  /\ call' = [call EXCEPT !.chan = c, !.aio = a]
  /\ mpc' = "enqueue"

(* io_write_page hands a page to asyncio_write_page.  The disk page is one *)
(* that was FREE: shades.c frees disk pages only after a root block, so it *)
(* was not written since the last one.                                     *)
WritePage(f, p, b) ==
  /\ mpc = "idle" /\ mode = "running"
  /\ <<f, p>> \notin written
  /\ \E a \in Aios : TakeAio(<<f, "write">>, p, b, a)
  /\ lent' = lent \cup {b}
  /\ written' = written \cup {<<f, p>>}
  /\ want' = [want EXCEPT ![f][p] = mem[b]]
  /\ UNCHANGED <<queueVars, threadVars, storeVars, mode, committed, asked>>

(* io_read_page_start during recovery; a memory page is read into once     *)
(* between two io_read_page_wait calls.                                    *)
ReadPage(f, p, b) ==
  /\ mpc = "idle" /\ mode = "recovering"
  /\ b \notin lent
  /\ \E a \in Aios : TakeAio(<<f, "read">>, p, b, a)
  /\ lent' = lent \cup {b}
  /\ asked' = {r \in asked : r[1] # b} \cup {<<b, f, p>>}
  /\ UNCHANGED <<queueVars, threadVars, storeVars, mode, written, want, committed>>

(* Mutant: emptiness is judged by the tail pointer, which Pop leaves stale.*)
EnqueueByTail ==
  LET c == call.chan
      a == call.aio IN
  /\ mpc = "enqueue"
  /\ IF tail[c] = NULL
     THEN /\ head' = [head EXCEPT ![c] = a]
          /\ UNCHANGED node
     ELSE /\ node' = [node EXCEPT ![tail[c]].next = a]
          /\ UNCHANGED head
  /\ tail' = [tail EXCEPT ![c] = a]
  /\ pending' = [pending EXCEPT ![c] = @ + 1]
  /\ queued' = [queued EXCEPT ![c] = Append(@, a)]
  /\ SignalThread(c)
  /\ mpc' = "idle"
  /\ call' = NoCall
  /\ UNCHANGED <<freeAios, malloced, freed, cur, storeVars, mode, ghostVars>>

(* The second half: append the node to the queue and signal its thread.    *)
Enqueue ==
  LET c == call.chan
      a == call.aio IN
  /\ mpc = "enqueue"
  /\ IF head[c] = NULL
     THEN /\ head' = [head EXCEPT ![c] = a]
          /\ UNCHANGED node
     ELSE /\ node' = [node EXCEPT ![tail[c]].next = a]
          /\ UNCHANGED head
  /\ tail' = [tail EXCEPT ![c] = a]
  /\ pending' = [pending EXCEPT ![c] = @ + 1]
  /\ queued' = [queued EXCEPT ![c] = Append(@, a)]
  /\ SignalThread(c)
  /\ mpc' = "idle"
  /\ call' = NoCall
  /\ UNCHANGED <<freeAios, malloced, freed, cur, storeVars, mode, ghostVars>>

--------------------------------------------------------------------------------
(* writer_thread and reader_thread.                                        *)

(* Pop a request.  It runs when the lock is taken with a nonempty queue    *)
(* and when pthread_cond_wait returns, without testing the queue again.    *)
Pop(c) ==
  /\ tpc[c] = "woken" \/ (tpc[c] = "lock" /\ head[c] # NULL)
  /\ cur' = [cur EXCEPT ![c] = head[c]]
  /\ head' = [head EXCEPT ![c] = node[head[c]].next]
  /\ queued' = [queued EXCEPT ![c] = Tail(@)]
  /\ tpc' = [tpc EXCEPT ![c] = "seek"]
  /\ UNCHANGED <<heapVars, tail, pending, storeVars, clientVars, ghostVars>>

Wait(c) ==
  /\ tpc[c] = "lock" /\ head[c] = NULL
  /\ tpc' = [tpc EXCEPT ![c] = "wait"]
  /\ UNCHANGED <<heapVars, queueVars, cur, storeVars, clientVars, ghostVars>>

Seek(c) ==
  /\ tpc[c] = "seek"
  /\ offset' = [offset EXCEPT ![FileOf(c)] = node[cur[c]].page]
  /\ tpc' = [tpc EXCEPT ![c] = "transfer"]
  /\ UNCHANGED <<heapVars, queueVars, cur, disk, mem, clientVars, ghostVars>>

(* write() or read() at the offset, wherever it is by now; the offset      *)
(* moves past the page.                                                    *)
Transfer(c) ==
  LET f == FileOf(c)
      b == node[cur[c]].data
      p == offset[f] IN
  /\ tpc[c] = "transfer"
  /\ p # Nowhere
  /\ IF IsWrite(c)
     THEN disk' = [disk EXCEPT ![f][p] = mem[b]] /\ UNCHANGED mem
     ELSE mem' = [mem EXCEPT ![b] = disk[f][p]] /\ UNCHANGED disk
  /\ offset' = [offset EXCEPT ![f] = Nowhere]
  /\ tpc' = [tpc EXCEPT ![c] = "release"]
  /\ UNCHANGED <<heapVars, queueVars, cur, clientVars, ghostVars>>

(* Put the served node on the free list.  What else it holds is not read   *)
(* again and is dropped here.                                              *)
Release(c) ==
  /\ tpc[c] = "release"
  /\ node' = [node EXCEPT ![cur[c]] = [NoNode EXCEPT !.next = freeAios]]
  /\ freeAios' = cur[c]
  /\ freed' = <<cur[c]>> \o freed
  /\ cur' = [cur EXCEPT ![c] = NULL]
  /\ tpc' = [tpc EXCEPT ![c] = "finish"]
  /\ UNCHANGED <<malloced, queueVars, storeVars, clientVars, ghostVars>>

(* Mutant: the request is counted as done twice.                           *)
FinishTwice(c) ==
  /\ tpc[c] = "finish"
  /\ pending' = [pending EXCEPT ![c] = @ - 2]
  /\ SignalDrain(c)
  /\ tpc' = [tpc EXCEPT ![c] = "lock"]
  /\ UNCHANGED <<heapVars, head, tail, queued, cur, storeVars, call, mode, ghostVars>>

(* Count the request as done and signal a drain.                           *)
Finish(c) ==
  /\ tpc[c] = "finish"
  /\ pending' = [pending EXCEPT ![c] = @ - 1]
  /\ SignalDrain(c)
  /\ tpc' = [tpc EXCEPT ![c] = "lock"]
  /\ UNCHANGED <<heapVars, head, tail, queued, cur, storeVars, call, mode, ghostVars>>

Thread(c) ==
  Pop(c) \/ Wait(c) \/ Seek(c) \/ Transfer(c) \/ Release(c) \/ Finish(c)

writer_thread(f) == Thread(<<f, "write">>)
reader_thread(f) == Thread(<<f, "read">>)

(* POSIX lets pthread_cond_wait return without a signal.  Not part of      *)
(* Next: SpuriousSpec below adds it.                                       *)
SpuriousWakeup(c) ==
  /\ tpc[c] = "wait"
  /\ tpc' = [tpc EXCEPT ![c] = "woken"]
  /\ UNCHANGED <<heapVars, queueVars, cur, storeVars, clientVars, ghostVars>>

--------------------------------------------------------------------------------
(* A drain goes through the files in turn; "after" says whether the caller *)
(* goes on to write the root block.                                        *)
StartDrain(dir, after) ==
  /\ mpc = "idle"
  /\ call' = [call EXCEPT !.chan = <<0, dir>>, !.after = after]
  /\ mpc' = "drain"
  /\ UNCHANGED <<heapVars, queueVars, threadVars, storeVars, mode, ghostVars>>

asyncio_drain_pending_writes(after) == mode = "running" /\ StartDrain("write", after)
asyncio_drain_pending_reads(after) == mode = "recovering" /\ StartDrain("read", after)

(* Mutant: the root block is written without waiting for the pages.        *)
WriteRootUndrained ==
  /\ mode = "running" /\ mpc = "idle"
  /\ mpc' = "rootseek"
  /\ UNCHANGED <<heapVars, queueVars, threadVars, storeVars, call, mode, ghostVars>>
(* Mutant: page changes are allowed without waiting for the writes.        *)
AllowChangesUndrained ==
  /\ mode = "running" /\ mpc = "idle"
  /\ lent' = {}
  /\ UNCHANGED <<heapVars, queueVars, threadVars, storeVars, clientVars, written, want,
                 committed, asked>>

io_write_root == asyncio_drain_pending_writes("root")
io_allow_page_changes == asyncio_drain_pending_writes("return")
io_read_page_wait == asyncio_drain_pending_reads("return")

(* Mutant: an empty queue counts as drained, though its last request is    *)
(* still being served.                                                     *)
DrainFileByQueue ==
  /\ mpc = "drain" /\ call.file < NumberOfFiles
  /\ IF head[Drained] # NULL
     THEN mpc' = "drainwait" /\ UNCHANGED call
     ELSE call' = [call EXCEPT !.file = @ + 1] /\ UNCHANGED mpc
  /\ UNCHANGED <<heapVars, queueVars, threadVars, storeVars, mode, ghostVars>>

(* One file of the drain's loop: wait while requests are pending.  The     *)
(* condition is tested again after every wakeup.                           *)
DrainFile ==
  /\ mpc = "drain" /\ call.file < NumberOfFiles
  /\ IF pending[Drained] > 0
     THEN mpc' = "drainwait" /\ UNCHANGED call
     ELSE call' = [call EXCEPT !.file = @ + 1] /\ UNCHANGED mpc
  /\ UNCHANGED <<heapVars, queueVars, threadVars, storeVars, mode, ghostVars>>

DrainSpuriousWakeup ==
  /\ mpc = "drainwait"
  /\ mpc' = "drain"
  /\ UNCHANGED <<heapVars, queueVars, threadVars, storeVars, call, mode, ghostVars>>

DrainReturn ==
  /\ mpc = "drain" /\ call.file = NumberOfFiles
  /\ mpc' = IF call.after = "root" THEN "rootseek" ELSE "idle"
  /\ call' = NoCall
  /\ lent' = {}
  /\ UNCHANGED <<heapVars, queueVars, threadVars, storeVars, mode,
                 written, want, committed, asked>>

(* The rest of io_write_root: the main thread's own lseek() and write().   *)
RootSeek ==
  /\ mpc = "rootseek"
  /\ offset' = [offset EXCEPT ![FixedRootDisk] = RootPage]
  /\ mpc' = "rootwrite"
  /\ UNCHANGED <<heapVars, queueVars, threadVars, disk, mem, call, mode, ghostVars>>

RootWrite ==
  /\ mpc = "rootwrite"
  /\ disk' = [disk EXCEPT ![FixedRootDisk][offset[FixedRootDisk]] = RootBlock]
  /\ offset' = [offset EXCEPT ![FixedRootDisk] = Nowhere]
  /\ committed' = want
  /\ written' = {}
  /\ mpc' = "idle"
  /\ UNCHANGED <<heapVars, queueVars, threadVars, mem, call, mode, lent, want, asked>>

(* The storage manager changes a memory page (copying, forwarding, pointer *)
(* updates).  shades.c keeps off pages whose write it has requested until  *)
(* io_allow_page_changes or io_write_root has drained the writes.          *)
ChangePage(b, v) ==
  /\ mpc = "idle" /\ mode = "running"
  /\ b \notin lent
  /\ mem[b] # v
  /\ mem' = [mem EXCEPT ![b] = v]
  /\ UNCHANGED <<heapVars, queueVars, threadVars, offset, disk, clientVars, ghostVars>>

(* recover_db returns: every read was waited for.                          *)
FinishRecovery ==
  /\ mpc = "idle" /\ mode = "recovering" /\ lent = {}
  /\ mode' = "running"
  /\ asked' = {}
  /\ UNCHANGED <<heapVars, queueVars, threadVars, storeVars, mpc, call,
                 lent, written, want, committed>>

Main ==
  \/ \E f \in Files, p \in Pages, b \in Buffers : WritePage(f, p, b)
  \/ \E f \in Files, p \in Pages, b \in Buffers : ReadPage(f, p, b)
  \/ Enqueue
  \/ io_write_root \/ io_allow_page_changes \/ io_read_page_wait
  \/ DrainFile \/ DrainSpuriousWakeup \/ DrainReturn
  \/ RootSeek \/ RootWrite
  \/ \E b \in Buffers, v \in Contents : ChangePage(b, v)
  \/ FinishRecovery

Next == Main \/ \E f \in Files : writer_thread(f) \/ reader_thread(f)

(* The scheduler runs every thread that can run; inside a call the main    *)
(* thread goes on as well.                                                 *)
Fairness ==
  /\ \A f \in Files : WF_vars(writer_thread(f)) /\ WF_vars(reader_thread(f))
  /\ WF_vars(Enqueue \/ DrainFile \/ DrainReturn \/ RootSeek \/ RootWrite)

Spec == Init /\ [][Next]_vars /\ Fairness

SpuriousSpec == Init /\ [][Next \/ \E c \in Chans : SpuriousWakeup(c)]_vars

--------------------------------------------------------------------------------
(* The asserts of writer_thread and reader_thread: a thread that comes     *)
(* back from pthread_cond_wait finds a request in its queue, although it   *)
(* does not look before it takes the lock's word for it.                   *)
WakeupFindsRequest ==
  \A c \in Chans : tpc[c] = "woken" => head[c] # NULL /\ pending[c] > 0

(* A list that starts at first and links the nodes of s in order.          *)
Links(nd, first, s) ==
  /\ s = <<>> <=> first = NULL
  /\ s # <<>> => first = s[1] /\ nd[s[Len(s)]].next = NULL
  /\ \A i \in 1 .. Len(s) - 1 : nd[s[i]].next = s[i + 1]

(* The nodes of s are distinct.                                            *)
Distinct(s) == \A i, j \in 1 .. Len(s) : s[i] = s[j] => i = j
Members(s) == {s[i] : i \in 1 .. Len(s)}

FreeListLinked == Links(node, freeAios, freed) /\ Distinct(freed)
QueuesLinked ==
  \A c \in Chans :
    /\ Links(node, head[c], queued[c]) /\ Distinct(queued[c])
    /\ queued[c] # <<>> => tail[c] = queued[c][Len(queued[c])]

(* A node is on the free list, in one queue, with one thread or with the   *)
(* main thread, and nowhere else besides.                                  *)
HoldersDisjoint ==
  /\ mpc = "enqueue" => call.aio \notin Members(freed)
  /\ \A c \in Chans :
       /\ Members(queued[c]) \cap Members(freed) = {}
       /\ cur[c] \notin Members(freed)
       /\ mpc = "enqueue" => call.aio # cur[c] /\ call.aio \notin Members(queued[c])
       /\ \A d \in Chans :
            /\ cur[c] \notin Members(queued[d])
            /\ c # d => /\ Members(queued[c]) \cap Members(queued[d]) = {}
                        /\ cur[c] # NULL => cur[c] # cur[d]

(* Nodes are recycled between queues of different files and directions,    *)
(* and a queue that ran empty keeps a stale tail pointer at a node that is *)
(* on the free list or in another queue by now.  Still every list stays    *)
(* properly linked and no node is on two lists.                            *)
ListsAreSeparate == FreeListLinked /\ QueuesLinked /\ HoldersDisjoint

(* The root block is durable only when every page it refers to is, and     *)
(* such a page stays as it is until it is reused: a crash at any point     *)
(* finds the last root block's pages on disk.  Data that a badly timed     *)
(* lseek() sent elsewhere, or the root block itself written over a page,   *)
(* would break it.                                                         *)
RootCovered ==
  /\ disk[FixedRootDisk][RootPage] = RootBlock
  /\ \A f \in Files, p \in Pages :
       <<f, p>> \notin written => disk[f][p] = committed[f][p]

(* io_read_page_wait returns only when all pages requested are in memory,  *)
(* each in the memory page it was requested for.                           *)
ReadsArrive ==
  \A r \in asked : r[1] \notin lent => mem[r[1]] = disk[r[2]][r[3]]

(* A drain returns: no wakeup is lost between a thread and the main one.   *)
DrainReturns ==
  mpc \in {"drain", "drainwait"} ~> mpc \in {"idle", "rootseek"}

(* The threads, the queues and the shared offset implement the write-behind*)
(* promise.  The queue of a file is what its writer has popped and not yet *)
(* written, then what is linked in the queue; the contents are read from   *)
(* memory only when write() runs, so a page changed too early would show.  *)
InFlight(c) == IF tpc[c] \in {"seek", "transfer"} THEN <<cur[c]>> ELSE <<>>
Outstanding(f) ==
  LET s == InFlight(<<f, "write">>) \o queued[<<f, "write">>] IN
  [i \in 1 .. Len(s) |-> [page |-> node[s[i]].page, content |-> mem[node[s[i]].data]]]

Promise == INSTANCE WriteBehind WITH
  queue <- [f \in Files |-> Outstanding(f)],
  disk <- [f \in Files |-> [p \in Pages |-> disk[f][p]]],
  root <- committed

PromiseKept == Promise!Spec
================================================================================
