------------------------------- MODULE AsyncPosix ------------------------------
(***************************************************************************)
(* Asynchronous I/O with the system's own requests (asyncio-posix.c), the  *)
(* other implementation of the promise of WriteBehind, and its client, the *)
(* main thread in io.c.  There are no threads here: the system serves the  *)
(* requests in any order, each at its own place in the file.  A drain      *)
(* waits for the nodes on list_of_pending_aios one by one; Solaris's       *)
(* aiowait waits for just any request instead.                             *)
(*                                                                         *)
(* The system may refuse a request (EAGAIN).  The node is on the list of   *)
(* pending ones by then and stays there; the caller does the I/O itself.   *)
(* aio_return of a request never made may return an error or not, and      *)
(* aiowait fails when there is nothing to wait for: a failing drain calls  *)
(* exit(1).                                                                *)
(***************************************************************************)
EXTENDS Naturals, SequencesExt

CONSTANTS Files, Pages,      \* the database files, page numbers within them
          Buffers,           \* main memory pages
          Contents,          \* what a page can hold
          Aios,              \* the nodes malloc may hand out (a bound)
          MaxRefused         \* how many requests the system refuses (a bound)
ASSUME PosixAssumption == MaxRefused \in Nat

VARIABLES
  HAVE_SOLARIS,         \* which of the two builds this is; never changes
  request,              \* the request in each node
  state,                \* what the system has made of it
  list_of_free_aios, list_of_pending_aios,
  disk, mem,
  mpc,                  \* where the main thread is
  call,                 \* the locals of the call it is in
  mode,                 \* "recovering" (reads pages) or "running" (writes pages)
  refused,              \* requests refused so far
  (* History variables, not in the program. *)
  issued,               \* the nodes of the writes not on disk, per file, in order
  lent,                 \* memory pages in requests made since the last drain
  written,              \* disk pages written since the last root block
  committed,            \* the disk as the last root block found it
  asked                 \* the reads requested, <<memory page, file, page>>

listVars == <<list_of_free_aios, list_of_pending_aios>>
ghostVars == <<lent, written, committed, asked>>
vars == <<HAVE_SOLARIS, request, state, listVars, disk, mem, mpc, call, mode, refused, issued, ghostVars>>

Request == [type : {"AIO_READ", "AIO_WRITE"}, file : Files, page : Pages, data : Buffers]
Call == [type : {"AIO_READ", "AIO_WRITE"}, rest : Seq(Aios), after : {"root", "return"}]
NoCall == [type |-> "AIO_READ", rest |-> <<>>, after |-> "return"]

TypeOK ==
  /\ HAVE_SOLARIS \in BOOLEAN
  /\ DOMAIN request = Aios /\ \A a \in Aios : state[a] # "new" => request[a] \in Request
  /\ state \in [Aios -> {"new", "in progress", "done", "returned", "refused"}]
  /\ list_of_free_aios \in Seq(Aios) /\ list_of_pending_aios \in Seq(Aios)
  /\ disk \in [Files -> [Pages -> Contents]] /\ committed \in [Files -> [Pages -> Contents]]
  /\ mem \in [Buffers -> Contents]
  /\ mpc \in {"idle", "sync", "drain", "root", "exited"}
  /\ mode \in {"recovering", "running"} /\ refused \in 0 .. MaxRefused
  /\ call \in Call
  /\ issued \in [Files -> Seq(Aios)]
  /\ lent \subseteq Buffers /\ written \subseteq Files \X Pages
  /\ asked \subseteq Buffers \X Files \X Pages

Init ==
  /\ HAVE_SOLARIS \in BOOLEAN
  /\ request = [a \in Aios |-> <<>>]
  /\ state = [a \in Aios |-> "new"]
  /\ list_of_free_aios = <<>> /\ list_of_pending_aios = <<>>
  /\ disk \in [Files -> [Pages -> Contents]] /\ committed = disk
  /\ mem \in [Buffers -> Contents]
  /\ mpc = "idle" /\ call = NoCall /\ refused = 0
  /\ mode \in {"recovering", "running"}
  /\ issued = [f \in Files |-> <<>>]
  /\ lent = {} /\ written = {} /\ asked = {}

--------------------------------------------------------------------------------
(* asyncio_write_page and asyncio_read_page, up to the call of aio_write   *)
(* or aio_read: a node from the free list, or from malloc if there is      *)
(* none, goes to the front of the pending ones.                            *)
TakeAio(a, r) ==
  /\ IF list_of_free_aios = <<>>
     THEN state[a] = "new" /\ UNCHANGED list_of_free_aios
     ELSE a = Head(list_of_free_aios) /\ list_of_free_aios' = Tail(list_of_free_aios)
  /\ list_of_pending_aios' = <<a>> \o list_of_pending_aios
  /\ request' = [request EXCEPT ![a] = r]

(* The system takes the request, or refuses it.                            *)
Issue(a) ==
  \/ state' = [state EXCEPT ![a] = "in progress"] /\ UNCHANGED <<mpc, refused>>
  \/ /\ refused < MaxRefused
     /\ refused' = refused + 1
     /\ state' = [state EXCEPT ![a] = "refused"]
     /\ mpc' = "sync"

asyncio_write_page(f, p, b) ==
  \E a \in Aios :
    /\ TakeAio(a, [type |-> "AIO_WRITE", file |-> f, page |-> p, data |-> b])
    /\ Issue(a)
    /\ issued' = [issued EXCEPT ![f] = Append(@, a)]

asyncio_read_page(f, p, b) ==
  /\ \E a \in Aios :
       /\ TakeAio(a, [type |-> "AIO_READ", file |-> f, page |-> p, data |-> b])
       /\ Issue(a)
  /\ UNCHANGED issued

(* io_write_page: the disk page was free, so it was not written since the  *)
(* last root block, and every memory page is written to one of them.       *)
WritePage(f, p, b) ==
  /\ mpc = "idle" /\ mode = "running" /\ <<f, p>> \notin written /\ b \notin lent
  /\ asyncio_write_page(f, p, b)
  /\ lent' = lent \cup {b}
  /\ written' = written \cup {<<f, p>>}
  /\ UNCHANGED <<disk, mem, call, mode, committed, asked>>

(* io_read_page_start, during recovery.                                    *)
ReadPage(f, p, b) ==
  /\ mpc = "idle" /\ mode = "recovering" /\ b \notin lent
  /\ asyncio_read_page(f, p, b)
  /\ lent' = lent \cup {b}
  /\ asked' = {r \in asked : r[1] # b} \cup {<<b, f, p>>}
  /\ UNCHANGED <<disk, mem, call, mode, written, committed>>

(* The data goes where the request says.                                   *)
Transfer(a) ==
  LET r == request[a] IN
  IF r.type = "AIO_WRITE"
  THEN /\ disk' = [disk EXCEPT ![r.file][r.page] = mem[r.data]]
       /\ issued' = [issued EXCEPT ![r.file] = RemoveFirst(@, a)]
       /\ UNCHANGED mem
  ELSE /\ mem' = [mem EXCEPT ![r.data] = disk[r.file][r.page]]
       /\ UNCHANGED <<disk, issued>>

(* Mutant: io_write_page takes a refused request for one under way.        *)
SyncTransferOmitted ==
  /\ mpc = "sync"
  /\ UNCHANGED <<disk, mem, issued>>
  /\ mpc' = "idle"
  /\ UNCHANGED <<request, state, listVars, call, mode, refused, ghostVars>>
(* The rest of io_write_page or io_read_page_start after a refusal.        *)
SyncTransfer ==
  /\ mpc = "sync"
  /\ Transfer(Head(list_of_pending_aios))
  /\ mpc' = "idle"
  /\ UNCHANGED <<request, state, listVars, call, mode, refused, ghostVars>>

(* The system serves a request.                                            *)
Complete(a) ==
  /\ state[a] = "in progress" /\ mpc # "exited"
  /\ Transfer(a)
  /\ state' = [state EXCEPT ![a] = "done"]
  /\ UNCHANGED <<request, listVars, mpc, call, mode, refused, ghostVars>>

--------------------------------------------------------------------------------
StartDrain(type, after) ==
  /\ mpc = "idle"
  /\ call' = [type |-> type, rest |-> list_of_pending_aios, after |-> after]
  /\ mpc' = "drain"
  /\ UNCHANGED <<request, state, listVars, disk, mem, mode, refused, issued, ghostVars>>

io_write_root == mode = "running" /\ StartDrain("AIO_WRITE", "root")
io_allow_page_changes == mode = "running" /\ StartDrain("AIO_WRITE", "return")
io_read_page_wait == mode = "recovering" /\ StartDrain("AIO_READ", "return")

DrainGoesOn == call' = [call EXCEPT !.rest = Tail(@)] /\ UNCHANGED mpc
DrainExits == mpc' = "exited" /\ UNCHANGED call

(* aio_suspend and aio_return.                                             *)
PosixWait(a) ==
  \/ state[a] = "done" /\ state' = [state EXCEPT ![a] = "returned"] /\ DrainGoesOn
  \/ state[a] = "refused" /\ (DrainGoesOn \/ DrainExits) /\ UNCHANGED state

(* Mutant: aiowait is taken for a wait for the node of this turn.          *)
SolarisWaitForNode ==
  LET a == Head(call.rest) IN
  state[a] = "done" /\ state' = [state EXCEPT ![a] = "returned"] /\ DrainGoesOn
(* aiowait(NULL).                                                          *)
SolarisWait ==
  \/ \E b \in Aios : state[b] = "done" /\ state' = [state EXCEPT ![b] = "returned"] /\ DrainGoesOn
  \/ /\ \A b \in Aios : state[b] \notin {"in progress", "done"}
     /\ DrainExits /\ UNCHANGED state

(* Mutant: asyncio_drain_pending_reads waits for writes.                   *)
DrainAioOfWrites ==
  /\ mpc = "drain" /\ call.rest # <<>>
  /\ LET a == Head(call.rest) IN
     IF request[a].type # "AIO_WRITE" THEN DrainGoesOn /\ UNCHANGED state
     ELSE IF HAVE_SOLARIS THEN SolarisWait ELSE PosixWait(a)
  /\ UNCHANGED <<request, listVars, disk, mem, mode, refused, issued, ghostVars>>
(* One turn of the loop of asyncio_drain_pending_writes or _reads.         *)
DrainAio ==
  /\ mpc = "drain" /\ call.rest # <<>>
  /\ LET a == Head(call.rest) IN
     IF request[a].type # call.type THEN DrainGoesOn /\ UNCHANGED state
     ELSE IF HAVE_SOLARIS THEN SolarisWait ELSE PosixWait(a)
  /\ UNCHANGED <<request, listVars, disk, mem, mode, refused, issued, ghostVars>>

(* Mutant: the list of pending nodes is not emptied.                       *)
DrainReturnKeepsPending ==
  /\ mpc = "drain" /\ call.rest = <<>>
  /\ list_of_free_aios' = Reverse(list_of_pending_aios) \o list_of_free_aios
  /\ UNCHANGED list_of_pending_aios
  /\ mpc' = IF call.after = "root" THEN "root" ELSE "idle"
  /\ call' = NoCall
  /\ lent' = {}
  /\ UNCHANGED <<request, state, disk, mem, mode, refused, issued, written, committed, asked>>
(* All pending nodes become free ones.                                     *)
DrainReturn ==
  /\ mpc = "drain" /\ call.rest = <<>>
  /\ list_of_free_aios' = Reverse(list_of_pending_aios) \o list_of_free_aios
  /\ list_of_pending_aios' = <<>>
  /\ mpc' = IF call.after = "root" THEN "root" ELSE "idle"
  /\ call' = NoCall
  /\ lent' = {}
  /\ UNCHANGED <<request, state, disk, mem, mode, refused, issued, written, committed, asked>>

(* io_write_root writes the root block.                                    *)
RootWrite ==
  /\ mpc = "root"
  /\ committed' = disk
  /\ written' = {}
  /\ mpc' = "idle"
  /\ UNCHANGED <<request, state, listVars, disk, mem, call, mode, refused, issued, lent, asked>>

(* The storage manager keeps off the pages it has asked to be written.     *)
ChangePage(b, v) ==
  /\ mpc = "idle" /\ mode = "running" /\ b \notin lent /\ mem[b] # v
  /\ mem' = [mem EXCEPT ![b] = v]
  /\ UNCHANGED <<request, state, listVars, disk, mpc, call, mode, refused, issued, ghostVars>>

FinishRecovery ==
  /\ mpc = "idle" /\ mode = "recovering" /\ lent = {}
  /\ mode' = "running" /\ asked' = {}
  /\ UNCHANGED <<request, state, listVars, disk, mem, mpc, call, refused, issued,
                 lent, written, committed>>

Main ==
  \/ \E f \in Files, p \in Pages, b \in Buffers : WritePage(f, p, b) \/ ReadPage(f, p, b)
  \/ SyncTransfer
  \/ io_write_root \/ io_allow_page_changes \/ io_read_page_wait
  \/ DrainAio \/ DrainReturn \/ RootWrite
  \/ \E b \in Buffers, v \in Contents : ChangePage(b, v)
  \/ FinishRecovery

Next ==
  /\ Main \/ \E a \in Aios : Complete(a)
  /\ UNCHANGED HAVE_SOLARIS

(* The system serves every request it took; the main thread goes on inside *)
(* a call.                                                                 *)
Fairness ==
  /\ \A a \in Aios : WF_vars(Complete(a) /\ UNCHANGED HAVE_SOLARIS)
  /\ WF_vars((SyncTransfer \/ DrainAio \/ DrainReturn \/ RootWrite) /\ UNCHANGED HAVE_SOLARIS)

Spec == Init /\ [][Next]_vars /\ Fairness

--------------------------------------------------------------------------------
(* A node on the free list is not in use by the system, on neither list    *)
(* twice, and on one of them only, refused requests notwithstanding.       *)
FreeAiosFinished ==
  /\ \A a \in ToSet(list_of_free_aios) : state[a] \in {"returned", "refused"}
  /\ IsInjective(list_of_free_aios \o list_of_pending_aios)

(* io_read_page_wait returns only when all pages requested are in memory.  *)
ReadsArrive == \A r \in asked : r[1] \notin lent => mem[r[1]] = disk[r[2]][r[3]]

(* The writes to file f still to be served.                                *)
Outstanding(f) ==
  [i \in DOMAIN issued[f] |->
     [page |-> request[issued[f][i]].page, content |-> mem[request[issued[f][i]].data]]]

(* Requests, refused or not, implement the write-behind promise, though    *)
(* pages reach the disk in an order other than that of the requests.       *)
Promise == INSTANCE WriteBehind WITH
  queue <- [f \in Files |-> Outstanding(f)],
  root <- committed
PromiseKept == Promise!Spec

(* A drain returns, or gives up.                                           *)
DrainEnds == mpc = "drain" ~> mpc # "drain"
================================================================================
