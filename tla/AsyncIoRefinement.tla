--------------------------- MODULE AsyncIoRefinement ---------------------------
(***************************************************************************)
(* The threads, the queues and the shared file offsets of                  *)
(* asyncio-pthread.c implement the write-behind promise: for any number of *)
(* files, pages and aio nodes.                                             *)
(***************************************************************************)
EXTENDS AsyncIoProofs

--------------------------------------------------------------------------------
(* Data pages and memory pages hold data, never the root block: it is      *)
(* written to its own place only, and no read is from there.               *)
DataPages ==
  /\ mem \in [Buffers -> Contents]
  /\ \A f \in Files, p \in Pages : disk[f][p] \in Contents

LEMMA DataInit == Init => DataPages
<1> SUFFICES ASSUME Init PROVE DataPages
  OBVIOUS
<1>1. PICK onDisk \in [Files -> [Pages -> Contents]] :
        disk = [f \in Files |-> [p \in Pages \cup {RootPage} |->
                  IF p = RootPage THEN RootBlock ELSE onDisk[f][p]]]
  BY DEF Init
<1>2. \A f \in Files, p \in Pages : disk[f][p] = onDisk[f][p]
  BY <1>1, RootPageAssumption
<1>3. \A f \in Files, p \in Pages : onDisk[f][p] \in Contents
  OBVIOUS
<1>4. QED
  BY <1>2, <1>3 DEF Init, DataPages

(* Where a thread's write() or read() goes.                                *)
LEMMA TransferPlace ==
  ASSUME Core, Durable, NEW c \in Chans, Transfer(c)
  PROVE  /\ cur[c] \in Aios /\ FileOf(c) \in Files
         /\ offset[FileOf(c)] = node[cur[c]].page
         /\ node[cur[c]].page \in Pages /\ node[cur[c]].data \in Buffers
<1>1. cur[c] \in Requests(c) /\ tpc[c] = "transfer"
  BY TransferRequest DEF Transfer
<1>2. QED
  BY <1>1, ChanForms, RequestsAreNodes DEF Core, RequestsTyped, Durable, OffsetsKept

LEMMA DataTransfer ==
  ASSUME Core, Durable, DataPages, NEW c \in Chans, Transfer(c)
  PROVE  DataPages'
<1> DEFINE f == FileOf(c)
           b == node[cur[c]].data
           p == node[cur[c]].page
<1>1. f \in Files /\ offset[f] = p /\ p \in Pages /\ b \in Buffers
  BY TransferPlace
<1>2. disk \in [Files -> [Pages \cup {RootPage} -> Contents \cup {RootBlock}]]
  BY DEF Core, TypeOK
<1>3. CASE IsWrite(c)
  <2>1. disk' = [disk EXCEPT ![f][p] = mem[b]] /\ mem' = mem
    BY <1>1, <1>3 DEF Transfer
  <2>2. \A g \in Files, q \in Pages :
          disk'[g][q] = IF g = f /\ q = p THEN mem[b] ELSE disk[g][q]
    BY <1>1, <1>2, <2>1
  <2>3. QED
    BY <1>1, <2>1, <2>2 DEF DataPages
<1>4. CASE ~IsWrite(c)
  <2>1. disk' = disk /\ mem' = [mem EXCEPT ![b] = disk[f][p]]
    BY <1>1, <1>4 DEF Transfer
  <2>2. QED
    BY <1>1, <2>1 DEF DataPages
<1>5. QED
  BY <1>3, <1>4

LEMMA DataRootWrite ==
  ASSUME Core, Durable, RootWrite
  PROVE  /\ \A f \in Files, p \in Pages : disk'[f][p] = disk[f][p]
         /\ mem' = mem
<1>1. FixedRootDisk \in Files
  BY FilesAssumption DEF FixedRootDisk, Files
<1>2. disk' = [disk EXCEPT ![FixedRootDisk][RootPage] = RootBlock] /\ mem' = mem
  BY DEF RootWrite, Durable, OffsetsKept
<1>3. disk \in [Files -> [Pages \cup {RootPage} -> Contents \cup {RootBlock}]]
  BY DEF Core, TypeOK
<1>4. QED
  BY <1>1, <1>2, <1>3, RootPageAssumption

(* The steps that move no data.                                            *)
LEMMA DataStays ==
  ASSUME [Next]_vars,
         ~RootWrite, \A c \in Chans : ~Transfer(c),
         \A b \in Buffers, v \in Contents : ~ChangePage(b, v)
  PROVE  UNCHANGED <<disk, mem>>
<1>1. ASSUME NEW c \in Chans, Thread(c) PROVE UNCHANGED <<disk, mem>>
  BY <1>1 DEF Thread, Pop, Wait, Seek, Release, Finish, storeVars
<1>2. ASSUME NEW f \in Files, writer_thread(f) \/ reader_thread(f) PROVE UNCHANGED <<disk, mem>>
  BY <1>1, <1>2, ChanForms DEF writer_thread, reader_thread
<1>3. ASSUME NEW f \in Files, NEW p \in Pages, NEW b \in Buffers,
             WritePage(f, p, b) \/ ReadPage(f, p, b)
      PROVE  UNCHANGED <<disk, mem>>
  BY <1>3 DEF WritePage, ReadPage, storeVars
<1>4. ASSUME \/ Enqueue \/ io_write_root \/ io_allow_page_changes \/ io_read_page_wait
             \/ DrainFile \/ DrainSpuriousWakeup \/ DrainReturn \/ RootSeek
             \/ FinishRecovery \/ UNCHANGED vars
      PROVE  UNCHANGED <<disk, mem>>
  BY <1>4 DEF Enqueue, io_write_root, io_allow_page_changes, io_read_page_wait,
              asyncio_drain_pending_writes, asyncio_drain_pending_reads, StartDrain,
              DrainFile, DrainSpuriousWakeup, DrainReturn, RootSeek,
              FinishRecovery, vars, storeVars
<1>5. QED
  BY <1>2, <1>3, <1>4 DEF Next, Main

LEMMA DataStep == Core /\ Durable /\ DataPages /\ [Next]_vars => DataPages'
<1> SUFFICES ASSUME Core, Durable, DataPages, [Next]_vars PROVE DataPages'
  OBVIOUS
<1>1. CASE RootWrite
  BY <1>1, DataRootWrite DEF DataPages
<1>2. CASE \E c \in Chans : Transfer(c)
  BY <1>2, DataTransfer
<1>3. ASSUME NEW b \in Buffers, NEW v \in Contents, ChangePage(b, v) PROVE DataPages'
  BY <1>3 DEF ChangePage, DataPages
<1>4. CASE UNCHANGED <<disk, mem>>
  BY <1>4 DEF DataPages
<1>5. QED
  BY <1>1, <1>2, <1>3, <1>4, DataStays

LEMMA DataInvariant == Spec => []DataPages
<1>1. Init /\ [][Next]_vars /\ []Core /\ []Durable => []DataPages
  BY DataInit, DataStep, PTL
<1>2. QED
  BY <1>1, CoreInvariant, DurableInvariant, PTL DEF Spec

--------------------------------------------------------------------------------
(* The writes outstanding.                                                 *)

Queue == [f \in Files |-> Outstanding(f)]
DataDisk == [f \in Files |-> [p \in Pages |-> disk[f][p]]]

(* The nodes of the writes outstanding, in order, and what each will write.*)
Line(f) == InFlight(<<f, "write">>) \o queued[<<f, "write">>]
WriteOf(a) == [page |-> node[a].page, content |-> mem[node[a].data]]

(* A node in line is a request, and has a place in line for each index.    *)
LEMMA LineForm ==
  ASSUME Core, NEW f \in Files
  PROVE  /\ Line(f) \in Seq(Aios)
         /\ \A i \in 1 .. Len(Line(f)) : Line(f)[i] \in Requests(<<f, "write">>)
<1> DEFINE c == <<f, "write">>
           q == queued[c]
           h == InFlight(c)
<1>1. c \in Chans
  BY ChanForms
<1>2. q \in Seq(Aios) /\ tpc[c] \in {"lock", "wait", "woken", "seek", "transfer", "release", "finish"}
  BY <1>1 DEF Core, TypeOK
<1>3. \A i \in 1 .. Len(q) : q[i] \in Requests(c)
  BY DEF Requests, Members
<1>4. CASE tpc[c] \in {"seek", "transfer"}
  <2>1. cur[c] \in Aios /\ cur[c] \in Requests(c)
    BY <1>1, <1>4, RequestsAreNodes DEF Requests
  <2>2. Line(f) = <<cur[c]>> \o q
    BY <1>4 DEF Line, InFlight
  <2> HIDE DEF q, c
  <2>3. <<cur[c]>> \o q \in Seq(Aios) /\ Len(<<cur[c]>> \o q) = 1 + Len(q)
        /\ \A i \in 1 .. 1 + Len(q) : (<<cur[c]>> \o q)[i] = IF i = 1 THEN cur[c] ELSE q[i - 1]
    BY <1>2, <2>1
  <2>4. \A i \in 1 .. 1 + Len(q) : i = 1 \/ i - 1 \in 1 .. Len(q)
    BY <1>2
  <2>5. QED
    BY <1>3, <2>1, <2>2, <2>3, <2>4 DEF c
<1>5. CASE tpc[c] \notin {"seek", "transfer"}
  <2>1. Line(f) = <<>> \o q
    BY <1>5 DEF Line, InFlight
  <2>2. <<>> \o q = q
    BY <1>2
  <2>3. QED
    BY <1>2, <1>3, <2>1, <2>2
<1>6. QED
  BY <1>4, <1>5

LEMMA OutstandingForm ==
  ASSUME Core, NEW f \in Files
  PROVE  /\ Outstanding(f) = [i \in 1 .. Len(Line(f)) |-> WriteOf(Line(f)[i])]
         /\ Len(Line(f)) \in Nat
<1>1. Len(Line(f)) \in Nat
  BY LineForm
<1>2. QED
  BY <1>1 DEF Outstanding, WriteOf, Line

(* The promise's queue is one of writes of data to data pages.             *)
LEMMA OutstandingSeq ==
  ASSUME Core, DataPages, NEW f \in Files
  PROVE  /\ Outstanding(f) \in Seq([page : Pages, content : Contents])
         /\ Len(Outstanding(f)) = Len(Line(f))
         /\ \A i \in 1 .. Len(Line(f)) : Outstanding(f)[i] = WriteOf(Line(f)[i])
<1>1. \A i \in 1 .. Len(Line(f)) :
        node[Line(f)[i]].page \in Pages /\ node[Line(f)[i]].data \in Buffers
  BY LineForm, ChanForms DEF Core, RequestsTyped
<1>2. \A i \in 1 .. Len(Line(f)) : WriteOf(Line(f)[i]) \in [page : Pages, content : Contents]
  BY <1>1 DEF WriteOf, DataPages
<1> DEFINE W == [page : Pages, content : Contents]
           n == Len(Line(f))
           s == Outstanding(f)
           w == [i \in 1 .. n |-> WriteOf(Line(f)[i])]
<1>3. n \in Nat /\ s = w
  BY OutstandingForm
<1>4. w \in [1 .. n -> W]
      /\ \A i \in 1 .. n : w[i] = WriteOf(Line(f)[i])
  BY <1>2
<1> HIDE DEF n, s, w, W
<1>5. s \in Seq(W) /\ Len(s) = n
  BY <1>3, <1>4
<1>6. QED
  BY <1>3, <1>4, <1>5 DEF n, s, W

(* Steps that keep the nodes in line and what each will write.             *)
LEMMA QueueFrame ==
  ASSUME Core, NEW f \in Files, Line(f)' = Line(f),
         \A a \in Requests(<<f, "write">>) :
           node'[a].page = node[a].page /\ mem'[node'[a].data] = mem[node[a].data]
  PROVE  Outstanding(f)' = Outstanding(f)
<1> DEFINE s == Line(f)
<1>1. Outstanding(f) = [i \in 1 .. Len(s) |->
                          [page |-> node[s[i]].page, content |-> mem[node[s[i]].data]]]
  BY DEF Outstanding, Line
<1>2. Outstanding(f)' = [i \in 1 .. Len(s) |->
                           [page |-> node'[s[i]].page, content |-> mem'[node'[s[i]].data]]]
  BY DEF Outstanding, Line
<1>3. \A i \in 1 .. Len(s) : s[i] \in Requests(<<f, "write">>)
  BY LineForm
<1> HIDE DEF s
<1>4. QED
  BY <1>1, <1>2, <1>3

(* The steps the promise does not see.                                     *)
LEMMA Stutters ==
  ASSUME Core, UNCHANGED committed,
         \A f \in Files, p \in Pages : disk'[f][p] = disk[f][p],
         \A f \in Files : Line(f)' = Line(f),
         \A f \in Files : \A a \in Requests(<<f, "write">>) :
           node'[a].page = node[a].page /\ mem'[node'[a].data] = mem[node[a].data]
  PROVE  UNCHANGED Promise!vars
<1>1. \A f \in Files : Outstanding(f)' = Outstanding(f)
  BY QueueFrame
<1>2. QED
  BY <1>1 DEF Promise!vars

(* Taking a request out of its queue or putting a served node on the free  *)
(* list changes neither the line nor what is in it.                        *)
LEMMA PopLine ==
  ASSUME Core, NEW c \in Chans, Pop(c), NEW f \in Files
  PROVE  Line(f)' = Line(f)
<1> DEFINE w == <<f, "write">>
<1>1. w \in Chans /\ queued[w] \in Seq(Aios)
  BY ChanForms DEF Core, TypeOK
<1>2. /\ cur'[c] = head[c] /\ queued'[c] = Tail(queued[c]) /\ tpc'[c] = "seek"
      /\ \A d \in Chans : d # c => cur'[d] = cur[d] /\ queued'[d] = queued[d] /\ tpc'[d] = tpc[d]
  BY DEF Pop, Core, TypeOK
<1>3. CASE w = c
  <2>1. tpc[c] \in {"woken", "lock"} /\ (tpc[c] = "lock" => head[c] # NULL)
    BY DEF Pop
  <2>2. Links(node, head[c], queued[c]) /\ (tpc[c] = "woken" => queued[c] # <<>>)
    BY DEF Core, ListsAreSeparate, QueuesLinked, ThreadsCount
  <2>3. queued[c] # <<>> /\ head[c] = queued[c][1]
    BY <2>1, <2>2 DEF Links
  <2>4. Line(f) = <<>> \o queued[c] /\ Line(f)' = <<head[c]>> \o Tail(queued[c])
    BY <1>2, <1>3, <2>1 DEF Line, InFlight
  <2> DEFINE q == queued[c]
  <2>5. q \in Seq(Aios) /\ q # <<>>
    BY <1>1, <1>3, <2>3
  <2> HIDE DEF q
  <2>6. <<>> \o q = q /\ <<q[1]>> \o Tail(q) = q
    BY <2>5
  <2>7. QED
    BY <2>3, <2>4, <2>6 DEF q
<1>4. CASE w # c
  BY <1>1, <1>2, <1>4 DEF Line, InFlight
<1>5. QED
  BY <1>3, <1>4

LEMMA ThreadStutters ==
  ASSUME Core, NEW c \in Chans, Pop(c) \/ Wait(c) \/ Seek(c) \/ Release(c) \/ Finish(c)
  PROVE  UNCHANGED Promise!vars
<1>1. UNCHANGED <<disk, mem, committed>>
  BY DEF Pop, Wait, Seek, Release, Finish, storeVars, ghostVars
<1>2. SameRequests
  <2>1. CASE Pop(c)
    BY <2>1, PopRequests
  <2>2. CASE Release(c)
    BY <2>2, ReleaseRequests
  <2>3. CASE Wait(c) \/ Seek(c) \/ Finish(c)
    <3>1. UNCHANGED <<node, queued, cur, call>>
          /\ (UNCHANGED mpc \/ (mpc # "enqueue" /\ mpc' # "enqueue"))
      BY <2>3 DEF Wait, Seek, Finish, SignalDrain, heapVars, queueVars, clientVars
    <3>2. \A d \in Chans : tpc'[d] \in {"seek", "transfer"} <=> tpc[d] \in {"seek", "transfer"}
      BY <2>3 DEF Wait, Seek, Finish, Core, TypeOK
    <3>3. QED
      BY <3>1, <3>2, OtherRequests
  <2>4. QED
    BY <2>1, <2>2, <2>3
<1>3. ASSUME NEW f \in Files PROVE Line(f)' = Line(f)
  <2>1. CASE Pop(c)
    BY <2>1, PopLine
  <2>2. CASE Wait(c) \/ Seek(c) \/ Release(c) \/ Finish(c)
    <3> DEFINE w == <<f, "write">>
    <3>1. w \in Chans
      BY ChanForms
    <3>2. queued' = queued
      BY <2>2 DEF Wait, Seek, Release, Finish, queueVars
    <3>3. tpc'[w] \in {"seek", "transfer"} <=> tpc[w] \in {"seek", "transfer"}
      BY <2>2, <3>1 DEF Wait, Seek, Release, Finish, Core, TypeOK
    <3>4. tpc[w] \in {"seek", "transfer"} => cur'[w] = cur[w]
      BY <2>2, <3>1 DEF Wait, Seek, Release, Finish, Core, TypeOK
    <3>5. QED
      BY <3>2, <3>3, <3>4 DEF Line, InFlight
  <2>3. QED
    BY <2>1, <2>2
<1>4. \A f \in Files : \A a \in Requests(<<f, "write">>) :
        node'[a].page = node[a].page /\ mem'[node'[a].data] = mem[node[a].data]
  BY <1>1, <1>2, ChanForms DEF SameRequests
<1>5. QED
  BY <1>1, <1>3, <1>4, Stutters

(* The main thread appends a write to its queue: the promise's Submit.     *)
LEMMA EnqueueStep ==
  ASSUME Core, Core', DataPages, DataPages', Enqueue
  PROVE  [Promise!Next]_(Promise!vars)
<1>1. PICK c \in Chans : c = call.chan
  BY DEF Core, TypeOK, Call
<1>2. PICK a \in Aios : a = call.aio
  BY DEF Enqueue, Core, RequestsTyped
<1>3. /\ mpc = "enqueue" /\ UNCHANGED <<cur, disk, mem, committed>>
      /\ queued' = [queued EXCEPT ![c] = Append(@, a)]
      /\ tpc' = [tpc EXCEPT ![c] = IF @ = "wait" THEN "woken" ELSE @]
  BY <1>1, <1>2 DEF Enqueue, SignalThread, storeVars, ghostVars
<1>4. SameRequests
  BY EnqueueRequests
<1>5. \A d \in Chans : InFlight(d)' = InFlight(d)
  BY <1>3 DEF InFlight, Core, TypeOK
<1>6. ASSUME NEW f \in Files, c # <<f, "write">> PROVE Line(f)' = Line(f)
  <2>1. queued'[<<f, "write">>] = queued[<<f, "write">>]
    BY <1>3, <1>6, ChanForms DEF Core, TypeOK
  <2>2. QED
    BY <1>5, <2>1, ChanForms DEF Line
<1>7. \A f \in Files : \A x \in Requests(<<f, "write">>) :
        node'[x].page = node[x].page /\ mem'[node'[x].data] = mem[node[x].data]
  BY <1>3, <1>4, ChanForms DEF SameRequests
<1>8. CASE \A f \in Files : c # <<f, "write">>
  BY <1>3, <1>6, <1>7, <1>8, Stutters
<1>9. CASE \E f \in Files : c = <<f, "write">>
  <2>1. PICK f \in Files : c = <<f, "write">>
    BY <1>9
  <2> DEFINE s == Line(f)
             n == Len(s)
             q == Outstanding(f)
             W == [page : Pages, content : Contents]
             e == [page |-> node[a].page, content |-> mem[node[a].data]]
  <2>2. s \in Seq(Aios) /\ n \in Nat /\ \A i \in 1 .. n : s[i] \in Requests(c)
    BY <2>1, LineForm
  <2>3. a \in Requests(c) /\ node[a].page \in Pages /\ node[a].data \in Buffers
    BY <1>1, <1>2, <1>3 DEF Requests, Core, RequestsTyped
  <2>4. e \in W
    BY <2>3 DEF DataPages
  <2>5. q \in Seq(W) /\ Len(q) = n /\ \A i \in 1 .. n : q[i] = WriteOf(s[i])
    BY OutstandingSeq
  <2>6. Line(f)' = Append(s, a)
    <3> DEFINE h == InFlight(c)
               r == queued[c]
    <3>1. Line(f)' = h \o Append(r, a) /\ s = h \o r
      BY <1>3, <1>5, <2>1, ChanForms DEF Line, Core, TypeOK
    <3>2. r \in Seq(Aios) /\ h \in Seq(Aios)
      <4>1. r \in Seq(Aios)
        BY DEF Core, TypeOK
      <4>2. tpc[c] \in {"seek", "transfer"} => cur[c] \in Aios
        BY RequestsAreNodes DEF Requests
      <4>3. QED
        BY <4>1, <4>2 DEF InFlight
    <3> HIDE DEF h, r, s
    <3>3. h \o Append(r, a) = Append(h \o r, a)
      BY <3>2
    <3>4. QED
      BY <3>1, <3>3
  <2>7. Outstanding(f)' = [i \in 1 .. n + 1 |->
           [page |-> node'[Append(s, a)[i]].page, content |-> mem'[node'[Append(s, a)[i]].data]]]
    <3>1. Outstanding(f)' = [i \in 1 .. Len(Line(f)') |->
            [page |-> node'[Line(f)'[i]].page, content |-> mem'[node'[Line(f)'[i]].data]]]
      BY DEF Outstanding, Line
    <3>2. Len(Append(s, a)) = n + 1
      <4> HIDE DEF s
      <4>1. QED
        BY <2>2
    <3> HIDE DEF s, n
    <3>3. QED
      BY <2>6, <3>1, <3>2
  <2>8. ASSUME NEW i \in 1 .. n + 1
        PROVE [page |-> node'[Append(s, a)[i]].page, content |-> mem'[node'[Append(s, a)[i]].data]]
              = Append(q, e)[i]
    <3>1. CASE i = n + 1
      <4>1. Append(s, a)[i] = a /\ Append(q, e)[i] = e
        <5> HIDE DEF s, q, e, W, n
        <5>1. n = Len(s)
          BY DEF n
        <5>2. QED
          BY <2>2, <2>4, <2>5, <3>1, <5>1
      <4>2. node'[a].page = node[a].page /\ mem'[node'[a].data] = mem[node[a].data]
        BY <1>7, <2>1, <2>3
      <4> HIDE DEF s, q, n
      <4>3. QED
        BY <4>1, <4>2
    <3>2. CASE i \in 1 .. n
      <4>1. Append(s, a)[i] = s[i] /\ Append(q, e)[i] = q[i]
        <5> HIDE DEF s, q, e, W, n
        <5>1. n = Len(s)
          BY DEF n
        <5>2. QED
          BY <2>2, <2>4, <2>5, <3>2, <5>1
      <4>2. /\ node'[s[i]].page = node[s[i]].page
            /\ mem'[node'[s[i]].data] = mem[node[s[i]].data]
        BY <1>7, <2>1, <2>2, <3>2
      <4>3. q[i] = [page |-> node[s[i]].page, content |-> mem[node[s[i]].data]]
        BY <2>5, <3>2 DEF WriteOf
      <4> HIDE DEF s, q, n, e
      <4>4. QED
        BY <4>1, <4>2, <4>3
    <3>3. i = n + 1 \/ i \in 1 .. n
      <4> HIDE DEF n
      <4>1. QED
        BY <2>2
    <3>4. QED
      BY <3>1, <3>2, <3>3
  <2>9. Outstanding(f)' = Append(q, e)
    <3>1. Outstanding(f)' = [i \in 1 .. n + 1 |-> Append(q, e)[i]]
      BY <2>7, <2>8
    <3> DEFINE t == Append(q, e)
    <3>2. t = [i \in 1 .. n + 1 |-> t[i]]
      <4> HIDE DEF q, e, W, n
      <4>1. t \in Seq(W) /\ Len(t) = n + 1
        BY <2>4, <2>5
      <4> HIDE DEF t
      <4>2. QED
        BY <4>1
    <3>3. QED
      BY <3>1, <3>2
  <2>10. \A g \in Files : g # f => Outstanding(g)' = Outstanding(g)
    BY <1>6, <1>7, <2>1, QueueFrame
  <2>11. Queue' = [Queue EXCEPT ![f] = Append(@, e)]
    <3>1. Queue[f] = q /\ DOMAIN Queue = Files
      BY DEF Queue
    <3>2. Queue' = [g \in Files |-> IF g = f THEN Append(Queue[f], e) ELSE Queue[g]]
      BY <2>9, <2>10, <3>1 DEF Queue
    <3>3. QED
      BY <3>1, <3>2
  <2>12. Promise!Submit(f, node[a].page, mem[node[a].data])
    BY <1>3, <2>11 DEF Promise!Submit, Queue
  <2>13. mem[node[a].data] \in Contents
    BY <2>3 DEF DataPages
  <2>14. QED
    BY <2>3, <2>12, <2>13 DEF Promise!Next
<1>10. QED
  BY <1>8, <1>9

(* A writer's write(), at an offset that is still where its lseek() left   *)
(* it: the promise's Land, of the oldest write of the file.                *)
LEMMA LandStep ==
  ASSUME Core, Core', Durable, DataPages, DataPages', NEW f \in Files, Transfer(<<f, "write">>)
  PROVE  [Promise!Next]_(Promise!vars)
<1>1. PICK c \in Chans : c = <<f, "write">>
  BY ChanForms
<1>2. PICK a \in Aios : a = cur[c]
  BY <1>1, TransferPlace
<1> DEFINE p == node[a].page
           b == node[a].data
<1>3. p \in Pages /\ b \in Buffers /\ offset[f] = p /\ a \in Requests(c)
  BY <1>1, <1>2, TransferPlace, TransferRequest DEF FileOf
<1>4. /\ tpc[c] = "transfer" /\ tpc'[c] = "release"
      /\ \A d \in Chans : d # c => tpc'[d] = tpc[d]
      /\ UNCHANGED <<node, queued, cur, mem, committed>>
      /\ disk' = [disk EXCEPT ![f][p] = mem[b]]
  BY <1>1, <1>2, <1>3 DEF Transfer, FileOf, IsWrite, heapVars, queueVars, ghostVars, Core, TypeOK
<1> DEFINE r == queued[c]
           s == Line(f)
           q == Outstanding(f)
           W == [page : Pages, content : Contents]
<1>5. r \in Seq(Aios) /\ s = <<a>> \o r /\ Line(f)' = <<>> \o r
  <2>1. r \in Seq(Aios)
    BY DEF Core, TypeOK
  <2>2. QED
    BY <1>1, <1>2, <1>4, <2>1 DEF Line, InFlight
<1>6. /\ Line(f)' = r /\ Len(s) = Len(r) + 1 /\ Len(r) \in Nat /\ s[1] = a
      /\ \A i \in 1 .. Len(r) : s[i + 1] = r[i]
  <2> HIDE DEF r, s
  <2>1. <<>> \o r = r /\ Len(<<a>> \o r) = Len(r) + 1 /\ (<<a>> \o r)[1] = a
        /\ \A i \in 1 .. Len(r) : (<<a>> \o r)[i + 1] = r[i]
    BY <1>5
  <2>2. QED
    BY <1>5, <2>1
<1>7. q \in Seq(W) /\ Len(q) = Len(s) /\ \A i \in 1 .. Len(s) : q[i] = WriteOf(s[i])
  BY OutstandingSeq
<1>8. q[1] = [page |-> p, content |-> mem[b]] /\ 1 \in 1 .. Len(q)
  <2> HIDE DEF q, s, r
  <2>1. 1 \in 1 .. Len(s)
    BY <1>6
  <2>2. QED
    BY <1>6, <1>7, <2>1 DEF WriteOf
<1> DEFINE t == SubSeq(q, 1, 1 - 1) \o SubSeq(q, 1 + 1, Len(q))
<1>9. t = [i \in 1 .. Len(r) |-> q[i + 1]]
  <2> HIDE DEF q, s, r, W
  <2>1. SubSeq(q, 1, 1 - 1) = <<>>
    BY <1>6, <1>7
  <2>2. SubSeq(q, 1 + 1, Len(q)) \in Seq(W) /\ Len(SubSeq(q, 1 + 1, Len(q))) = Len(r)
        /\ \A i \in 1 .. Len(r) : SubSeq(q, 1 + 1, Len(q))[i] = q[i + 1]
    BY <1>6, <1>7
  <2> DEFINE u == SubSeq(q, 1 + 1, Len(q))
  <2> HIDE DEF u
  <2>3. u \in Seq(W) /\ Len(u) = Len(r) /\ \A i \in 1 .. Len(r) : u[i] = q[i + 1]
    BY <2>2 DEF u
  <2>4. <<>> \o u = u /\ u = [i \in 1 .. Len(r) |-> u[i]]
    BY <2>3
  <2>5. QED
    BY <2>1, <2>3, <2>4 DEF u
<1>10. Outstanding(f)' = t
  <2>1. Outstanding(f)' = [i \in 1 .. Len(r) |-> [page |-> node[r[i]].page, content |-> mem[node[r[i]].data]]]
    <3>1. Outstanding(f)' = [i \in 1 .. Len(Line(f)') |->
            [page |-> node'[Line(f)'[i]].page, content |-> mem'[node'[Line(f)'[i]].data]]]
      BY DEF Outstanding, Line
    <3> HIDE DEF r
    <3>2. QED
      BY <1>4, <1>6, <3>1
  <2>2. ASSUME NEW i \in 1 .. Len(r)
        PROVE [page |-> node[r[i]].page, content |-> mem[node[r[i]].data]] = q[i + 1]
    <3> HIDE DEF r, s, q
    <3>1. i + 1 \in 1 .. Len(s)
      BY <1>6
    <3>2. QED
      BY <1>6, <1>7, <3>1 DEF WriteOf
  <2>3. QED
    BY <1>9, <2>1, <2>2
<1>11. ASSUME NEW g \in Files, g # f PROVE Outstanding(g)' = Outstanding(g)
  <2>1. <<g, "write">> \in Chans /\ <<g, "write">> # c
    BY <1>1, <1>11, ChanForms
  <2>2. Line(g)' = Line(g)
    BY <1>4, <2>1 DEF Line, InFlight
  <2>3. QED
    BY <1>4, <2>2, QueueFrame
<1>12. Queue[f] = q /\ Queue' = [Queue EXCEPT ![f] = t]
  <2>1. Queue[f] = q /\ DOMAIN Queue = Files
    BY DEF Queue
  <2>2. Queue' = [g \in Files |-> IF g = f THEN t ELSE Queue[g]]
    BY <1>10, <1>11 DEF Queue
  <2> HIDE DEF q, t
  <2>3. QED
    BY <2>1, <2>2 DEF Queue
<1>13. DataDisk' = [DataDisk EXCEPT ![f][p] = mem[b]]
  <2>1. disk \in [Files -> [Pages \cup {RootPage} -> Contents \cup {RootBlock}]]
    BY DEF Core, TypeOK
  <2>2. \A g \in Files, x \in Pages :
          disk'[g][x] = IF g = f /\ x = p THEN mem[b] ELSE disk[g][x]
    BY <1>3, <1>4, <2>1
  <2>3. DataDisk' = [g \in Files |-> [x \in Pages |-> IF g = f /\ x = p THEN mem[b] ELSE disk[g][x]]]
    BY <2>2 DEF DataDisk
  <2>4. [DataDisk EXCEPT ![f][p] = mem[b]]
        = [g \in Files |-> [x \in Pages |-> IF g = f /\ x = p THEN mem[b] ELSE disk[g][x]]]
    BY <1>3 DEF DataDisk
  <2>5. QED
    BY <2>3, <2>4
<1>14. Promise!Land(f, 1)
  <2>1. /\ \A j \in 1 .. 1 - 1 : Queue[f][j].page # Queue[f][1].page
        /\ DataDisk' = [DataDisk EXCEPT ![f][Queue[f][1].page] = Queue[f][1].content]
        /\ Queue' = [Queue EXCEPT ![f] = SubSeq(@, 1, 1 - 1) \o SubSeq(@, 1 + 1, Len(@))]
        /\ committed' = committed
    <3>1. Queue[f][1].page = p /\ Queue[f][1].content = mem[b]
      BY <1>8, <1>12
    <3>2. Queue' = [Queue EXCEPT ![f] = SubSeq(@, 1, 1 - 1) \o SubSeq(@, 1 + 1, Len(@))]
      <4> HIDE DEF q
      <4>1. QED
        BY <1>12
    <3> HIDE DEF q, t
    <3>3. QED
      BY <1>4, <1>13, <3>1, <3>2
  <2>2. QED
    BY <2>1 DEF Promise!Land, Queue, DataDisk
<1>15. QED
  BY <1>8, <1>12, <1>14 DEF Promise!Next, Queue

(* The root block is written with no write outstanding, and what the disk  *)
(* holds then is what was wanted there: the promise's Commit.              *)
LEMMA CommitStep ==
  ASSUME Core, Durable, RootWrite
  PROVE  Promise!Commit
<1>1. /\ mpc = "rootwrite" /\ committed' = want /\ UNCHANGED <<node, queued, tpc, cur, mem>>
  BY DEF RootWrite, heapVars, queueVars, threadVars
<1>2. \A f \in Files : Requests(<<f, "write">>) = {}
  BY <1>1 DEF Durable, DrainProgress
<1>3. \A f \in Files, p \in Pages : disk'[f][p] = disk[f][p] /\ disk[f][p] = want[f][p]
  BY <1>2, DataRootWrite DEF Durable, DiskWanted
<1>4. want \in [Files -> [Pages -> Contents \cup {RootBlock}]]
  BY DEF Core, TypeOK
<1>5. committed' = DataDisk /\ DataDisk' = DataDisk
  BY <1>1, <1>3, <1>4 DEF DataDisk
<1>6. ASSUME NEW f \in Files PROVE Outstanding(f) = <<>>
  <2> DEFINE n == Len(Line(f))
  <2>1. n \in Nat /\ Outstanding(f) = [i \in 1 .. n |-> WriteOf(Line(f)[i])]
    BY OutstandingForm
  <2>2. \A i \in 1 .. n : FALSE
    BY <1>2, LineForm
  <2> HIDE DEF n
  <2>3. n = 0
    BY <2>1, <2>2
  <2>4. QED
    BY <2>1, <2>3
<1>7. Queue' = Queue
  <2>1. \A f \in Files : Outstanding(f)' = Outstanding(f)
    BY <1>1 DEF Outstanding, InFlight
  <2>2. QED
    BY <2>1 DEF Queue
<1>8. QED
  BY <1>5, <1>6, <1>7 DEF Promise!Commit, Queue, DataDisk

(* The main thread's other steps.                                          *)
LEMMA MainStutters ==
  ASSUME Core, Durable, Main, ~Enqueue, ~RootWrite
  PROVE  UNCHANGED Promise!vars
<1>1. UNCHANGED <<queued, tpc, cur, disk, committed>>
  <2>1. CASE \E f \in Files, p \in Pages, b \in Buffers : WritePage(f, p, b) \/ ReadPage(f, p, b)
    BY <2>1 DEF WritePage, ReadPage, queueVars, threadVars, storeVars
  <2>2. CASE \/ io_write_root \/ io_allow_page_changes \/ io_read_page_wait
             \/ DrainFile \/ DrainSpuriousWakeup \/ DrainReturn \/ RootSeek
             \/ (\E b \in Buffers, v \in Contents : ChangePage(b, v))
             \/ FinishRecovery
    BY <2>2 DEF io_write_root, io_allow_page_changes, io_read_page_wait,
                asyncio_drain_pending_writes, asyncio_drain_pending_reads, StartDrain,
                DrainFile, DrainSpuriousWakeup, DrainReturn, RootSeek, ChangePage,
                FinishRecovery, queueVars, threadVars, storeVars, ghostVars
  <2>3. QED
    BY <2>1, <2>2 DEF Main
<1>2. \A f \in Files : Line(f)' = Line(f)
  BY <1>1 DEF Line, InFlight
<1>3. ASSUME NEW f \in Files, NEW a \in Requests(<<f, "write">>)
      PROVE  node'[a].page = node[a].page /\ mem'[node'[a].data] = mem[node[a].data]
  <2>1. <<f, "write">> \in Chans
    BY ChanForms
  <2>2. ASSUME NEW g \in Files, NEW p \in Pages, NEW b \in Buffers,
               WritePage(g, p, b) \/ ReadPage(g, p, b)
        PROVE  node'[a] = node[a] /\ mem' = mem
    <3>1. PICK c \in Chans, x \in Aios : TakeAio(c, p, b, x)
      BY <2>2, ChanForms DEF WritePage, ReadPage
    <3>2. mpc = "idle" /\ UNCHANGED <<queueVars, threadVars, mem>>
      BY <2>2 DEF WritePage, ReadPage, storeVars
    <3>3. QED
      BY <2>1, <3>1, <3>2, TakeRequest
  <2>3. ASSUME NEW b \in Buffers, NEW v \in Contents, ChangePage(b, v)
        PROVE  node' = node /\ mem'[node[a].data] = mem[node[a].data]
    <3>1. node[a].data \in lent /\ node[a].data \in Buffers
      BY <2>1 DEF Durable, WritesWanted, Core, RequestsTyped
    <3>2. node' = node /\ b \notin lent /\ mem' = [mem EXCEPT ![b] = v]
      BY <2>3 DEF ChangePage, heapVars
    <3>3. QED
      BY <3>1, <3>2 DEF Core, TypeOK
  <2>4. CASE \/ io_write_root \/ io_allow_page_changes \/ io_read_page_wait
             \/ DrainFile \/ DrainSpuriousWakeup \/ DrainReturn \/ RootSeek
             \/ FinishRecovery
    BY <2>4 DEF io_write_root, io_allow_page_changes, io_read_page_wait,
                asyncio_drain_pending_writes, asyncio_drain_pending_reads, StartDrain,
                DrainFile, DrainSpuriousWakeup, DrainReturn, RootSeek,
                FinishRecovery, heapVars, storeVars
  <2>5. QED
    BY <2>2, <2>3, <2>4 DEF Main
<1>4. QED
  BY <1>1, <1>2, <1>3, Stutters

(* A reader's read() fills a memory page that no write is outstanding for: *)
(* there are no writes during recovery.                                    *)
LEMMA ReaderStutters ==
  ASSUME Core, Durable, NEW f \in Files, Transfer(<<f, "read">>)
  PROVE  UNCHANGED Promise!vars
<1>1. PICK c \in Chans : c = <<f, "read">>
  BY ChanForms
<1>2. /\ UNCHANGED <<queued, cur, disk, committed, node>>
      /\ tpc' = [tpc EXCEPT ![c] = "release"]
  BY <1>1 DEF Transfer, FileOf, IsWrite, heapVars, queueVars, ghostVars
<1>3. ASSUME NEW g \in Files PROVE Line(g)' = Line(g)
  <2>1. <<g, "write">> \in Chans /\ <<g, "write">> # c
    BY <1>1, ChanForms
  <2>2. tpc'[<<g, "write">>] = tpc[<<g, "write">>]
    BY <1>2, <2>1 DEF Core, TypeOK
  <2>3. QED
    BY <1>2, <2>2 DEF Line, InFlight
<1>4. \A g \in Files : Requests(<<g, "write">>) = {}
  <2>1. Requests(c) # {}
    BY <1>1, TransferRequest
  <2>2. mode # "running" /\ mode \in {"recovering", "running"}
    BY <1>1, <2>1, OffsetOwner DEF Core, TypeOK
  <2>3. QED
    BY <2>2 DEF Durable, OneDirection
<1>5. QED
  BY <1>2, <1>3, <1>4, Stutters

LEMMA PromiseStep ==
  ASSUME Core, Core', Durable, DataPages, DataPages', [Next]_vars
  PROVE  [Promise!Next]_(Promise!vars)
<1>1. ASSUME NEW f \in Files, writer_thread(f) PROVE [Promise!Next]_(Promise!vars)
  BY <1>1, ChanForms, LandStep, ThreadStutters DEF writer_thread, Thread
<1>2. ASSUME NEW f \in Files, reader_thread(f) PROVE [Promise!Next]_(Promise!vars)
  BY <1>2, ChanForms, ReaderStutters, ThreadStutters DEF reader_thread, Thread
<1>3. CASE RootWrite
  BY <1>3, CommitStep DEF Promise!Next
<1>4. CASE Enqueue
  BY <1>4, EnqueueStep
<1>5. CASE Main /\ ~RootWrite /\ ~Enqueue
  BY <1>5, MainStutters
<1>6. CASE UNCHANGED vars
  <2>1. UNCHANGED <<node, mem, queued, tpc, cur, disk, committed>>
    BY <1>6 DEF vars, heapVars, queueVars, threadVars, storeVars, ghostVars
  <2>2. \A f \in Files : Outstanding(f)' = Outstanding(f)
    BY <2>1 DEF Outstanding, InFlight
  <2>3. QED
    BY <2>1, <2>2 DEF Promise!vars
<1>7. QED
  BY <1>1, <1>2, <1>3, <1>4, <1>5, <1>6 DEF Next

(* The queues, the threads and the offsets shared by dup() keep the        *)
(* write-behind promise of asyncio.h: every write reaches its page with    *)
(* the contents it was requested with, in order, and io_write_root writes  *)
(* the root block when none is outstanding.                                *)
THEOREM ImplementsPromise == Spec => PromiseKept
<1>1. Init => Promise!Init
  <2> SUFFICES ASSUME Init PROVE Promise!Init
    OBVIOUS
  <2>1. PICK onDisk \in [Files -> [Pages -> Contents]] :
          /\ disk = [f \in Files |-> [p \in Pages \cup {RootPage} |->
                       IF p = RootPage THEN RootBlock ELSE onDisk[f][p]]]
          /\ committed = onDisk
    BY DEF Init
  <2>2. \A f \in Files, p \in Pages : disk[f][p] = onDisk[f][p]
    BY <2>1, RootPageAssumption
  <2>3. DataDisk = onDisk
    BY <2>2 DEF DataDisk
  <2>4. ASSUME NEW f \in Files PROVE Outstanding(f) = <<>>
    <3>1. tpc[<<f, "write">>] = "lock" /\ queued[<<f, "write">>] = <<>>
      BY ChanForms DEF Init
    <3>2. Line(f) = <<>> \o <<>>
      BY <3>1 DEF Line, InFlight
    <3>3. Len(Line(f)) = 0
      BY <3>2
    <3>4. Outstanding(f) = [i \in 1 .. Len(Line(f)) |-> WriteOf(Line(f)[i])]
      BY CoreInit, OutstandingForm
    <3>5. QED
      BY <3>3, <3>4
  <2>5. QED
    BY <2>1, <2>3, <2>4 DEF Promise!Init, DataDisk
<1>2. Core /\ Core' /\ Durable /\ DataPages /\ DataPages' /\ [Next]_vars
        => [Promise!Next]_(Promise!vars)
  BY PromiseStep
<1>3. QED
  BY <1>1, <1>2, CoreInvariant, DurableInvariant, DataInvariant, PTL
     DEF Spec, PromiseKept, Promise!Spec
================================================================================
