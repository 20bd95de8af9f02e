----------------------------- MODULE AsyncIoProofs -----------------------------
(***************************************************************************)
(* Proofs about AsyncIo for any number of files, pages and aio nodes.      *)
(***************************************************************************)
EXTENDS AsyncIo, TLAPS

--------------------------------------------------------------------------------
(* The inductive invariant.                                                *)

Busy == {"seek", "transfer", "release", "finish"}
Holding == {"seek", "transfer", "release"}

(* A thread holds a node exactly while it serves it, a request counts as   *)
(* pending until the thread has finished with it, and a signalled thread   *)
(* has something to pop.                                                   *)
ThreadsCount ==
  \A c \in Chans :
    /\ cur[c] # NULL <=> tpc[c] \in Holding
    /\ tpc[c] \in Busy => pending[c] = Len(queued[c]) + 1
    /\ tpc[c] \notin Busy => pending[c] = Len(queued[c])
    /\ tpc[c] = "woken" => queued[c] # <<>>

(* Only nodes from malloc are in use.                                      *)
OnlyMalloced ==
  /\ Members(freed) \subseteq malloced
  /\ mpc = "enqueue" => call.aio \in malloced
  /\ \A c \in Chans : /\ Members(queued[c]) \subseteq malloced
                      /\ cur[c] # NULL => cur[c] \in malloced

(* The nodes with requests to queue c that are still to be carried out.    *)
Requests(c) ==
  Members(queued[c])
    \cup (IF tpc[c] \in {"seek", "transfer"} THEN {cur[c]} ELSE {})
    \cup (IF mpc = "enqueue" /\ call.chan = c THEN {call.aio} ELSE {})

RequestsTyped ==
  /\ mpc = "enqueue" => call.aio \in Aios /\ node[call.aio].next = NULL
  /\ \A c \in Chans : \A a \in Requests(c) :
       node[a].page \in Pages /\ node[a].data \in Buffers

Core == TypeOK /\ ThreadsCount /\ OnlyMalloced /\ ListsAreSeparate /\ RequestsTyped

--------------------------------------------------------------------------------
(* Sequences of nodes and lists.                                           *)

(* The nodes of a sequence of nodes.                                       *)
LEMMA MembersOf ==
  ASSUME NEW s \in Seq(Aios)
  PROVE /\ Members(s) \subseteq Aios
        /\ s # <<>> => s[1] \in Members(s) /\ s[Len(s)] \in Members(s)
BY DEF Members

LEMMA MembersEmpty == Members(<<>>) = {}
BY DEF Members

LEMMA MembersAppend ==
  ASSUME NEW s \in Seq(Aios), NEW a \in Aios
  PROVE Members(Append(s, a)) = Members(s) \cup {a}
<1>1. Len(Append(s, a)) = Len(s) + 1 /\ Append(s, a)[Len(s) + 1] = a
      /\ \A i \in 1 .. Len(s) : Append(s, a)[i] = s[i]
  OBVIOUS
<1>2. QED
  BY <1>1 DEF Members

LEMMA MembersPush ==
  ASSUME NEW s \in Seq(Aios), NEW a \in Aios
  PROVE Members(<<a>> \o s) = {a} \cup Members(s)
<1> DEFINE t == <<a>> \o s
<1>1. Len(s) \in Nat /\ Len(t) = Len(s) + 1 /\ t[1] = a
      /\ \A i \in 1 .. Len(s) : t[i + 1] = s[i]
  OBVIOUS
<1>2. \A i \in 1 .. Len(t) : i = 1 \/ (i - 1 \in 1 .. Len(s) /\ t[i] = s[i - 1])
  BY <1>1
<1>3. Members(t) \subseteq {a} \cup Members(s)
  BY <1>1, <1>2 DEF Members
<1>4. ASSUME NEW i \in 1 .. Len(s) PROVE s[i] \in Members(t)
  <2>1. i + 1 \in 1 .. Len(t) /\ t[i + 1] = s[i]
    BY <1>1
  <2>2. QED
    BY <2>1 DEF Members
<1>5. a \in Members(t)
  BY <1>1 DEF Members
<1>6. QED
  BY <1>3, <1>4, <1>5 DEF Members

LEMMA MembersTail ==
  ASSUME NEW s \in Seq(Aios), s # <<>>
  PROVE Members(s) = {s[1]} \cup Members(Tail(s))
<1> DEFINE t == Tail(s)
<1>1. Len(s) \in Nat \ {0} /\ Len(t) = Len(s) - 1 /\ \A i \in 1 .. Len(t) : t[i] = s[i + 1]
  OBVIOUS
<1>2. Members(t) \subseteq Members(s) /\ s[1] \in Members(s)
  BY <1>1 DEF Members
<1>3. ASSUME NEW i \in 1 .. Len(s), i # 1 PROVE s[i] \in Members(t)
  <2>1. i - 1 \in 1 .. Len(t) /\ t[i - 1] = s[i]
    BY <1>1, <1>3
  <2>2. QED
    BY <2>1 DEF Members
<1>4. QED
  BY <1>2, <1>3 DEF Members

(* Appending, pushing and popping keep the nodes of a sequence distinct.   *)
LEMMA DistinctGrow ==
  ASSUME NEW s \in Seq(Aios), NEW a \in Aios, Distinct(s), a \notin Members(s)
  PROVE Distinct(Append(s, a)) /\ Distinct(<<a>> \o s)
<1>1. Distinct(Append(s, a))
  BY DEF Members, Distinct
<1>2. Distinct(<<a>> \o s)
  BY DEF Members, Distinct
<1>3. QED
  BY <1>1, <1>2

LEMMA DistinctTail ==
  ASSUME NEW s \in Seq(Aios), Distinct(s), s # <<>>
  PROVE Distinct(Tail(s)) /\ s[1] \notin Members(Tail(s)) /\ Tail(s) \in Seq(Aios)
BY DEF Members, Distinct

(* A list does not depend on the links of other nodes.                     *)
LEMMA LinksFrame ==
  ASSUME NEW s \in Seq(Aios), NEW first, NEW nd, NEW nd2, Links(nd, first, s),
         \A x \in Members(s) : nd2[x].next = nd[x].next
  PROVE Links(nd2, first, s)
BY DEF Links, Members

(* Taking the first node off a list.                                       *)
LEMMA LinksPop ==
  ASSUME NEW s \in Seq(Aios), NEW first, NEW nd, Links(nd, first, s), s # <<>>
  PROVE Links(nd, nd[first].next, Tail(s))
<1>1. Len(s) \in Nat \ {0} /\ Len(Tail(s)) = Len(s) - 1
      /\ \A i \in 1 .. Len(s) - 1 : Tail(s)[i] = s[i + 1]
  OBVIOUS
<1>2. \A i \in 1 .. Len(s) : s[i] \in Aios
  OBVIOUS
<1>3. CASE Len(s) = 1
  BY <1>1, <1>3, SMTT(40) DEF Links
<1>4. CASE Len(s) > 1
  <2>1. Tail(s) # <<>> /\ nd[first].next = s[2] /\ s[2] # NULL
    BY <1>1, <1>2, <1>4, NullAssumption DEF Links
  <2>2. Tail(s)[1] = s[2] /\ Tail(s)[Len(Tail(s))] = s[Len(s)]
    BY <1>1, <1>4
  <2>3. \A i \in 1 .. Len(Tail(s)) - 1 : nd[Tail(s)[i]].next = Tail(s)[i + 1]
    BY <1>1, <1>4 DEF Links
  <2>4. QED
    BY <2>1, <2>2, <2>3 DEF Links
<1>5. QED
  BY <1>1, <1>3, <1>4

(* Putting a node in front of a list.                                      *)
LEMMA LinksPush ==
  ASSUME NEW s \in Seq(Aios), NEW first, NEW nd, NEW nd2, NEW a \in Aios,
         Links(nd, first, s), nd2[a].next = first,
         \A x \in Members(s) : nd2[x].next = nd[x].next
  PROVE Links(nd2, a, <<a>> \o s)
<1> DEFINE t == <<a>> \o s
<1>1. Len(s) \in Nat /\ Len(t) = Len(s) + 1 /\ t[1] = a /\ t # <<>>
      /\ \A i \in 1 .. Len(s) : t[i + 1] = s[i] /\ s[i] \in Members(s)
  BY DEF Members
<1>2. a # NULL
  BY NullAssumption
<1>3. nd2[t[Len(t)]].next = NULL
  BY <1>1 DEF Links
<1>4. ASSUME NEW i \in 1 .. Len(t) - 1 PROVE nd2[t[i]].next = t[i + 1]
  <2>1. CASE i = 1
    BY <1>1, <2>1 DEF Links
  <2>2. CASE i > 1
    <3>1. i - 1 \in 1 .. Len(s) - 1 /\ i - 1 \in 1 .. Len(s) /\ i \in 1 .. Len(s)
      BY <1>1, <2>2
    <3>2. t[i] = s[i - 1] /\ t[i + 1] = s[i] /\ s[i - 1] \in Members(s)
      BY <1>1, <3>1
    <3>3. nd[s[i - 1]].next = s[i]
      BY <3>1 DEF Links
    <3>4. QED
      BY <3>2, <3>3
  <2>3. QED
    BY <1>1, <2>1, <2>2
<1>5. QED
  BY <1>1, <1>2, <1>3, <1>4 DEF Links

(* Linking a node behind the last one of a list.                           *)
LEMMA LinksAppend ==
  ASSUME NEW s \in Seq(Aios), NEW first, NEW nd, NEW nd2, NEW a \in Aios,
         Links(nd, first, s), Distinct(s), s # <<>>, nd2[a].next = NULL,
         nd2[s[Len(s)]].next = a,
         \A x \in Members(s) \ {s[Len(s)]} : nd2[x].next = nd[x].next
  PROVE Links(nd2, first, Append(s, a))
<1> DEFINE t == Append(s, a)
<1>1. Len(s) \in Nat \ {0} /\ Len(t) = Len(s) + 1 /\ t[Len(s) + 1] = a /\ t # <<>>
      /\ \A i \in 1 .. Len(s) : t[i] = s[i] /\ s[i] \in Members(s)
  BY DEF Members
<1>2. first # NULL /\ first = t[1]
  BY <1>1 DEF Links
<1>3. ASSUME NEW i \in 1 .. Len(t) - 1 PROVE nd2[t[i]].next = t[i + 1]
  <2>1. CASE i = Len(s)
    BY <1>1, <2>1
  <2>2. CASE i < Len(s)
    <3>1. s[i] # s[Len(s)] /\ s[i] \in Members(s) /\ t[i + 1] = s[i + 1] /\ t[i] = s[i]
      BY <1>1, <2>2 DEF Distinct
    <3>2. nd[s[i]].next = s[i + 1]
      BY <1>1, <2>2 DEF Links
    <3>3. QED
      BY <3>1, <3>2
  <2>3. QED
    BY <1>1, <2>1, <2>2
<1>4. QED
  BY <1>1, <1>2, <1>3 DEF Links

--------------------------------------------------------------------------------
(* Core is inductive.                                                      *)

LEMMA CoreInit == Init => Core
<1> SUFFICES ASSUME Init PROVE Core
  OBVIOUS
<1>1. \A s \in Seq(Aios) : s = <<>> => Members(s) = {} /\ Distinct(s) /\ Links(node, NULL, s)
  BY DEF Members, Distinct, Links
<1>2. <<>> \in Seq(Aios)
  OBVIOUS
<1>3. TypeOK
  <2>1. <<0, "write">> \in Chans
    BY FilesAssumption DEF Chans, Files
  <2>2. NoCall \in Call /\ NoNode \in Node
    BY <2>1, FilesAssumption DEF NoCall, Call, NoNode, Node
  <2>3. PICK onDisk \in [Files -> [Pages -> Contents]] :
          /\ disk = [f \in Files |-> [p \in Pages \cup {RootPage} |->
                       IF p = RootPage THEN RootBlock ELSE onDisk[f][p]]]
          /\ want = onDisk
          /\ committed = onDisk
    BY DEF Init
  <2>4. disk \in [Files -> [Pages \cup {RootPage} -> Contents \cup {RootBlock}]]
    BY <2>3
  <2>5. QED
    BY <1>2, <2>2, <2>3, <2>4 DEF Init, TypeOK
<1>4. ThreadsCount
  BY DEF Init, ThreadsCount, Holding, Busy
<1>5. Members(freed) = {} /\ \A c \in Chans : Members(queued[c]) = {}
  BY <1>1, <1>2 DEF Init
<1>6. OnlyMalloced /\ HoldersDisjoint
  BY <1>5 DEF Init, OnlyMalloced, HoldersDisjoint
<1>7. FreeListLinked /\ QueuesLinked
  BY <1>1, <1>2 DEF Init, FreeListLinked, QueuesLinked
<1>8. RequestsTyped
  BY <1>5 DEF Init, RequestsTyped, Requests
<1>9. QED
  BY <1>3, <1>4, <1>6, <1>7, <1>8 DEF Core, ListsAreSeparate

(* Taking a node for a request: it comes off the free list, or it is new.  *)
LEMMA TakeAioLists ==
  ASSUME Core, mpc = "idle", NEW c \in Chans, NEW p \in Pages, NEW b \in Buffers,
         NEW a \in Aios, TakeAio(c, p, b, a), UNCHANGED <<queueVars, threadVars>>
  PROVE  ThreadsCount' /\ OnlyMalloced' /\ ListsAreSeparate' /\ RequestsTyped'
<1> USE DEF Core
<1>1. freed \in Seq(Aios) /\ \A d \in Chans : queued[d] \in Seq(Aios)
  BY DEF TypeOK
<1>2. /\ freed' \in Seq(Aios) /\ Distinct(freed') /\ Members(freed') \subseteq Members(freed)
      /\ Links(node, freeAios', freed') /\ a \notin Members(freed')
      /\ a \in malloced' /\ malloced \subseteq malloced'
      /\ \A d \in Chans : a \notin Members(queued[d]) /\ a # cur[d]
  <2>1. CASE freeAios = NULL
    <3>1. a \notin malloced /\ malloced' = malloced \cup {a} /\ freeAios' = freeAios /\ freed' = freed
      BY <2>1 DEF TakeAio
    <3>2. QED
      BY <1>1, <3>1, NullAssumption DEF OnlyMalloced, ListsAreSeparate, FreeListLinked
  <2>2. CASE freeAios # NULL
    <3>1. a = freeAios /\ freeAios' = node[a].next /\ freed' = Tail(freed) /\ malloced' = malloced
      BY <2>2 DEF TakeAio
    <3>2. Links(node, freeAios, freed) /\ Distinct(freed) /\ freed # <<>> /\ a = freed[1]
      BY <2>2, <3>1 DEF ListsAreSeparate, FreeListLinked, Links
    <3>3. /\ a \in Members(freed) /\ Members(freed') \subseteq Members(freed)
          /\ Distinct(freed') /\ a \notin Members(freed') /\ freed' \in Seq(Aios)
      BY <1>1, <3>1, <3>2, MembersOf, MembersTail, DistinctTail
    <3>4. Links(node, freeAios', freed')
      BY <1>1, <3>1, <3>2, LinksPop
    <3>5. QED
      BY <3>1, <3>3, <3>4 DEF OnlyMalloced, ListsAreSeparate, HoldersDisjoint
  <2>3. QED
    BY <2>1, <2>2
<1>3. /\ node' = [node EXCEPT ![a] = [page |-> p, data |-> b, next |-> NULL]]
      /\ call' = [call EXCEPT !.chan = c, !.aio = a]
      /\ mpc' = "enqueue" /\ call'.aio = a /\ call'.chan = c
      /\ UNCHANGED <<head, tail, pending, queued, tpc, cur>>
  BY DEF TakeAio, queueVars, threadVars, TypeOK, Call
<1>4. /\ node'[a].page = p /\ node'[a].data = b /\ node'[a].next = NULL
      /\ \A x \in Aios : x # a => node'[x] = node[x]
  BY <1>3 DEF TypeOK
<1>5. ThreadsCount'
  BY <1>3 DEF ThreadsCount
<1>6. OnlyMalloced'
  BY <1>2, <1>3 DEF OnlyMalloced
<1>7. FreeListLinked'
  <2>1. \A x \in Members(freed') : node'[x].next = node[x].next
    BY <1>2, <1>4, MembersOf
  <2>2. QED
    BY <1>2, <2>1, LinksFrame DEF FreeListLinked
<1>8. QueuesLinked'
  <2> SUFFICES ASSUME NEW d \in Chans
               PROVE  /\ Links(node', head[d], queued[d]) /\ Distinct(queued[d])
                      /\ queued[d] # <<>> => tail[d] = queued[d][Len(queued[d])]
    BY <1>3 DEF QueuesLinked
  <2>1. Links(node, head[d], queued[d]) /\ Distinct(queued[d])
        /\ (queued[d] # <<>> => tail[d] = queued[d][Len(queued[d])])
    BY DEF ListsAreSeparate, QueuesLinked
  <2>2. \A x \in Members(queued[d]) : node'[x].next = node[x].next
    BY <1>1, <1>2, <1>4, MembersOf
  <2>3. QED
    BY <1>1, <2>1, <2>2, LinksFrame
<1>9. HoldersDisjoint'
  BY <1>2, <1>3 DEF ListsAreSeparate, HoldersDisjoint
<1>10. RequestsTyped'
  <2>1. ASSUME NEW d \in Chans, NEW x \in Requests(d)'
        PROVE  node'[x].page \in Pages /\ node'[x].data \in Buffers
    <3>1. x = a \/ x \in Requests(d)
      BY <1>3 DEF Requests
    <3>2. CASE x = a
      BY <1>4, <3>2
    <3>3. CASE x # a
      <4>1. x \in Requests(d) /\ x \in Aios
        BY <1>1, <1>3, <3>1, <3>3, MembersOf DEF Requests, TypeOK, ThreadsCount, Holding
      <4>2. QED
        BY <1>4, <3>3, <4>1 DEF RequestsTyped
    <3>4. QED
      BY <3>2, <3>3
  <2>2. QED
    BY <1>3, <1>4, <2>1 DEF RequestsTyped
<1>11. QED
  BY <1>5, <1>6, <1>7, <1>8, <1>9, <1>10 DEF ListsAreSeparate

(* Appending the node to its queue.                                        *)
LEMMA EnqueueLists ==
  ASSUME Core, Enqueue
  PROVE  ThreadsCount' /\ OnlyMalloced' /\ ListsAreSeparate' /\ RequestsTyped'
<1> USE DEF Core
<1> DEFINE c == call.chan
           a == call.aio
<1>1. /\ c \in Chans /\ a \in Aios /\ mpc = "enqueue" /\ node[a].next = NULL
      /\ freed \in Seq(Aios) /\ \A d \in Chans : queued[d] \in Seq(Aios)
  BY DEF Enqueue, TypeOK, Call, RequestsTyped
<1>2. /\ head' = IF head[c] = NULL THEN [head EXCEPT ![c] = a] ELSE head
      /\ node' = IF head[c] = NULL THEN node ELSE [node EXCEPT ![tail[c]].next = a]
      /\ tail' = [tail EXCEPT ![c] = a]
      /\ pending' = [pending EXCEPT ![c] = @ + 1]
      /\ queued' = [queued EXCEPT ![c] = Append(@, a)]
      /\ tpc' = [tpc EXCEPT ![c] = IF @ = "wait" THEN "woken" ELSE @]
      /\ mpc' = "idle"
      /\ UNCHANGED <<freeAios, malloced, freed, cur>>
  BY DEF Enqueue, SignalThread
<1>3. /\ queued'[c] = Append(queued[c], a) /\ Len(queued'[c]) = Len(queued[c]) + 1
      /\ queued'[c] # <<>> /\ queued'[c][Len(queued'[c])] = a
      /\ Members(queued'[c]) = Members(queued[c]) \cup {a}
      /\ \A d \in Chans : d # c => queued'[d] = queued[d]
  <2>1. queued'[c] = Append(queued[c], a) /\ \A d \in Chans : d # c => queued'[d] = queued[d]
    BY <1>1, <1>2 DEF TypeOK
  <2>2. QED
    BY <1>1, <2>1, MembersAppend, SMTT(40)
<1>4. ThreadsCount'
  <2> SUFFICES ASSUME NEW d \in Chans
               PROVE  /\ cur'[d] # NULL <=> tpc'[d] \in Holding
                      /\ tpc'[d] \in Busy => pending'[d] = Len(queued'[d]) + 1
                      /\ tpc'[d] \notin Busy => pending'[d] = Len(queued'[d])
                      /\ tpc'[d] = "woken" => queued'[d] # <<>>
    BY DEF ThreadsCount
  <2>1. /\ cur[d] # NULL <=> tpc[d] \in Holding
        /\ tpc[d] \in Busy => pending[d] = Len(queued[d]) + 1
        /\ tpc[d] \notin Busy => pending[d] = Len(queued[d])
        /\ tpc[d] = "woken" => queued[d] # <<>>
    BY DEF ThreadsCount
  <2>2. Len(queued[d]) \in Nat
    BY <1>1
  <2>3. CASE d = c
    <3>1. tpc'[d] = (IF tpc[d] = "wait" THEN "woken" ELSE tpc[d]) /\ pending'[d] = pending[d] + 1
          /\ cur'[d] = cur[d]
      BY <1>1, <1>2, <2>3 DEF TypeOK
    <3>2. (tpc'[d] \in Busy <=> tpc[d] \in Busy) /\ (tpc'[d] \in Holding <=> tpc[d] \in Holding)
      BY <3>1 DEF Busy, Holding
    <3>3. Len(queued'[d]) = Len(queued[d]) + 1 /\ queued'[d] # <<>>
      BY <1>3, <2>3
    <3>4. /\ tpc[d] \in Busy => pending'[d] = Len(queued'[d]) + 1
          /\ tpc[d] \notin Busy => pending'[d] = Len(queued'[d])
      BY <2>1, <2>2, <3>1, <3>3
    <3>5. QED
      BY <2>1, <3>1, <3>2, <3>3, <3>4
  <2>4. CASE d # c
    <3>1. tpc'[d] = tpc[d] /\ pending'[d] = pending[d] /\ cur'[d] = cur[d]
      BY <1>1, <1>2, <2>4 DEF TypeOK
    <3>2. QED
      BY <1>3, <2>1, <2>4, <3>1
  <2>5. QED
    BY <2>3, <2>4
<1>5. OnlyMalloced'
  BY <1>1, <1>2, <1>3 DEF OnlyMalloced
<1>6. a \notin Members(freed)
      /\ \A d \in Chans : a \notin Members(queued[d]) /\ a # cur[d]
  BY <1>1 DEF ListsAreSeparate, HoldersDisjoint
<1>7. /\ \A x \in Aios : /\ node'[x].page = node[x].page /\ node'[x].data = node[x].data
                         /\ x \notin Members(queued[c]) => node'[x].next = node[x].next
                         /\ queued[c] # <<>> /\ x # queued[c][Len(queued[c])]
                              => node'[x].next = node[x].next
      /\ head[c] = NULL => node' = node
      /\ head[c] # NULL => /\ queued[c] # <<>> /\ tail[c] = queued[c][Len(queued[c])]
                           /\ node'[tail[c]].next = a
  <2>1. /\ head[c] = NULL <=> queued[c] = <<>>
        /\ queued[c] # <<>> => tail[c] = queued[c][Len(queued[c])]
    BY <1>1 DEF ListsAreSeparate, QueuesLinked, Links
  <2>2. queued[c] # <<>> => tail[c] \in Members(queued[c]) /\ tail[c] \in Aios
    BY <1>1, <2>1, MembersOf
  <2>3. QED
    BY <1>2, <2>1, <2>2 DEF TypeOK, Node
<1>8. FreeListLinked'
  <2>1. \A x \in Members(freed) : x \notin Members(queued[c]) /\ x \in Aios
    BY <1>1, MembersOf DEF ListsAreSeparate, HoldersDisjoint
  <2>2. QED
    BY <1>1, <1>2, <1>7, <2>1, LinksFrame, ZenonT(60) DEF ListsAreSeparate, FreeListLinked
<1>9. QueuesLinked'
  <2> SUFFICES ASSUME NEW d \in Chans
               PROVE  /\ Links(node', head'[d], queued'[d]) /\ Distinct(queued'[d])
                      /\ queued'[d] # <<>> => tail'[d] = queued'[d][Len(queued'[d])]
    BY DEF QueuesLinked
  <2>1. Links(node, head[d], queued[d]) /\ Distinct(queued[d])
        /\ (queued[d] # <<>> => tail[d] = queued[d][Len(queued[d])])
    BY DEF ListsAreSeparate, QueuesLinked
  <2>2. CASE d # c
    <3>1. \A x \in Members(queued[d]) : x \notin Members(queued[c]) /\ x \in Aios
      BY <1>1, <2>2, MembersOf DEF ListsAreSeparate, HoldersDisjoint
    <3>2. head'[d] = head[d] /\ tail'[d] = tail[d] /\ queued'[d] = queued[d]
      BY <1>1, <1>2, <1>3, <2>2 DEF TypeOK
    <3>3. Links(node', head[d], queued[d])
      BY <1>1, <1>7, <2>1, <3>1, LinksFrame
    <3>4. QED
      BY <2>1, <3>2, <3>3
  <2>3. CASE d = c /\ head[c] = NULL
    <3>1. queued[c] = <<>> /\ node' = node /\ head'[c] = a /\ tail'[c] = a
      BY <1>1, <1>2, <2>1, <2>3 DEF Links, TypeOK
    <3>2. queued'[c] = <<a>>
      BY <1>3, <3>1
    <3>3. Links(node', a, <<a>>) /\ Distinct(<<a>>)
      BY <1>1, <3>1, NullAssumption DEF Links, Distinct
    <3>4. QED
      BY <2>3, <3>1, <3>2, <3>3
  <2>4. CASE d = c /\ head[c] # NULL
    <3>1. head'[c] = head[c] /\ tail'[c] = a /\ node'[a].next = NULL
      BY <1>1, <1>2, <1>6, <1>7, <2>4 DEF TypeOK
    <3>2. \A x \in Members(queued[c]) \ {queued[c][Len(queued[c])]} : node'[x].next = node[x].next
      BY <1>1, <1>7, <2>4, MembersOf
    <3>3. Links(node', head[c], Append(queued[c], a))
      BY <1>1, <1>7, <2>1, <2>4, <3>1, <3>2, LinksAppend
    <3>4. Distinct(Append(queued[c], a))
      BY <1>1, <1>6, <2>1, <2>4, DistinctGrow
    <3>5. QED
      BY <1>3, <2>4, <3>1, <3>3, <3>4
  <2>5. QED
    BY <2>2, <2>3, <2>4
<1>10. HoldersDisjoint'
  <2>1. \A d \in Chans : Members(queued'[d]) = IF d = c THEN Members(queued[c]) \cup {a}
                                                        ELSE Members(queued[d])
    BY <1>3
  <2>2. mpc' # "enqueue" /\ freed' = freed /\ cur' = cur
    BY <1>2
  <2>3. ASSUME NEW d \in Chans
        PROVE  /\ Members(queued'[d]) \cap Members(freed) = {} /\ cur[d] \notin Members(freed)
               /\ \A e \in Chans :
                    /\ cur[d] \notin Members(queued'[e])
                    /\ d # e => /\ Members(queued'[d]) \cap Members(queued'[e]) = {}
                                /\ cur[d] # NULL => cur[d] # cur[e]
    <3>1. Members(queued'[d]) \cap Members(freed) = {} /\ cur[d] \notin Members(freed)
      BY <1>1, <1>6, <2>1 DEF ListsAreSeparate, HoldersDisjoint
    <3>2. ASSUME NEW e \in Chans
          PROVE  /\ cur[d] \notin Members(queued'[e])
                 /\ d # e => /\ Members(queued'[d]) \cap Members(queued'[e]) = {}
                             /\ cur[d] # NULL => cur[d] # cur[e]
      <4>1. /\ cur[d] \notin Members(queued[e])
            /\ d # e => /\ Members(queued[d]) \cap Members(queued[e]) = {}
                        /\ cur[d] # NULL => cur[d] # cur[e]
        BY DEF ListsAreSeparate, HoldersDisjoint
      <4>2. /\ a \notin Members(queued[d]) /\ a \notin Members(queued[e])
            /\ a # cur[d] /\ c \in Chans
        BY <1>1, <1>6
      <4>3. cur[d] \notin Members(queued'[e])
        BY <2>1, <4>1, <4>2
      <4>4. ASSUME d # e PROVE Members(queued'[d]) \cap Members(queued'[e]) = {}
        <5>1. CASE d = c
          BY <2>1, <4>1, <4>2, <4>4, <5>1
        <5>2. CASE d # c
          BY <2>1, <4>1, <4>2, <4>4, <5>2
        <5>3. QED
          BY <5>1, <5>2
      <4>5. QED
        BY <4>1, <4>3, <4>4
    <3>3. QED
      BY <3>1, <3>2
  <2>4. QED
    BY <2>2, <2>3 DEF HoldersDisjoint
<1>11. RequestsTyped'
  <2>1. ASSUME NEW d \in Chans, NEW x \in Requests(d)'
        PROVE  node'[x].page \in Pages /\ node'[x].data \in Buffers
    <3>1. mpc' # "enqueue" /\ cur'[d] = cur[d]
          /\ (tpc'[d] \in {"seek", "transfer"} <=> tpc[d] \in {"seek", "transfer"})
      BY <1>1, <1>2 DEF TypeOK
    <3>2. x \in Requests(d)
      BY <1>1, <1>3, <3>1 DEF Requests
    <3>3. x \in Aios
      BY <1>1, <3>2, MembersOf DEF Requests, TypeOK, ThreadsCount, Holding
    <3>4. QED
      BY <1>7, <3>2, <3>3 DEF RequestsTyped
  <2>2. QED
    BY <1>2, <2>1 DEF RequestsTyped
<1>12. QED
  BY <1>4, <1>5, <1>8, <1>9, <1>10, <1>11 DEF ListsAreSeparate

(* Popping a request: the thread holds the node now.                       *)
LEMMA PopLists ==
  ASSUME Core, NEW c \in Chans, Pop(c)
  PROVE  ThreadsCount' /\ OnlyMalloced' /\ ListsAreSeparate' /\ RequestsTyped'
         /\ head[c] \in Aios
<1> USE DEF Core
<1> DEFINE a == head[c]
<1>1. freed \in Seq(Aios) /\ \A d \in Chans : queued[d] \in Seq(Aios)
  BY DEF TypeOK
<1>2. /\ queued[c] # <<>> /\ a = queued[c][1] /\ cur[c] = NULL /\ tpc[c] \in {"woken", "lock"}
  <2>1. tpc[c] \in {"woken", "lock"} /\ (tpc[c] = "lock" => head[c] # NULL)
    BY DEF Pop
  <2>2. Links(node, head[c], queued[c])
    BY DEF ListsAreSeparate, QueuesLinked
  <2>3. QED
    BY <2>1, <2>2 DEF Links, ThreadsCount, Holding
<1>3. /\ a \in Aios /\ a \in Members(queued[c])
      /\ Members(queued[c]) = {a} \cup Members(Tail(queued[c]))
      /\ a \notin Members(Tail(queued[c])) /\ Distinct(Tail(queued[c]))
      /\ Tail(queued[c]) \in Seq(Aios) /\ Len(Tail(queued[c])) = Len(queued[c]) - 1
      /\ Len(queued[c]) \in Nat
  <2>1. Distinct(queued[c])
    BY DEF ListsAreSeparate, QueuesLinked
  <2>2. a \in Aios /\ a \in Members(queued[c])
    BY <1>1, <1>2, MembersOf
  <2>3. QED
    BY <1>1, <1>2, <2>1, <2>2, MembersTail, DistinctTail
<1>4. /\ cur' = [cur EXCEPT ![c] = a]
      /\ head' = [head EXCEPT ![c] = node[a].next]
      /\ queued' = [queued EXCEPT ![c] = Tail(@)]
      /\ tpc' = [tpc EXCEPT ![c] = "seek"]
      /\ UNCHANGED <<node, freeAios, malloced, freed, tail, pending, mpc, call>>
  BY DEF Pop, heapVars, clientVars
<1>5. /\ cur'[c] = a /\ queued'[c] = Tail(queued[c]) /\ tpc'[c] = "seek"
      /\ \A d \in Chans : d # c => cur'[d] = cur[d] /\ queued'[d] = queued[d] /\ tpc'[d] = tpc[d]
                                   /\ head'[d] = head[d]
  BY <1>4 DEF TypeOK
<1>6. ThreadsCount'
  <2> SUFFICES ASSUME NEW d \in Chans
               PROVE  /\ cur'[d] # NULL <=> tpc'[d] \in Holding
                      /\ tpc'[d] \in Busy => pending[d] = Len(queued'[d]) + 1
                      /\ tpc'[d] \notin Busy => pending[d] = Len(queued'[d])
                      /\ tpc'[d] = "woken" => queued'[d] # <<>>
    BY <1>4 DEF ThreadsCount
  <2>1. CASE d = c
    <3>1. pending[c] = Len(queued[c])
      BY <1>2 DEF ThreadsCount, Busy
    <3>2. "seek" \in Busy /\ "seek" \in Holding /\ a # NULL
      BY <1>3, NullAssumption DEF Busy, Holding
    <3>3. pending[d] = Len(queued'[d]) + 1
      <4>1. queued'[d] = Tail(queued[c]) /\ pending[d] = Len(queued[c])
        BY <1>5, <2>1, <3>1
      <4>2. Len(Tail(queued[c])) = Len(queued[c]) - 1 /\ Len(queued[c]) \in Nat
        BY <1>3
      <4>3. Len(queued'[d]) = Len(queued[c]) - 1
        BY <4>1, <4>2
      <4>4. QED
        BY <4>1, <4>2, <4>3
    <3>4. cur'[d] = a /\ tpc'[d] = "seek"
      BY <1>5, <2>1
    <3>5. QED
      BY <3>2, <3>3, <3>4
  <2>2. CASE d # c
    BY <1>5, <2>2 DEF ThreadsCount
  <2>3. QED
    BY <2>1, <2>2
<1>7. OnlyMalloced'
  BY <1>3, <1>4, <1>5 DEF OnlyMalloced
<1>8. FreeListLinked'
  BY <1>4 DEF ListsAreSeparate, FreeListLinked
<1>9. QueuesLinked'
  <2> SUFFICES ASSUME NEW d \in Chans
               PROVE  /\ Links(node, head'[d], queued'[d]) /\ Distinct(queued'[d])
                      /\ queued'[d] # <<>> => tail[d] = queued'[d][Len(queued'[d])]
    BY <1>4 DEF QueuesLinked
  <2>1. Links(node, head[d], queued[d]) /\ Distinct(queued[d])
        /\ (queued[d] # <<>> => tail[d] = queued[d][Len(queued[d])])
    BY DEF ListsAreSeparate, QueuesLinked
  <2>2. CASE d = c
    <3>1. head'[c] = node[a].next
      BY <1>4 DEF TypeOK
    <3>2. Links(node, node[a].next, Tail(queued[c]))
      BY <1>1, <1>2, <2>1, <2>2, LinksPop
    <3>3. Tail(queued[c]) # <<>> =>
            Tail(queued[c])[Len(Tail(queued[c]))] = queued[c][Len(queued[c])]
      BY <1>1, <1>2
    <3>4. QED
      BY <1>2, <1>3, <1>5, <2>1, <2>2, <3>1, <3>2, <3>3
  <2>3. CASE d # c
    BY <1>5, <2>1, <2>3
  <2>4. QED
    BY <2>2, <2>3
<1>10. HoldersDisjoint'
  <2>1. /\ a \notin Members(freed) /\ (mpc = "enqueue" => a # call.aio)
        /\ \A d \in Chans : a # cur[d] /\ (d # c => a \notin Members(queued[d]))
    BY <1>3 DEF ListsAreSeparate, HoldersDisjoint
  <2>2. /\ Members(queued'[c]) \subseteq Members(queued[c]) /\ a \notin Members(queued'[c])
        /\ \A d \in Chans : Members(queued'[d]) \subseteq Members(queued[d])
    BY <1>3, <1>5
  <2>3. ASSUME NEW d \in Chans
        PROVE  /\ Members(queued'[d]) \cap Members(freed) = {} /\ cur'[d] \notin Members(freed)
               /\ mpc = "enqueue" => call.aio # cur'[d] /\ call.aio \notin Members(queued'[d])
    <3>1. /\ Members(queued[d]) \cap Members(freed) = {} /\ cur[d] \notin Members(freed)
          /\ mpc = "enqueue" => call.aio # cur[d] /\ call.aio \notin Members(queued[d])
      BY DEF ListsAreSeparate, HoldersDisjoint
    <3>2. QED
      BY <1>5, <2>1, <2>2, <3>1
  <2>4. ASSUME NEW d \in Chans, NEW e \in Chans
        PROVE  /\ cur'[d] \notin Members(queued'[e])
               /\ d # e => /\ Members(queued'[d]) \cap Members(queued'[e]) = {}
                           /\ cur'[d] # NULL => cur'[d] # cur'[e]
    <3>1. /\ cur[d] \notin Members(queued[e])
          /\ d # e => /\ Members(queued[d]) \cap Members(queued[e]) = {}
                      /\ cur[d] # NULL => cur[d] # cur[e]
      BY DEF ListsAreSeparate, HoldersDisjoint
    <3>2. cur'[d] \notin Members(queued'[e])
      BY <1>5, <2>1, <2>2, <3>1
    <3>3. d # e => Members(queued'[d]) \cap Members(queued'[e]) = {}
      BY <2>2, <3>1
    <3>4. d # e /\ cur'[d] # NULL => cur'[d] # cur'[e]
      BY <1>5, <2>1, <3>1
    <3>5. QED
      BY <3>2, <3>3, <3>4
  <2>5. QED
    BY <1>4, <2>3, <2>4 DEF ListsAreSeparate, HoldersDisjoint
<1>11. RequestsTyped'
  <2>1. ASSUME NEW d \in Chans, NEW x \in Requests(d)' PROVE x \in Requests(d)
    BY <1>3, <1>4, <1>5 DEF Requests
  <2>2. QED
    BY <1>4, <2>1 DEF RequestsTyped
<1>12. QED
  BY <1>3, <1>6, <1>7, <1>8, <1>9, <1>10, <1>11 DEF ListsAreSeparate

(* Putting a served node on the free list.                                 *)
LEMMA ReleaseLists ==
  ASSUME Core, NEW c \in Chans, Release(c)
  PROVE  ThreadsCount' /\ OnlyMalloced' /\ ListsAreSeparate' /\ RequestsTyped'
         /\ cur[c] \in Aios
<1> USE DEF Core
<1> DEFINE a == cur[c]
<1>1. freed \in Seq(Aios) /\ \A d \in Chans : queued[d] \in Seq(Aios)
  BY DEF TypeOK
<1>2. a \in Aios /\ a # NULL /\ tpc[c] = "release"
  BY DEF TypeOK, Release, ThreadsCount, Holding
<1>3. /\ node' = [node EXCEPT ![a] = [NoNode EXCEPT !.next = freeAios]]
      /\ freeAios' = a
      /\ freed' = <<a>> \o freed
      /\ cur' = [cur EXCEPT ![c] = NULL]
      /\ tpc' = [tpc EXCEPT ![c] = "finish"]
      /\ UNCHANGED <<malloced, head, tail, pending, queued, mpc, call>>
  BY DEF Release, queueVars, clientVars
<1>4. /\ node'[a].next = freeAios /\ \A x \in Aios : x # a => node'[x] = node[x]
  BY <1>2, <1>3 DEF TypeOK, NoNode
<1>5. /\ cur'[c] = NULL /\ tpc'[c] = "finish"
      /\ \A d \in Chans : d # c => cur'[d] = cur[d] /\ tpc'[d] = tpc[d]
  BY <1>3 DEF TypeOK
<1>6. /\ a \notin Members(freed) /\ (mpc = "enqueue" => a # call.aio)
      /\ \A d \in Chans : a \notin Members(queued[d]) /\ (d # c => a # cur[d])
  BY <1>2 DEF ListsAreSeparate, HoldersDisjoint
<1>7. Members(freed') = {a} \cup Members(freed)
  BY <1>1, <1>2, <1>3, MembersPush
<1>8. ThreadsCount'
  <2> SUFFICES ASSUME NEW d \in Chans
               PROVE  /\ cur'[d] # NULL <=> tpc'[d] \in Holding
                      /\ tpc'[d] \in Busy => pending[d] = Len(queued[d]) + 1
                      /\ tpc'[d] \notin Busy => pending[d] = Len(queued[d])
                      /\ tpc'[d] = "woken" => queued[d] # <<>>
    BY <1>3 DEF ThreadsCount
  <2>1. CASE d = c
    BY <1>2, <1>5, <2>1 DEF ThreadsCount, Busy, Holding
  <2>2. CASE d # c
    BY <1>5, <2>2 DEF ThreadsCount
  <2>3. QED
    BY <2>1, <2>2
<1>9. OnlyMalloced'
  BY <1>2, <1>3, <1>5, <1>7 DEF OnlyMalloced
<1>10. FreeListLinked'
  <2>1. \A x \in Members(freed) : node'[x].next = node[x].next
    BY <1>1, <1>4, <1>6, MembersOf
  <2>2. Links(node, freeAios, freed) /\ Distinct(freed)
    BY DEF ListsAreSeparate, FreeListLinked
  <2>3. Links(node', a, <<a>> \o freed)
    BY <1>1, <1>2, <1>4, <2>1, <2>2, LinksPush
  <2>4. Distinct(<<a>> \o freed)
    BY <1>1, <1>2, <1>6, <2>2, DistinctGrow
  <2>5. QED
    BY <1>3, <2>3, <2>4 DEF FreeListLinked
<1>11. QueuesLinked'
  <2> SUFFICES ASSUME NEW d \in Chans
               PROVE  /\ Links(node', head[d], queued[d]) /\ Distinct(queued[d])
                      /\ queued[d] # <<>> => tail[d] = queued[d][Len(queued[d])]
    BY <1>3 DEF QueuesLinked
  <2>1. Links(node, head[d], queued[d]) /\ Distinct(queued[d])
        /\ (queued[d] # <<>> => tail[d] = queued[d][Len(queued[d])])
    BY DEF ListsAreSeparate, QueuesLinked
  <2>2. \A x \in Members(queued[d]) : node'[x].next = node[x].next
    BY <1>1, <1>4, <1>6, MembersOf
  <2>3. QED
    BY <1>1, <2>1, <2>2, LinksFrame
<1>12. HoldersDisjoint'
  <2>1. \A d \in Chans : NULL \notin Members(queued[d]) /\ NULL \notin Members(freed) /\ NULL # a
    BY <1>1, <1>2, MembersOf, NullAssumption
  <2>2. mpc = "enqueue" => call.aio # NULL
    BY NullAssumption DEF RequestsTyped
  <2>3. ASSUME NEW d \in Chans
        PROVE  /\ Members(queued[d]) \cap Members(freed') = {} /\ cur'[d] \notin Members(freed')
               /\ mpc = "enqueue" => call.aio # cur'[d] /\ call.aio \notin Members(queued[d])
    <3>1. /\ Members(queued[d]) \cap Members(freed) = {} /\ cur[d] \notin Members(freed)
          /\ mpc = "enqueue" => call.aio # cur[d] /\ call.aio \notin Members(queued[d])
      BY DEF ListsAreSeparate, HoldersDisjoint
    <3>2. QED
      BY <1>5, <1>6, <1>7, <2>1, <2>2, <3>1
  <2>4. ASSUME NEW d \in Chans, NEW e \in Chans
        PROVE  /\ cur'[d] \notin Members(queued[e])
               /\ d # e => /\ Members(queued[d]) \cap Members(queued[e]) = {}
                           /\ cur'[d] # NULL => cur'[d] # cur'[e]
    <3>1. /\ cur[d] \notin Members(queued[e])
          /\ d # e => /\ Members(queued[d]) \cap Members(queued[e]) = {}
                      /\ cur[d] # NULL => cur[d] # cur[e]
      BY DEF ListsAreSeparate, HoldersDisjoint
    <3>2. QED
      BY <1>5, <2>1, <3>1
  <2>5. mpc = "enqueue" => call.aio \notin Members(freed')
    BY <1>6, <1>7 DEF ListsAreSeparate, HoldersDisjoint
  <2>6. QED
    BY <1>3, <2>3, <2>4, <2>5 DEF HoldersDisjoint
<1>13. RequestsTyped'
  <2>1. ASSUME NEW d \in Chans, NEW x \in Requests(d)'
        PROVE  x \in Requests(d) /\ x # a /\ x \in Aios
    <3>1. x \in Requests(d)
      BY <1>3, <1>5 DEF Requests
    <3>2. x # a
      BY <1>2, <1>3, <1>5, <1>6 DEF Requests
    <3>3. x \in Aios
      BY <1>1, <3>1, MembersOf DEF Requests, TypeOK, ThreadsCount, Holding, RequestsTyped
    <3>4. QED
      BY <3>1, <3>2, <3>3
  <2>2. QED
    BY <1>3, <1>4, <1>6, <2>1 DEF RequestsTyped
<1>14. QED
  BY <1>2, <1>8, <1>9, <1>10, <1>11, <1>12, <1>13 DEF ListsAreSeparate

(* The other actions leave the nodes, the lists and the queues alone.      *)
LEMMA OtherLists ==
  ASSUME Core, UNCHANGED <<heapVars, head, tail, queued, cur>>,
         UNCHANGED <<pending, tpc>> \/ \E c \in Chans : Wait(c) \/ Seek(c) \/ Transfer(c) \/ Finish(c),
         mpc' # "enqueue" \/ UNCHANGED <<mpc, call>>
  PROVE  ThreadsCount' /\ OnlyMalloced' /\ ListsAreSeparate' /\ RequestsTyped'
<1> USE DEF Core
<1>1. UNCHANGED <<node, freeAios, malloced, freed, head, tail, queued, cur>>
  BY DEF heapVars
<1>2. /\ ThreadsCount'
      /\ \A c \in Chans : tpc'[c] \in {"seek", "transfer"} => tpc[c] \in {"seek", "transfer"}
  <2>1. CASE UNCHANGED <<pending, tpc>>
    BY <1>1, <2>1 DEF ThreadsCount
  <2>2. ASSUME NEW c \in Chans, Wait(c) \/ Seek(c) \/ Transfer(c)
        PROVE  ThreadsCount'
               /\ \A d \in Chans : tpc'[d] \in {"seek", "transfer"} => tpc[d] \in {"seek", "transfer"}
    <3>1. /\ pending' = pending
          /\ \/ tpc[c] = "lock" /\ tpc' = [tpc EXCEPT ![c] = "wait"]
             \/ tpc[c] = "seek" /\ tpc' = [tpc EXCEPT ![c] = "transfer"]
             \/ tpc[c] = "transfer" /\ tpc' = [tpc EXCEPT ![c] = "release"]
      BY <2>2 DEF Wait, Seek, Transfer, queueVars
    <3>2. \A d \in Chans :
            /\ tpc'[d] \in Holding <=> tpc[d] \in Holding
            /\ tpc'[d] \in Busy <=> tpc[d] \in Busy
            /\ tpc'[d] = "woken" => tpc[d] = "woken"
            /\ tpc'[d] \in {"seek", "transfer"} => tpc[d] \in {"seek", "transfer"}
      BY <3>1 DEF TypeOK, Holding, Busy
    <3>3. QED
      BY <1>1, <3>1, <3>2 DEF ThreadsCount
  <2>3. ASSUME NEW c \in Chans, Finish(c)
        PROVE  ThreadsCount'
               /\ \A d \in Chans : tpc'[d] \in {"seek", "transfer"} => tpc[d] \in {"seek", "transfer"}
    <3>1. /\ tpc[c] = "finish" /\ tpc'[c] = "lock" /\ pending'[c] = pending[c] - 1
          /\ \A d \in Chans : d # c => tpc'[d] = tpc[d] /\ pending'[d] = pending[d]
      BY <2>3 DEF Finish, TypeOK
    <3>2. pending[c] = Len(queued[c]) + 1 /\ cur[c] = NULL /\ Len(queued[c]) \in Nat
      <4>1. "finish" \in Busy /\ "finish" \notin Holding
        BY DEF Busy, Holding
      <4>2. pending[c] = Len(queued[c]) + 1 /\ cur[c] = NULL
        BY <3>1, <4>1 DEF ThreadsCount
      <4>3. queued[c] \in Seq(Aios)
        BY DEF TypeOK
      <4>4. QED
        BY <4>2, <4>3
    <3>3. ASSUME NEW d \in Chans
          PROVE  /\ cur[d] # NULL <=> tpc'[d] \in Holding
                 /\ tpc'[d] \in Busy => pending'[d] = Len(queued[d]) + 1
                 /\ tpc'[d] \notin Busy => pending'[d] = Len(queued[d])
                 /\ tpc'[d] = "woken" => queued[d] # <<>>
      <4>1. CASE d = c
        <5>1. "lock" \notin Busy /\ "lock" \notin Holding
          BY DEF Busy, Holding
        <5>2. QED
          BY <3>1, <3>2, <4>1, <5>1
      <4>2. CASE d # c
        BY <3>1, <4>2 DEF ThreadsCount
      <4>3. QED
        BY <4>1, <4>2
    <3>4. ThreadsCount'
      BY <1>1, <3>3 DEF ThreadsCount
    <3>5. QED
      BY <3>1, <3>4
  <2>4. QED
    BY <2>1, <2>2, <2>3
<1>3. OnlyMalloced'
  BY <1>1 DEF OnlyMalloced
<1>4. FreeListLinked' /\ QueuesLinked'
  BY <1>1 DEF ListsAreSeparate, FreeListLinked, QueuesLinked
<1>5. HoldersDisjoint'
  BY <1>1 DEF ListsAreSeparate, HoldersDisjoint
<1>6. RequestsTyped'
  <2>1. ASSUME NEW c \in Chans, NEW x \in Requests(c)' PROVE x \in Requests(c)
    BY <1>1, <1>2 DEF Requests
  <2>2. QED
    BY <1>1, <2>1 DEF RequestsTyped
<1>7. QED
  BY <1>2, <1>3, <1>4, <1>5, <1>6 DEF ListsAreSeparate

(* Types.                                                                  *)
LEMMA NestedExcept ==
  ASSUME NEW A, NEW B, NEW C, NEW g \in [A -> [B -> C]], NEW f \in A, NEW p, NEW x \in C
  PROVE  [g EXCEPT ![f][p] = x] \in [A -> [B -> C]]
<1>1. [g[f] EXCEPT ![p] = x] \in [B -> C]
  OBVIOUS
<1>2. QED
  BY <1>1

LEMMA TypeStep == Core /\ [Next]_vars => TypeOK'
<1> SUFFICES ASSUME Core, [Next]_vars PROVE TypeOK'
  OBVIOUS
<1> USE DEF Core
<1>1. NoCall \in Call /\ <<0, "write">> \in Chans /\ <<0, "read">> \in Chans /\ FixedRootDisk \in Files
  BY FilesAssumption DEF Chans, Files, NoCall, Call, FixedRootDisk
<1>2. ASSUME NEW f \in Files, NEW p \in Pages, NEW b \in Buffers, NEW a \in Aios, NEW c \in Chans,
             TakeAio(c, p, b, a)
      PROVE  /\ node' \in [Aios -> Node] /\ freeAios' \in Aios \cup {NULL}
             /\ malloced' \in SUBSET Aios /\ freed' \in Seq(Aios)
             /\ call' \in Call /\ mpc' = "enqueue"
  <2>1. [page |-> p, data |-> b, next |-> NULL] \in Node
    BY DEF Node
  <2>2. node' \in [Aios -> Node]
    BY <1>2, <2>1 DEF TakeAio, TypeOK
  <2>3. call' \in Call /\ mpc' = "enqueue"
    BY <1>2 DEF TakeAio, TypeOK, Call
  <2>4. CASE freeAios = NULL
    BY <1>2, <2>2, <2>3, <2>4 DEF TakeAio, TypeOK
  <2>5. CASE freeAios # NULL
    <3>1. freed # <<>>
      BY <2>5 DEF ListsAreSeparate, FreeListLinked, Links
    <3>2. Tail(freed) \in Seq(Aios) /\ node[a].next \in Aios \cup {NULL}
      BY <3>1 DEF TypeOK, Node
    <3>3. QED
      BY <1>2, <2>2, <2>3, <2>5, <3>2 DEF TakeAio, TypeOK
  <2>6. QED
    BY <2>4, <2>5
<1>3. ASSUME NEW f \in Files, NEW p \in Pages, NEW b \in Buffers, WritePage(f, p, b)
      PROVE  TypeOK'
  <2>1. PICK a \in Aios : TakeAio(<<f, "write">>, p, b, a)
    BY <1>3 DEF WritePage
  <2>2. <<f, "write">> \in Chans
    BY DEF Chans
  <2>3. /\ UNCHANGED <<head, tail, pending, queued, tpc, cur, offset, disk, mem, mode, committed, asked>>
        /\ lent' = lent \cup {b} /\ written' = written \cup {<<f, p>>}
        /\ want' = [want EXCEPT ![f][p] = mem[b]]
    BY <1>3 DEF WritePage, queueVars, threadVars, storeVars
  <2>4. mem[b] \in Contents \cup {RootBlock}
        /\ want \in [Files -> [Pages -> Contents \cup {RootBlock}]]
    BY DEF TypeOK
  <2>5. want' \in [Files -> [Pages -> Contents \cup {RootBlock}]]
    BY <2>3, <2>4, NestedExcept
  <2>6. lent' \in SUBSET Buffers /\ written' \in SUBSET (Files \X Pages)
    BY <2>3 DEF TypeOK
  <2>7. /\ node' \in [Aios -> Node] /\ freeAios' \in Aios \cup {NULL}
        /\ malloced' \in SUBSET Aios /\ freed' \in Seq(Aios)
        /\ call' \in Call /\ mpc' = "enqueue"
    BY <1>2, <2>1, <2>2
  <2>8. QED
    BY <2>3, <2>5, <2>6, <2>7 DEF TypeOK
<1>4. ASSUME NEW f \in Files, NEW p \in Pages, NEW b \in Buffers, ReadPage(f, p, b)
      PROVE  TypeOK'
  <2>1. PICK a \in Aios : TakeAio(<<f, "read">>, p, b, a)
    BY <1>4 DEF ReadPage
  <2>2. <<f, "read">> \in Chans
    BY DEF Chans
  <2>3. /\ UNCHANGED <<head, tail, pending, queued, tpc, cur, offset, disk, mem, mode, written,
                       want, committed>>
        /\ lent' = lent \cup {b}
        /\ asked' = {r \in asked : r[1] # b} \cup {<<b, f, p>>}
    BY <1>4 DEF ReadPage, queueVars, threadVars, storeVars
  <2>4. lent' \in SUBSET Buffers /\ asked' \in SUBSET (Buffers \X Files \X Pages)
    BY <2>3 DEF TypeOK
  <2>5. /\ node' \in [Aios -> Node] /\ freeAios' \in Aios \cup {NULL}
        /\ malloced' \in SUBSET Aios /\ freed' \in Seq(Aios)
        /\ call' \in Call /\ mpc' = "enqueue"
    BY <1>2, <2>1, <2>2
  <2>6. QED
    BY <2>3, <2>4, <2>5 DEF TypeOK
<1>5. ASSUME Enqueue PROVE TypeOK'
  <2>1. /\ UNCHANGED <<freeAios, malloced, freed, cur, offset, disk, mem, mode, lent, written, want,
                       committed, asked>>
        /\ tail' = [tail EXCEPT ![call.chan] = call.aio]
        /\ pending' = [pending EXCEPT ![call.chan] = @ + 1]
        /\ queued' = [queued EXCEPT ![call.chan] = Append(@, call.aio)]
        /\ tpc' = [tpc EXCEPT ![call.chan] = IF @ = "wait" THEN "woken" ELSE @]
        /\ mpc' = "idle" /\ call' = NoCall
    BY <1>5 DEF Enqueue, SignalThread, storeVars, ghostVars
  <2>2. call.aio \in Aios /\ call.chan \in Chans
    BY <1>5 DEF Enqueue, RequestsTyped, TypeOK, Call
  <2>3. head' \in [Chans -> Aios \cup {NULL}]
    BY <1>5, <2>2, ZenonT(60) DEF Enqueue, TypeOK
  <2>4. node' \in [Aios -> Node]
    <3>1. \A x \in Node : [x EXCEPT !.next = call.aio] \in Node
      BY <2>2 DEF Node
    <3>2. CASE head[call.chan] = NULL
      BY <1>5, <3>2 DEF Enqueue, TypeOK
    <3>3. CASE head[call.chan] # NULL
      <4>1. node' = [node EXCEPT ![tail[call.chan]] = [node[tail[call.chan]] EXCEPT !.next = call.aio]]
        BY <1>5, <3>3 DEF Enqueue
      <4>2. tail[call.chan] \in Aios
        BY <1>5, <2>2, <3>3, MembersOf DEF ListsAreSeparate, QueuesLinked, Links, TypeOK
      <4>3. [node[tail[call.chan]] EXCEPT !.next = call.aio] \in Node
        BY <3>1, <4>2 DEF TypeOK
      <4>4. QED
        BY <4>1, <4>3 DEF TypeOK
    <3>4. QED
      BY <3>2, <3>3
  <2>5. queued' \in [Chans -> Seq(Aios)]
    BY <2>1, <2>2 DEF TypeOK
  <2>6. tpc' \in [Chans -> {"lock", "wait", "woken", "seek", "transfer", "release", "finish"}]
    BY <2>1, <2>2 DEF TypeOK
  <2>7. tail' \in [Chans -> Aios \cup {NULL}] /\ pending' \in [Chans -> Nat]
    BY <2>1, <2>2 DEF TypeOK
  <2>8. QED
    BY <1>1, <2>1, <2>3, <2>4, <2>5, <2>6, <2>7 DEF TypeOK
<1>6. ASSUME NEW c \in Chans, Pop(c) PROVE TypeOK'
  <2>1. head[c] \in Aios
    BY <1>6, PopLists
  <2>2. node[head[c]].next \in Aios \cup {NULL}
    BY <2>1 DEF TypeOK, Node
  <2>3. queued[c] # <<>>
    BY <1>6 DEF Pop, ThreadsCount, ListsAreSeparate, QueuesLinked, Links
  <2>4. queued' = [queued EXCEPT ![c] = Tail(@)] /\ Tail(queued[c]) \in Seq(Aios)
    BY <1>6, <2>3 DEF Pop, TypeOK
  <2>5. queued' \in [Chans -> Seq(Aios)]
    BY <2>4 DEF TypeOK
  <2>6. QED
    BY <1>6, <2>1, <2>2, <2>5 DEF Pop, TypeOK, heapVars, storeVars, clientVars, ghostVars
<1>7. ASSUME NEW c \in Chans, Wait(c) PROVE TypeOK'
  BY <1>7 DEF Wait, TypeOK, heapVars, queueVars, storeVars, clientVars, ghostVars
<1>8. ASSUME NEW c \in Chans, Seek(c) PROVE TypeOK'
  <2>1. cur[c] \in Requests(c) /\ FileOf(c) \in Files
    BY <1>8 DEF Seek, Requests, FileOf, Chans
  <2>2. node[cur[c]].page \in Pages
    BY <2>1 DEF RequestsTyped
  <2>3. QED
    BY <1>8, <2>1, <2>2 DEF Seek, TypeOK, heapVars, queueVars, clientVars, ghostVars
<1>9. ASSUME NEW c \in Chans, Transfer(c) PROVE TypeOK'
  <2>1. cur[c] \in Requests(c) /\ FileOf(c) \in Files
    BY <1>9 DEF Transfer, Requests, FileOf, Chans
  <2>2. node[cur[c]].data \in Buffers
    BY <2>1 DEF RequestsTyped
  <2>3. mem[node[cur[c]].data] \in Contents \cup {RootBlock}
    BY <2>2 DEF TypeOK
  <2>4. /\ disk' \in [Files -> [Pages \cup {RootPage} -> Contents \cup {RootBlock}]]
        /\ mem' \in [Buffers -> Contents \cup {RootBlock}]
    <3>1. CASE IsWrite(c)
      <4>1. /\ disk' = [disk EXCEPT ![FileOf(c)][offset[FileOf(c)]] = mem[node[cur[c]].data]]
            /\ mem' = mem
        BY <1>9, <3>1 DEF Transfer
      <4>2. QED
        BY <2>1, <2>3, <4>1, NestedExcept DEF TypeOK
    <3>2. CASE ~IsWrite(c)
      <4>1. offset[FileOf(c)] \in Pages \cup {RootPage}
        BY <1>9, <2>1 DEF Transfer, TypeOK
      <4>2. disk[FileOf(c)][offset[FileOf(c)]] \in Contents \cup {RootBlock}
        BY <2>1, <4>1 DEF TypeOK
      <4>3. disk' = disk
            /\ mem' = [mem EXCEPT ![node[cur[c]].data] = disk[FileOf(c)][offset[FileOf(c)]]]
        BY <1>9, <3>2 DEF Transfer
      <4>4. QED
        BY <4>2, <4>3 DEF TypeOK
    <3>3. QED
      BY <3>1, <3>2
  <2>5. /\ UNCHANGED <<heapVars, queueVars, cur, clientVars, ghostVars>>
        /\ offset' = [offset EXCEPT ![FileOf(c)] = Nowhere]
        /\ tpc' = [tpc EXCEPT ![c] = "release"]
    BY <1>9 DEF Transfer
  <2>6. QED
    BY <2>4, <2>5 DEF TypeOK, heapVars, queueVars, clientVars, ghostVars
<1>10. ASSUME NEW c \in Chans, Release(c) PROVE TypeOK'
  <2>1. cur[c] \in Aios
    BY <1>10, ReleaseLists
  <2>2. [NoNode EXCEPT !.next = freeAios] \in Node
    BY DEF NoNode, Node, TypeOK
  <2>3. node' \in [Aios -> Node]
    BY <1>10, <2>1, <2>2 DEF Release, TypeOK
  <2>4. freed' \in Seq(Aios)
    BY <1>10, <2>1 DEF Release, TypeOK
  <2>5. QED
    BY <1>10, <2>1, <2>3, <2>4 DEF Release, TypeOK, queueVars, storeVars, clientVars, ghostVars
<1>11. ASSUME NEW c \in Chans, Finish(c) PROVE TypeOK'
  <2>1. tpc[c] = "finish" /\ "finish" \in Busy /\ queued[c] \in Seq(Aios)
    BY <1>11 DEF Finish, Busy, TypeOK
  <2>2. pending[c] = Len(queued[c]) + 1
    BY <2>1 DEF ThreadsCount
  <2>3. pending[c] - 1 \in Nat
    BY <2>1, <2>2
  <2>4. mpc' \in {mpc, "drain"}
    BY <1>11 DEF Finish, SignalDrain
  <2>5. QED
    BY <1>11, <2>3, <2>4 DEF Finish, TypeOK, heapVars, storeVars, ghostVars
<1>12. ASSUME NEW dir \in {"write", "read"}, NEW after \in {"root", "return"}, StartDrain(dir, after)
       PROVE  TypeOK'
  <2>1. <<0, dir>> \in Chans
    BY <1>1
  <2>2. [call EXCEPT !.chan = <<0, dir>>, !.after = after] \in Call
    BY <2>1 DEF TypeOK, Call
  <2>3. QED
    BY <1>12, <2>2 DEF StartDrain, TypeOK, heapVars, queueVars, threadVars, storeVars, ghostVars
<1>13. ASSUME DrainFile PROVE TypeOK'
  <2>1. call.file < NumberOfFiles /\ call.file \in 0 .. NumberOfFiles
    BY <1>13 DEF DrainFile, TypeOK, Call
  <2>2. call.file + 1 \in 0 .. NumberOfFiles
    BY <2>1, FilesAssumption
  <2>3. [call EXCEPT !.file = @ + 1] \in Call
    BY <2>2 DEF TypeOK, Call
  <2>4. QED
    BY <1>13, <2>3 DEF DrainFile, TypeOK, heapVars, queueVars, threadVars, storeVars, ghostVars
<1>14. ASSUME DrainSpuriousWakeup \/ DrainReturn PROVE TypeOK'
  BY <1>1, <1>14 DEF DrainSpuriousWakeup, DrainReturn, TypeOK, heapVars, queueVars, threadVars,
                     storeVars, ghostVars
<1>15. ASSUME RootSeek PROVE TypeOK'
  BY <1>1, <1>15 DEF RootSeek, TypeOK, heapVars, queueVars, threadVars, ghostVars
<1>16. ASSUME RootWrite PROVE TypeOK'
  <2>1. disk' = [disk EXCEPT ![FixedRootDisk][offset[FixedRootDisk]] = RootBlock]
    BY <1>16 DEF RootWrite
  <2>2. disk' \in [Files -> [Pages \cup {RootPage} -> Contents \cup {RootBlock}]]
    BY <1>1, <2>1, NestedExcept DEF TypeOK
  <2>3. QED
    BY <1>1, <1>16, <2>2 DEF RootWrite, TypeOK, heapVars, queueVars, threadVars
<1>17. ASSUME NEW b \in Buffers, NEW v \in Contents, ChangePage(b, v) PROVE TypeOK'
  BY <1>17 DEF ChangePage, TypeOK, heapVars, queueVars, threadVars, clientVars, ghostVars
<1>18. ASSUME FinishRecovery PROVE TypeOK'
  BY <1>18 DEF FinishRecovery, TypeOK, heapVars, queueVars, threadVars, storeVars
<1>19. ASSUME UNCHANGED vars PROVE TypeOK'
  BY <1>19 DEF vars, TypeOK, heapVars, queueVars, threadVars, storeVars, clientVars, ghostVars
<1>20. ASSUME NEW f \in Files, writer_thread(f) \/ reader_thread(f) PROVE TypeOK'
  <2>1. <<f, "write">> \in Chans /\ <<f, "read">> \in Chans
    BY DEF Chans
  <2>2. PICK c \in Chans : Thread(c)
    BY <1>20, <2>1 DEF writer_thread, reader_thread
  <2>3. QED
    BY <1>6, <1>7, <1>8, <1>9, <1>10, <1>11, <2>2 DEF Thread
<1>21. QED
  BY <1>3, <1>4, <1>5, <1>12, <1>13, <1>14, <1>15, <1>16, <1>17, <1>18, <1>19, <1>20
     DEF Next, Main, io_write_root, io_allow_page_changes, io_read_page_wait,
         asyncio_drain_pending_writes, asyncio_drain_pending_reads

LEMMA CoreStep == Core /\ [Next]_vars => Core'
<1> SUFFICES ASSUME Core, [Next]_vars PROVE Core'
  OBVIOUS
<1> DEFINE Goal == ThreadsCount' /\ OnlyMalloced' /\ ListsAreSeparate' /\ RequestsTyped'
<1>1. TypeOK'
  BY TypeStep
<1>2. ASSUME NEW f \in Files, NEW p \in Pages, NEW b \in Buffers,
             WritePage(f, p, b) \/ ReadPage(f, p, b)
      PROVE  Goal
  <2>1. <<f, "write">> \in Chans /\ <<f, "read">> \in Chans
    BY DEF Chans
  <2>2. PICK c \in Chans, a \in Aios : TakeAio(c, p, b, a)
    BY <1>2, <2>1 DEF WritePage, ReadPage
  <2>3. mpc = "idle" /\ UNCHANGED <<queueVars, threadVars>>
    BY <1>2 DEF WritePage, ReadPage
  <2>4. QED
    BY <2>2, <2>3, TakeAioLists
<1>3. ASSUME Enqueue PROVE Goal
  BY <1>3, EnqueueLists
<1>4. ASSUME NEW c \in Chans, Thread(c) PROVE Goal
  <2>1. CASE Pop(c)
    BY <2>1, PopLists
  <2>2. CASE Release(c)
    BY <2>2, ReleaseLists
  <2>3. CASE Wait(c) \/ Seek(c) \/ Transfer(c)
    <3>1. UNCHANGED <<heapVars, head, tail, queued, cur>> /\ UNCHANGED <<mpc, call>>
      BY <2>3 DEF Wait, Seek, Transfer, queueVars, clientVars
    <3>2. QED
      BY <2>3, <3>1, OtherLists
  <2>4. CASE Finish(c)
    <3>1. UNCHANGED <<heapVars, head, tail, queued, cur>> /\ call' = call
          /\ (mpc' # "enqueue" \/ mpc' = mpc)
      BY <2>4 DEF Finish, SignalDrain
    <3>2. QED
      BY <2>4, <3>1, OtherLists
  <2>5. QED
    BY <1>4, <2>1, <2>2, <2>3, <2>4 DEF Thread
<1>5. ASSUME \/ io_write_root \/ io_allow_page_changes \/ io_read_page_wait
             \/ DrainFile \/ DrainSpuriousWakeup \/ DrainReturn \/ RootSeek \/ RootWrite
             \/ (\E b \in Buffers, v \in Contents : ChangePage(b, v))
             \/ FinishRecovery \/ UNCHANGED vars
      PROVE  Goal
  <2>1. UNCHANGED <<heapVars, head, tail, queued, cur>> /\ UNCHANGED <<pending, tpc>>
    BY <1>5 DEF io_write_root, io_allow_page_changes, io_read_page_wait,
                asyncio_drain_pending_writes, asyncio_drain_pending_reads, StartDrain,
                DrainFile, DrainSpuriousWakeup, DrainReturn, RootSeek, RootWrite, ChangePage,
                FinishRecovery, vars, queueVars, threadVars
  <2>2. mpc' # "enqueue" \/ UNCHANGED <<mpc, call>>
    BY <1>5 DEF io_write_root, io_allow_page_changes, io_read_page_wait,
                asyncio_drain_pending_writes, asyncio_drain_pending_reads, StartDrain,
                DrainFile, DrainSpuriousWakeup, DrainReturn, RootSeek, RootWrite, ChangePage,
                FinishRecovery, vars, clientVars
  <2>3. QED
    BY <2>1, <2>2, OtherLists
<1>6. ASSUME NEW f \in Files, writer_thread(f) \/ reader_thread(f) PROVE Goal
  <2>1. <<f, "write">> \in Chans /\ <<f, "read">> \in Chans
    BY DEF Chans
  <2>2. QED
    BY <1>4, <1>6, <2>1 DEF writer_thread, reader_thread
<1>7. Goal
  BY <1>2, <1>3, <1>5, <1>6 DEF Next, Main
<1>8. QED
  BY <1>1, <1>7 DEF Core

LEMMA CoreInvariant == Spec => []Core
BY CoreInit, CoreStep, PTL DEF Spec

(* Type correctness of the asynchronous I/O layer (asyncio-pthread.c): in  *)
(* particular no pending counter goes below zero, no thread dereferences a *)
(* null node, and no request without a page and a buffer reaches lseek(),  *)
(* write() or read().                                                      *)
THEOREM TypeCorrect == Spec => []TypeOK
<1>1. Core => TypeOK
  BY DEF Core
<1>2. QED
  BY <1>1, CoreInvariant, PTL

(* A thread that comes back from pthread_cond_wait finds a request, for    *)
(* any number of files, as long as wakeups are not spurious.               *)
THEOREM WakeupSafe == Spec => []WakeupFindsRequest
<1>1. Core => WakeupFindsRequest
  <2> SUFFICES ASSUME Core, NEW c \in Chans, tpc[c] = "woken"
               PROVE  head[c] # NULL /\ pending[c] > 0
    BY DEF WakeupFindsRequest
  <2>1. queued[c] # <<>> /\ pending[c] = Len(queued[c]) /\ queued[c] \in Seq(Aios)
    BY DEF Core, ThreadsCount, TypeOK, Busy
  <2>2. head[c] # NULL
    BY <2>1 DEF Core, ListsAreSeparate, QueuesLinked, Links
  <2>3. QED
    BY <2>1, <2>2
<1>2. QED
  BY <1>1, CoreInvariant, PTL

(* The free list and all queues stay properly linked and share no node,    *)
(* however nodes are recycled between files and directions.                *)
THEOREM ListsSafe == Spec => []ListsAreSeparate
<1>1. Core => ListsAreSeparate
  BY DEF Core
<1>2. QED
  BY <1>1, CoreInvariant, PTL

--------------------------------------------------------------------------------
(* Durability: the root block never refers to a page that is not on disk,  *)
(* and a drain of the reads never returns before the pages.                *)

(* A write still to be carried out is to a page written since the last     *)
(* root block, and the memory page still holds what is wanted there.       *)
WritesWanted ==
  \A f \in Files : \A a \in Requests(<<f, "write">>) :
    /\ <<f, node[a].page>> \in written
    /\ node[a].data \in lent
    /\ mem[node[a].data] = want[f][node[a].page]

(* A read still to be carried out was asked for.                           *)
ReadsAsked ==
  \A f \in Files : \A a \in Requests(<<f, "read">>) :
    /\ <<node[a].data, f, node[a].page>> \in asked
    /\ node[a].data \in lent

(* Reads only in recovery, writes only when running: so the two threads of *)
(* a file never use its shared offset at the same time.                    *)
OneDirection ==
  \A f \in Files :
    /\ mode = "running" => Requests(<<f, "read">>) = {}
    /\ mode = "recovering" => Requests(<<f, "write">>) = {}

(* How far a drain has come.                                               *)
DrainProgress ==
  /\ mpc \in {"drain", "drainwait"} =>
       /\ call.chan[2] = IF mode = "running" THEN "write" ELSE "read"
       /\ call.after = "root" => mode = "running"
       /\ \A f \in Files : f < call.file => pending[<<f, call.chan[2]>>] = 0
  /\ mpc \in {"rootseek", "rootwrite"} =>
       mode = "running" /\ \A f \in Files : Requests(<<f, "write">>) = {}
  /\ mpc \notin {"drain", "drainwait"} => call.file = 0

OffsetsKept ==
  /\ \A c \in Chans : tpc[c] = "transfer" => offset[FileOf(c)] = node[cur[c]].page
  /\ mpc = "rootwrite" => offset[FixedRootDisk] = RootPage

(* A disk page holds what it should, or a write is still to come.          *)
DiskWanted ==
  \A f \in Files, p \in Pages :
    /\ \/ disk[f][p] = want[f][p]
       \/ \E a \in Requests(<<f, "write">>) : node[a].page = p
    /\ <<f, p>> \notin written => want[f][p] = committed[f][p]

(* A read asked for is done, or still to come.                             *)
AskedForOnce ==
  /\ mode = "running" => asked = {}
  /\ \A r, s \in asked : r[1] = s[1] => r = s
  /\ \A r \in asked :
       \/ mem[r[1]] = disk[r[2]][r[3]]
       \/ \E a \in Requests(<<r[2], "read">>) :
            node[a].data = r[1] /\ node[a].page = r[3]

Durable == /\ WritesWanted /\ ReadsAsked /\ OneDirection /\ DrainProgress
           /\ OffsetsKept /\ DiskWanted /\ AskedForOnce /\ RootCovered

--------------------------------------------------------------------------------
(* What a step does to the requests.                                       *)

LEMMA ChanForms ==
  /\ \A f \in Files : <<f, "write">> \in Chans /\ <<f, "read">> \in Chans
  /\ \A c \in Chans : FileOf(c) \in Files
                      /\ (c = <<FileOf(c), "write">> \/ c = <<FileOf(c), "read">>)
BY DEF Chans, FileOf

LEMMA RequestsAreNodes ==
  ASSUME Core, NEW c \in Chans
  PROVE  Requests(c) \subseteq Aios
<1>1. queued[c] \in Seq(Aios)
  BY DEF Core, TypeOK
<1>2. QED
  BY <1>1, MembersOf DEF Core, TypeOK, Requests, ThreadsCount, Holding, RequestsTyped

(* Same requests, for the same pages.                                      *)
SameRequests ==
  \A c \in Chans :
    /\ Requests(c)' = Requests(c)
    /\ \A x \in Requests(c) : node'[x].page = node[x].page /\ node'[x].data = node[x].data

LEMMA TakeRequest ==
  ASSUME Core, mpc = "idle", NEW c \in Chans, NEW p \in Pages, NEW b \in Buffers,
         NEW a \in Aios, TakeAio(c, p, b, a), UNCHANGED <<queueVars, threadVars>>
  PROVE  /\ Requests(c)' = Requests(c) \cup {a}
         /\ \A d \in Chans : d # c => Requests(d)' = Requests(d)
         /\ node'[a].page = p /\ node'[a].data = b
         /\ \A d \in Chans : \A x \in Requests(d) : x # a /\ node'[x] = node[x]
<1>1. /\ mpc' = "enqueue" /\ call'.aio = a /\ call'.chan = c
      /\ UNCHANGED <<queued, tpc, cur>>
      /\ node' = [node EXCEPT ![a] = [page |-> p, data |-> b, next |-> NULL]]
  BY DEF TakeAio, queueVars, threadVars, Core, TypeOK, Call
<1>2. /\ Requests(c)' = Requests(c) \cup {a}
      /\ \A d \in Chans : d # c => Requests(d)' = Requests(d)
  BY <1>1 DEF Requests
<1>3. node'[a].page = p /\ node'[a].data = b /\ \A x \in Aios : x # a => node'[x] = node[x]
  BY <1>1 DEF Core, TypeOK
<1>4. ASSUME NEW d \in Chans, NEW x \in Requests(d) PROVE x # a
  <2>1. HoldersDisjoint'
    BY TakeAioLists DEF ListsAreSeparate
  <2>2. a # cur'[d] /\ a \notin Members(queued'[d])
    BY <1>1, <2>1 DEF HoldersDisjoint
  <2>3. QED
    BY <1>1, <2>2 DEF Requests
<1>5. QED
  BY <1>2, <1>3, <1>4, RequestsAreNodes

LEMMA EnqueueRequests == ASSUME Core, Enqueue PROVE SameRequests
<1> DEFINE c == call.chan
           a == call.aio
<1>1. c \in Chans /\ a \in Aios /\ mpc = "enqueue" /\ \A d \in Chans : queued[d] \in Seq(Aios)
  BY DEF Enqueue, Core, TypeOK, Call, RequestsTyped
<1>2. /\ node' = node \/ node' = [node EXCEPT ![tail[c]].next = a]
      /\ queued' = [queued EXCEPT ![c] = Append(@, a)]
      /\ tpc' = [tpc EXCEPT ![c] = IF @ = "wait" THEN "woken" ELSE @]
      /\ mpc' = "idle" /\ cur' = cur
  BY DEF Enqueue, SignalThread
<1>3. \A x \in Aios : node'[x].page = node[x].page /\ node'[x].data = node[x].data
  <2>1. \A y \in Node : [y EXCEPT !.next = a].page = y.page /\ [y EXCEPT !.next = a].data = y.data
    BY DEF Node
  <2>2. node' = node \/ \A x \in Aios : node'[x] = node[x] \/ node'[x] = [node[x] EXCEPT !.next = a]
    BY <1>2 DEF Core, TypeOK
  <2>3. \A x \in Aios : node[x] \in Node
    BY DEF Core, TypeOK
  <2>4. QED
    BY <2>1, <2>2, <2>3
<1>4. ASSUME NEW d \in Chans PROVE Requests(d)' = Requests(d)
  <2>1. tpc'[d] \in {"seek", "transfer"} <=> tpc[d] \in {"seek", "transfer"}
    BY <1>1, <1>2 DEF Core, TypeOK
  <2>2. CASE d = c
    <3>1. Members(queued'[d]) = Members(queued[d]) \cup {a}
      <4>1. queued'[d] = Append(queued[d], a)
        BY <1>1, <1>2, <2>2 DEF Core, TypeOK
      <4>2. QED
        BY <1>1, <4>1, MembersAppend
    <3>2. QED
      BY <1>1, <1>2, <2>1, <2>2, <3>1 DEF Requests
  <2>3. CASE d # c
    <3>1. queued'[d] = queued[d]
      BY <1>1, <1>2, <2>3 DEF Core, TypeOK
    <3>2. QED
      BY <1>1, <1>2, <2>1, <2>3, <3>1 DEF Requests
  <2>4. QED
    BY <2>2, <2>3
<1>5. QED
  BY <1>3, <1>4, RequestsAreNodes DEF SameRequests

LEMMA PopRequests == ASSUME Core, NEW c \in Chans, Pop(c) PROVE SameRequests
<1>1. /\ queued[c] # <<>> /\ head[c] = queued[c][1] /\ tpc[c] \in {"woken", "lock"}
      /\ queued[c] \in Seq(Aios)
  <2>1. tpc[c] \in {"woken", "lock"} /\ (tpc[c] = "lock" => head[c] # NULL)
    BY DEF Pop
  <2>2. Links(node, head[c], queued[c]) /\ (tpc[c] = "woken" => queued[c] # <<>>)
    BY DEF Core, ListsAreSeparate, QueuesLinked, ThreadsCount
  <2>3. QED
    BY <2>1, <2>2 DEF Links, Core, TypeOK
<1>2. Members(queued[c]) = {head[c]} \cup Members(Tail(queued[c]))
  BY <1>1, MembersTail
<1>3. /\ cur'[c] = head[c] /\ queued'[c] = Tail(queued[c]) /\ tpc'[c] = "seek"
      /\ \A d \in Chans : d # c => cur'[d] = cur[d] /\ queued'[d] = queued[d] /\ tpc'[d] = tpc[d]
      /\ UNCHANGED <<node, mpc, call>>
  BY DEF Pop, heapVars, clientVars, Core, TypeOK
<1>4. ASSUME NEW d \in Chans PROVE Requests(d)' = Requests(d)
  <2>1. CASE d = c
    BY <1>1, <1>2, <1>3, <2>1 DEF Requests
  <2>2. CASE d # c
    BY <1>3, <2>2 DEF Requests
  <2>3. QED
    BY <2>1, <2>2
<1>5. QED
  BY <1>3, <1>4 DEF SameRequests

LEMMA ReleaseRequests == ASSUME Core, NEW c \in Chans, Release(c) PROVE SameRequests
<1>1. /\ tpc[c] = "release" /\ cur[c] \in Aios /\ cur[c] # NULL
      /\ node' = [node EXCEPT ![cur[c]] = [NoNode EXCEPT !.next = freeAios]]
      /\ tpc'[c] = "finish"
      /\ \A d \in Chans : d # c => cur'[d] = cur[d] /\ tpc'[d] = tpc[d]
      /\ UNCHANGED <<queued, mpc, call>>
  BY ReleaseLists DEF Release, queueVars, clientVars, Core, TypeOK, ThreadsCount, Holding
<1>2. ASSUME NEW d \in Chans PROVE Requests(d)' = Requests(d)
  BY <1>1 DEF Requests
<1>3. ASSUME NEW d \in Chans, NEW x \in Requests(d) PROVE x # cur[c]
  BY <1>1 DEF Requests, Core, ListsAreSeparate, HoldersDisjoint
<1>4. QED
  BY <1>1, <1>2, <1>3, RequestsAreNodes DEF SameRequests, Core, TypeOK

LEMMA TransferRequest ==
  ASSUME Core, NEW c \in Chans, Transfer(c)
  PROVE  /\ cur[c] \in Requests(c) /\ node' = node
         /\ Requests(c)' = Requests(c) \ {cur[c]}
         /\ \A d \in Chans : d # c => Requests(d)' = Requests(d)
<1>1. /\ tpc[c] = "transfer" /\ tpc'[c] = "release" /\ UNCHANGED <<node, queued, cur, mpc, call>>
      /\ \A d \in Chans : d # c => tpc'[d] = tpc[d]
  BY DEF Transfer, heapVars, queueVars, clientVars, Core, TypeOK
<1>2. cur[c] \notin Members(queued[c]) /\ (mpc = "enqueue" => cur[c] # call.aio)
  BY DEF Core, ListsAreSeparate, HoldersDisjoint
<1>3. QED
  BY <1>1, <1>2 DEF Requests

(* Everything else leaves the requests alone.                              *)
LEMMA OtherRequests ==
  ASSUME Core, UNCHANGED <<node, queued, cur>>, mpc # "enqueue" \/ UNCHANGED <<mpc, call>>,
         mpc' # "enqueue" \/ UNCHANGED <<mpc, call>>,
         \A c \in Chans : tpc'[c] \in {"seek", "transfer"} <=> tpc[c] \in {"seek", "transfer"}
  PROVE  SameRequests
<1>1. ASSUME NEW d \in Chans PROVE Requests(d)' = Requests(d)
  BY DEF Requests
<1>2. QED
  BY <1>1 DEF SameRequests

--------------------------------------------------------------------------------
(* The steps that keep the requests and what they are about.               *)
LEMMA DurableFrame ==
  ASSUME Core, Durable, SameRequests, UNCHANGED <<disk, mem, mode, ghostVars>>,
         OffsetsKept', DrainProgress'
  PROVE  Durable'
<1>1. UNCHANGED <<lent, written, want, committed, asked>>
  BY DEF ghostVars
<1>2. /\ \A f \in Files : Requests(<<f, "write">>)' = Requests(<<f, "write">>)
                          /\ Requests(<<f, "read">>)' = Requests(<<f, "read">>)
      /\ \A f \in Files : \A x \in Requests(<<f, "write">>) \cup Requests(<<f, "read">>) :
           node'[x].page = node[x].page /\ node'[x].data = node[x].data
  BY ChanForms DEF SameRequests
<1>3. WritesWanted'
  BY <1>1, <1>2, ZenonT(60) DEF Durable, WritesWanted
<1>4. ReadsAsked'
  BY <1>1, <1>2 DEF Durable, ReadsAsked
<1>5. OneDirection'
  BY <1>1, <1>2 DEF Durable, OneDirection
<1>6. DiskWanted'
  <2> SUFFICES ASSUME NEW f \in Files, NEW p \in Pages
               PROVE  /\ \/ disk'[f][p] = want'[f][p]
                         \/ \E a \in Requests(<<f, "write">>)' : node'[a].page = p
                      /\ <<f, p>> \notin written' => want'[f][p] = committed'[f][p]
    BY DEF DiskWanted
  <2>1. /\ \/ disk[f][p] = want[f][p]
           \/ \E a \in Requests(<<f, "write">>) : node[a].page = p
        /\ <<f, p>> \notin written => want[f][p] = committed[f][p]
    BY DEF Durable, DiskWanted
  <2>2. QED
    BY <1>1, <1>2, <2>1
<1>7. AskedForOnce'
  <2>1. ASSUME NEW r \in asked
        PROVE  \/ mem[r[1]] = disk[r[2]][r[3]]
               \/ \E a \in Requests(<<r[2], "read">>)' : node'[a].data = r[1] /\ node'[a].page = r[3]
    <3>1. r[2] \in Files
      BY DEF Core, TypeOK
    <3>2. \/ mem[r[1]] = disk[r[2]][r[3]]
          \/ \E a \in Requests(<<r[2], "read">>) : node[a].data = r[1] /\ node[a].page = r[3]
      BY DEF Durable, AskedForOnce
    <3>3. QED
      BY <1>2, <3>1, <3>2
  <2>2. (mode = "running" => asked = {}) /\ \A r, s \in asked : r[1] = s[1] => r = s
    BY DEF Durable, AskedForOnce
  <2>3. QED
    BY <1>1, <2>1, <2>2 DEF AskedForOnce
<1>8. RootCovered'
  BY <1>1 DEF Durable, RootCovered
<1>9. QED
  BY <1>3, <1>4, <1>5, <1>6, <1>7, <1>8 DEF Durable

(* Of the two threads of a file at most one has a request in progress, and *)
(* none while the root block is written.                                   *)
LEMMA OffsetOwner ==
  ASSUME Core, Durable, NEW c \in Chans, Requests(c) # {}
  PROVE  /\ \A d \in Chans : FileOf(d) = FileOf(c) /\ d # c => tpc[d] \notin {"seek", "transfer"}
         /\ mpc \notin {"rootseek", "rootwrite"}
         /\ c = <<FileOf(c), "write">> <=> mode = "running"
<1>1. /\ mode = "running" => \A f \in Files : Requests(<<f, "read">>) = {}
      /\ mode = "recovering" => \A f \in Files : Requests(<<f, "write">>) = {}
      /\ mode \in {"running", "recovering"}
  BY DEF Durable, OneDirection, Core, TypeOK
<1>2. c = <<FileOf(c), "write">> <=> mode = "running"
  BY <1>1, ChanForms
<1>3. mpc \notin {"rootseek", "rootwrite"}
  BY <1>1, ChanForms DEF Durable, DrainProgress
<1>4. ASSUME NEW d \in Chans, FileOf(d) = FileOf(c), d # c PROVE tpc[d] \notin {"seek", "transfer"}
  <2>1. Requests(d) = {}
    BY <1>1, <1>2, <1>4, ChanForms
  <2>2. QED
    BY <2>1 DEF Requests
<1>5. QED
  BY <1>2, <1>3, <1>4

LEMMA DurableInit == Init => Durable
<1> SUFFICES ASSUME Init PROVE Durable
  OBVIOUS
<1>1. \A c \in Chans : Requests(c) = {}
  BY MembersEmpty DEF Init, Requests
<1>2. \A f \in Files : Requests(<<f, "write">>) = {} /\ Requests(<<f, "read">>) = {}
  BY <1>1, ChanForms
<1>3. PICK onDisk \in [Files -> [Pages -> Contents]] :
        /\ disk = [f \in Files |-> [p \in Pages \cup {RootPage} |->
                     IF p = RootPage THEN RootBlock ELSE onDisk[f][p]]]
        /\ want = onDisk
        /\ committed = onDisk
  BY DEF Init
<1>4. FixedRootDisk \in Files
  BY FilesAssumption DEF FixedRootDisk, Files
<1>5. disk[FixedRootDisk][RootPage] = RootBlock
      /\ \A f \in Files, p \in Pages : disk[f][p] = want[f][p] /\ want[f][p] = committed[f][p]
  BY <1>3, <1>4, RootPageAssumption
<1>6. WritesWanted /\ ReadsAsked /\ OneDirection
  BY <1>2 DEF WritesWanted, ReadsAsked, OneDirection
<1>7. DrainProgress /\ OffsetsKept
  BY DEF Init, DrainProgress, OffsetsKept, NoCall
<1>8. DiskWanted /\ RootCovered
  BY <1>5 DEF DiskWanted, RootCovered
<1>9. AskedForOnce
  BY DEF Init, AskedForOnce
<1>10. QED
  BY <1>6, <1>7, <1>8, <1>9 DEF Durable

(* A page write is requested.                                              *)
LEMMA WritePageDurable ==
  ASSUME Core, Durable, NEW f \in Files, NEW p \in Pages, NEW b \in Buffers, WritePage(f, p, b)
  PROVE  Durable'
<1> DEFINE w == <<f, "write">>
<1>1. PICK a \in Aios : TakeAio(w, p, b, a)
  BY DEF WritePage
<1>2. /\ mpc = "idle" /\ mpc' = "enqueue" /\ mode = "running" /\ <<f, p>> \notin written
      /\ UNCHANGED <<queueVars, threadVars, offset, disk, mem, mode, committed, asked>>
      /\ lent' = lent \cup {b} /\ written' = written \cup {<<f, p>>}
      /\ want' = [want EXCEPT ![f][p] = mem[b]]
  BY <1>1 DEF WritePage, TakeAio, storeVars
<1>3. /\ Requests(w)' = Requests(w) \cup {a}
      /\ \A d \in Chans : d # w => Requests(d)' = Requests(d)
      /\ node'[a].page = p /\ node'[a].data = b
      /\ \A d \in Chans : \A x \in Requests(d) : x # a /\ node'[x] = node[x]
  BY <1>1, <1>2, ChanForms, TakeRequest
<1>4. /\ want'[f][p] = mem[b]
      /\ \A g \in Files, q \in Pages : <<g, q>> # <<f, p>> => want'[g][q] = want[g][q]
  BY <1>2 DEF Core, TypeOK
<1>5. \A g \in Files : /\ Requests(<<g, "read">>)' = Requests(<<g, "read">>)
                       /\ Requests(<<g, "read">>) = {}
                       /\ g # f => Requests(<<g, "write">>)' = Requests(<<g, "write">>)
  BY <1>2, <1>3, ChanForms DEF Durable, OneDirection
<1>6. WritesWanted'
  <2> SUFFICES ASSUME NEW g \in Files, NEW x \in Requests(<<g, "write">>)'
               PROVE  /\ <<g, node'[x].page>> \in written' /\ node'[x].data \in lent'
                      /\ mem[node'[x].data] = want'[g][node'[x].page]
    BY <1>2 DEF WritesWanted
  <2>1. CASE g = f /\ x = a
    BY <1>2, <1>3, <1>4, <2>1
  <2>2. CASE ~(g = f /\ x = a)
    <3>1. x \in Requests(<<g, "write">>)
      <4>1. CASE g = f
        BY <1>3, <2>2, <4>1
      <4>2. CASE g # f
        BY <1>5, <4>2
      <4>3. QED
        BY <4>1, <4>2
    <3>2. node'[x] = node[x]
      BY <1>3, <3>1, ChanForms
    <3>3. /\ <<g, node[x].page>> \in written /\ node[x].data \in lent /\ node[x].page \in Pages
          /\ mem[node[x].data] = want[g][node[x].page]
      BY <3>1, ChanForms DEF Durable, WritesWanted, Core, RequestsTyped
    <3>4. QED
      BY <1>2, <1>4, <3>2, <3>3
  <2>3. QED
    BY <2>1, <2>2
<1>7. ReadsAsked' /\ OneDirection'
  BY <1>2, <1>5 DEF ReadsAsked, OneDirection
<1>8. DrainProgress'
  <2>1. call'.file = call.file /\ call.file = 0
    BY <1>1, <1>2 DEF TakeAio, Durable, DrainProgress, Core, TypeOK, Call
  <2>2. QED
    BY <1>2, <2>1 DEF DrainProgress
<1>9. OffsetsKept'
  <2>1. ASSUME NEW c \in Chans, tpc[c] = "transfer" PROVE offset[FileOf(c)] = node'[cur[c]].page
    BY <1>3, <2>1 DEF Durable, OffsetsKept, Requests
  <2>2. UNCHANGED <<tpc, cur>>
    BY <1>2 DEF threadVars
  <2>3. QED
    BY <1>2, <2>1, <2>2 DEF OffsetsKept
<1>10. DiskWanted'
  <2> SUFFICES ASSUME NEW g \in Files, NEW q \in Pages
               PROVE  /\ \/ disk'[g][q] = want'[g][q]
                         \/ \E x \in Requests(<<g, "write">>)' : node'[x].page = q
                      /\ <<g, q>> \notin written' => want'[g][q] = committed'[g][q]
    BY DEF DiskWanted
  <2>1. CASE <<g, q>> = <<f, p>>
    BY <1>2, <1>3, <2>1
  <2>2. CASE <<g, q>> # <<f, p>>
    <3>1. Requests(<<g, "write">>) \subseteq Requests(<<g, "write">>)'
      BY <1>3, <1>5
    <3>2. \/ disk[g][q] = want[g][q]
          \/ \E x \in Requests(<<g, "write">>) : node[x].page = q
      BY DEF Durable, DiskWanted
    <3>3. <<g, q>> \notin written => want[g][q] = committed[g][q]
      BY DEF Durable, DiskWanted
    <3>4. \A x \in Requests(<<g, "write">>) : node'[x] = node[x]
      BY <1>3, ChanForms
    <3>5. QED
      BY <1>2, <1>4, <2>2, <3>1, <3>2, <3>3, <3>4
  <2>3. QED
    BY <2>1, <2>2
<1>11. AskedForOnce'
  BY <1>2 DEF Durable, AskedForOnce
<1>12. RootCovered'
  BY <1>2 DEF Durable, RootCovered
<1>13. QED
  BY <1>6, <1>7, <1>8, <1>9, <1>10, <1>11, <1>12 DEF Durable

(* A page read is requested.                                               *)
LEMMA ReadPageDurable ==
  ASSUME Core, Durable, NEW f \in Files, NEW p \in Pages, NEW b \in Buffers, ReadPage(f, p, b)
  PROVE  Durable'
<1> DEFINE w == <<f, "read">>
<1>1. PICK a \in Aios : TakeAio(w, p, b, a)
  BY DEF ReadPage
<1>2. /\ mpc = "idle" /\ mpc' = "enqueue" /\ mode = "recovering" /\ b \notin lent
      /\ UNCHANGED <<queueVars, threadVars, offset, disk, mem, mode, written, want, committed>>
      /\ lent' = lent \cup {b}
      /\ asked' = {r \in asked : r[1] # b} \cup {<<b, f, p>>}
  BY <1>1 DEF ReadPage, TakeAio, storeVars
<1>3. /\ Requests(w)' = Requests(w) \cup {a}
      /\ \A d \in Chans : d # w => Requests(d)' = Requests(d)
      /\ node'[a].page = p /\ node'[a].data = b
      /\ \A d \in Chans : \A x \in Requests(d) : x # a /\ node'[x] = node[x]
  BY <1>1, <1>2, ChanForms, TakeRequest
<1>4. \A g \in Files : /\ Requests(<<g, "write">>)' = Requests(<<g, "write">>)
                       /\ Requests(<<g, "write">>) = {}
                       /\ g # f => Requests(<<g, "read">>)' = Requests(<<g, "read">>)
  BY <1>2, <1>3, ChanForms DEF Durable, OneDirection
<1>5. ReadsAsked'
  <2> SUFFICES ASSUME NEW g \in Files, NEW x \in Requests(<<g, "read">>)'
               PROVE  <<node'[x].data, g, node'[x].page>> \in asked' /\ node'[x].data \in lent'
    BY DEF ReadsAsked
  <2>1. CASE g = f /\ x = a
    BY <1>2, <1>3, <2>1
  <2>2. CASE ~(g = f /\ x = a)
    <3>1. x \in Requests(<<g, "read">>)
      <4>1. CASE g = f
        BY <1>3, <2>2, <4>1
      <4>2. CASE g # f
        BY <1>4, <4>2
      <4>3. QED
        BY <4>1, <4>2
    <3>2. node'[x] = node[x]
      BY <1>3, <3>1, ChanForms
    <3>3. <<node[x].data, g, node[x].page>> \in asked /\ node[x].data \in lent
      BY <3>1 DEF Durable, ReadsAsked
    <3>4. QED
      BY <1>2, <3>2, <3>3
  <2>3. QED
    BY <2>1, <2>2
<1>6. WritesWanted' /\ OneDirection'
  BY <1>2, <1>4 DEF WritesWanted, OneDirection
<1>7. DrainProgress'
  <2>1. call'.file = call.file /\ call.file = 0
    BY <1>1, <1>2 DEF TakeAio, Durable, DrainProgress, Core, TypeOK, Call
  <2>2. QED
    BY <1>2, <2>1 DEF DrainProgress
<1>8. OffsetsKept'
  <2>1. ASSUME NEW c \in Chans, tpc[c] = "transfer" PROVE offset[FileOf(c)] = node'[cur[c]].page
    BY <1>3, <2>1 DEF Durable, OffsetsKept, Requests
  <2>2. UNCHANGED <<tpc, cur>>
    BY <1>2 DEF threadVars
  <2>3. QED
    BY <1>2, <2>1, <2>2 DEF OffsetsKept
<1>9. DiskWanted' /\ RootCovered'
  BY <1>2, <1>4, ZenonT(60) DEF Durable, DiskWanted, RootCovered
<1>10. AskedForOnce'
  <2>1. \A r, s \in asked' : r[1] = s[1] => r = s
    BY <1>2 DEF Durable, AskedForOnce
  <2>2. ASSUME NEW r \in asked'
        PROVE  \/ mem[r[1]] = disk[r[2]][r[3]]
               \/ \E x \in Requests(<<r[2], "read">>)' : node'[x].data = r[1] /\ node'[x].page = r[3]
    <3>1. CASE r = <<b, f, p>>
      BY <1>3, <3>1
    <3>2. CASE r \in asked
      <4>1. r[2] \in Files
        BY <3>2 DEF Core, TypeOK
      <4>2. \/ mem[r[1]] = disk[r[2]][r[3]]
            \/ \E x \in Requests(<<r[2], "read">>) : node[x].data = r[1] /\ node[x].page = r[3]
        BY <3>2 DEF Durable, AskedForOnce
      <4>3. Requests(<<r[2], "read">>) \subseteq Requests(<<r[2], "read">>)'
        BY <1>3, <1>4, <4>1
      <4>4. \A x \in Requests(<<r[2], "read">>) : node'[x] = node[x]
        BY <1>3, <4>1, ChanForms
      <4>5. QED
        BY <4>2, <4>3, <4>4
    <3>3. QED
      BY <1>2, <3>1, <3>2
  <2>3. QED
    BY <1>2, <2>1, <2>2 DEF AskedForOnce
<1>11. QED
  BY <1>5, <1>6, <1>7, <1>8, <1>9, <1>10 DEF Durable

(* A writer's write() or a reader's read().                                *)
LEMMA TransferDurable ==
  ASSUME Core, Durable, NEW c \in Chans, Transfer(c)
  PROVE  Durable'
<1> DEFINE f == FileOf(c)
           x == cur[c]
           b == node[x].data
           p == node[x].page
<1>1. /\ x \in Requests(c) /\ node' = node
      /\ Requests(c)' = Requests(c) \ {x}
      /\ \A d \in Chans : d # c => Requests(d)' = Requests(d)
  BY TransferRequest
<1>2. f \in Files /\ b \in Buffers /\ p \in Pages /\ offset[f] = p /\ p # RootPage
  BY <1>1, ChanForms, RootPageAssumption
     DEF Durable, OffsetsKept, Core, RequestsTyped, Transfer
<1>3. /\ UNCHANGED <<cur, pending, mpc, call, mode, lent, written, want, committed, asked>>
      /\ offset' = [offset EXCEPT ![f] = Nowhere]
      /\ tpc' = [tpc EXCEPT ![c] = "release"]
      /\ IsWrite(c) => disk' = [disk EXCEPT ![f][p] = mem[b]] /\ mem' = mem
      /\ ~IsWrite(c) => mem' = [mem EXCEPT ![b] = disk[f][p]] /\ disk' = disk
  BY <1>2 DEF Transfer, queueVars, clientVars, ghostVars
<1>4. /\ \A d \in Chans : FileOf(d) = f /\ d # c => tpc[d] \notin {"seek", "transfer"}
      /\ mpc \notin {"rootseek", "rootwrite"}
      /\ c = <<f, "write">> <=> mode = "running"
      /\ IsWrite(c) <=> c = <<f, "write">>
      /\ ~IsWrite(c) <=> c = <<f, "read">>
  BY <1>1, OffsetOwner, ChanForms DEF IsWrite
<1>5. \A g \in Files : /\ Requests(<<g, "write">>)' \subseteq Requests(<<g, "write">>)
                       /\ Requests(<<g, "read">>)' \subseteq Requests(<<g, "read">>)
  BY <1>1, ChanForms
<1>6. OneDirection'
  BY <1>3, <1>5 DEF Durable, OneDirection
<1>7. ReadsAsked'
  BY <1>1, <1>3, <1>5 DEF Durable, ReadsAsked
<1>8. DrainProgress'
  BY <1>3, <1>4 DEF Durable, DrainProgress
<1>9. OffsetsKept'
  <2>1. ASSUME NEW d \in Chans, tpc'[d] = "transfer" PROVE offset'[FileOf(d)] = node[cur[d]].page
    <3>1. d # c /\ tpc[d] = "transfer"
      BY <1>3, <2>1 DEF Core, TypeOK
    <3>2. FileOf(d) # f
      BY <1>4, <3>1
    <3>3. offset'[FileOf(d)] = offset[FileOf(d)]
      BY <1>3, <3>2, ChanForms DEF Core, TypeOK
    <3>4. QED
      BY <3>1, <3>3 DEF Durable, OffsetsKept
  <2>2. QED
    BY <1>1, <1>3, <1>4, <2>1 DEF OffsetsKept
<1>10. CASE IsWrite(c)
  <2>1. c = <<f, "write">> /\ mode = "running"
    BY <1>4, <1>10
  <2>2. /\ <<f, p>> \in written /\ mem[b] = want[f][p]
    BY <1>1, <1>2, <2>1 DEF Durable, WritesWanted
  <2>3. /\ disk'[f][p] = want[f][p]
        /\ \A g \in Files, q \in Pages \cup {RootPage} : <<g, q>> # <<f, p>> => disk'[g][q] = disk[g][q]
    BY <1>2, <1>3, <1>10, <2>2 DEF Core, TypeOK
  <2>4. WritesWanted'
    BY <1>1, <1>3, <1>5, <1>10, ZenonT(60) DEF Durable, WritesWanted
  <2>5. DiskWanted'
    <3> SUFFICES ASSUME NEW g \in Files, NEW q \in Pages
                 PROVE  /\ \/ disk'[g][q] = want'[g][q]
                           \/ \E y \in Requests(<<g, "write">>)' : node'[y].page = q
                        /\ <<g, q>> \notin written' => want'[g][q] = committed'[g][q]
      BY DEF DiskWanted
    <3>1. /\ \/ disk[g][q] = want[g][q]
             \/ \E y \in Requests(<<g, "write">>) : node[y].page = q
          /\ <<g, q>> \notin written => want[g][q] = committed[g][q]
      BY DEF Durable, DiskWanted
    <3>2. CASE <<g, q>> = <<f, p>>
      BY <1>3, <2>3, <3>1, <3>2
    <3>3. CASE <<g, q>> # <<f, p>>
      <4>1. ASSUME NEW y \in Requests(<<g, "write">>), node[y].page = q
            PROVE  y \in Requests(<<g, "write">>)'
        <5>1. CASE g = f
          BY <1>1, <2>1, <3>3, <4>1, <5>1
        <5>2. CASE g # f
          BY <1>1, <2>1, <4>1, <5>2, ChanForms
        <5>3. QED
          BY <5>1, <5>2
      <4>2. disk'[g][q] = disk[g][q]
        BY <2>3, <3>3
      <4>3. QED
        BY <1>1, <1>3, <3>1, <4>1, <4>2
    <3>4. QED
      BY <3>2, <3>3
  <2>6. AskedForOnce'
    BY <1>3, <2>1 DEF Durable, AskedForOnce
  <2>7. RootCovered'
    <3>1. FixedRootDisk \in Files
      BY FilesAssumption DEF FixedRootDisk, Files
    <3>2. disk'[FixedRootDisk][RootPage] = RootBlock
      BY <1>2, <2>3, <3>1 DEF Durable, RootCovered
    <3>3. ASSUME NEW g \in Files, NEW q \in Pages, <<g, q>> \notin written
          PROVE  disk'[g][q] = committed[g][q]
      BY <2>2, <2>3, <3>3 DEF Durable, RootCovered
    <3>4. QED
      BY <1>3, <3>2, <3>3 DEF RootCovered
  <2>8. QED
    BY <1>6, <1>7, <1>8, <1>9, <2>4, <2>5, <2>6, <2>7 DEF Durable
<1>11. CASE ~IsWrite(c)
  <2>1. c = <<f, "read">> /\ mode = "recovering"
    BY <1>4, <1>11 DEF Core, TypeOK
  <2>2. <<b, f, p>> \in asked
    BY <1>1, <1>2, <2>1 DEF Durable, ReadsAsked
  <2>3. /\ mem'[b] = disk[f][p] /\ disk' = disk
        /\ \A y \in Buffers : y # b => mem'[y] = mem[y]
    BY <1>2, <1>3, <1>11 DEF Core, TypeOK
  <2>4. \A g \in Files : Requests(<<g, "write">>) = {} /\ Requests(<<g, "write">>)' = {}
    BY <1>5, <2>1 DEF Durable, OneDirection
  <2>5. WritesWanted'
    BY <2>4 DEF WritesWanted
  <2>6. DiskWanted' /\ RootCovered'
    BY <1>3, <2>3, <2>4 DEF Durable, DiskWanted, RootCovered
  <2>7. AskedForOnce'
    <3>1. ASSUME NEW r \in asked
          PROVE  \/ mem'[r[1]] = disk[r[2]][r[3]]
                 \/ \E y \in Requests(<<r[2], "read">>)' : node[y].data = r[1] /\ node[y].page = r[3]
      <4>1. r[1] \in Buffers /\ r[2] \in Files
        BY DEF Core, TypeOK
      <4>2. \/ mem[r[1]] = disk[r[2]][r[3]]
            \/ \E y \in Requests(<<r[2], "read">>) : node[y].data = r[1] /\ node[y].page = r[3]
        BY DEF Durable, AskedForOnce
      <4>3. CASE r[1] = b
        <5>1. r = <<b, f, p>>
          BY <2>2, <4>3 DEF Durable, AskedForOnce
        <5>2. QED
          BY <2>3, <5>1
      <4>4. CASE r[1] # b
        <5>1. ASSUME NEW y \in Requests(<<r[2], "read">>), node[y].data = r[1]
              PROVE  y \in Requests(<<r[2], "read">>)'
          <6>1. y # x
            BY <4>4, <5>1
          <6>2. CASE r[2] = f
            BY <1>1, <2>1, <5>1, <6>1, <6>2
          <6>3. CASE r[2] # f
            BY <1>1, <2>1, <4>1, <5>1, <6>3, ChanForms
          <6>4. QED
            BY <6>2, <6>3
        <5>2. mem'[r[1]] = mem[r[1]]
          BY <2>3, <4>1, <4>4
        <5>3. QED
          BY <4>2, <5>1, <5>2
      <4>5. QED
        BY <4>3, <4>4
    <3>2. (mode = "running" => asked = {}) /\ \A r, s \in asked : r[1] = s[1] => r = s
      BY DEF Durable, AskedForOnce
    <3>3. QED
      BY <1>1, <1>3, <2>3, <3>1, <3>2 DEF AskedForOnce
  <2>8. QED
    BY <1>6, <1>7, <1>8, <1>9, <2>5, <2>6, <2>7 DEF Durable
<1>12. QED
  BY <1>10, <1>11

(* The other steps of a thread.                                            *)
LEMMA ThreadDurable ==
  ASSUME Core, Durable, NEW c \in Chans, Pop(c) \/ Wait(c) \/ Seek(c) \/ Release(c) \/ Finish(c)
  PROVE  Durable'
<1>1. SameRequests
  <2>1. CASE Pop(c)
    BY <2>1, PopRequests
  <2>2. CASE Release(c)
    BY <2>2, ReleaseRequests
  <2>3. CASE Wait(c) \/ Seek(c) \/ Finish(c)
    <3>1. UNCHANGED <<node, queued, cur, call>>
          /\ (UNCHANGED mpc \/ (mpc # "enqueue" /\ mpc' # "enqueue"))
      BY <2>3 DEF Wait, Seek, Finish, SignalDrain, heapVars, queueVars, clientVars
    <3>2. \A d \in Chans : tpc'[d] \in {"seek", "transfer"} <=> tpc[d] \in {"seek", "transfer"}
      BY <2>3 DEF Wait, Seek, Finish, Core, TypeOK
    <3>3. QED
      BY <3>1, <3>2, OtherRequests
  <2>4. QED
    BY <2>1, <2>2, <2>3
<1>2. /\ UNCHANGED <<disk, mem, mode, ghostVars, call>>
      /\ mpc' = mpc \/ (mpc = "drainwait" /\ mpc' = "drain")
  BY DEF Pop, Wait, Seek, Release, Finish, SignalDrain, storeVars, clientVars
<1>3. DrainProgress'
  <2>1. ASSUME NEW d \in Chans, pending[d] = 0 PROVE pending'[d] = 0
    <3>1. CASE Finish(c)
      <4>1. tpc[c] = "finish" /\ "finish" \in Busy /\ queued[c] \in Seq(Aios)
        BY <3>1 DEF Finish, Busy, Core, TypeOK
      <4>2. pending[c] = Len(queued[c]) + 1
        BY <4>1 DEF Core, ThreadsCount
      <4>3. d # c
        BY <2>1, <4>1, <4>2
      <4>4. QED
        BY <2>1, <3>1, <4>3 DEF Finish, Core, TypeOK
    <3>2. CASE ~Finish(c)
      BY <2>1, <3>2 DEF Pop, Wait, Seek, Release, queueVars
    <3>3. QED
      BY <3>1, <3>2
  <2>2. \A f \in Files : Requests(<<f, "write">>)' = Requests(<<f, "write">>)
    BY <1>1, ChanForms DEF SameRequests
  <2>3. ASSUME mpc' \in {"drain", "drainwait"}
        PROVE  /\ call.chan[2] = IF mode = "running" THEN "write" ELSE "read"
               /\ call.after = "root" => mode = "running"
               /\ \A f \in Files : f < call.file => pending'[<<f, call.chan[2]>>] = 0
    <3>1. mpc \in {"drain", "drainwait"}
      BY <1>2, <2>3
    <3>2. /\ call.chan[2] = IF mode = "running" THEN "write" ELSE "read"
          /\ call.after = "root" => mode = "running"
          /\ \A f \in Files : f < call.file => pending[<<f, call.chan[2]>>] = 0
      BY <3>1 DEF Durable, DrainProgress
    <3>3. \A f \in Files : <<f, call.chan[2]>> \in Chans
      BY <3>2, ChanForms
    <3>4. QED
      BY <2>1, <3>2, <3>3
  <2>4. mpc' \in {"rootseek", "rootwrite"} =>
          mode = "running" /\ \A f \in Files : Requests(<<f, "write">>)' = {}
    BY <1>2, <2>2 DEF Durable, DrainProgress
  <2>5. mpc' \notin {"drain", "drainwait"} => call.file = 0
    BY <1>2 DEF Durable, DrainProgress
  <2>6. QED
    BY <1>2, <2>3, <2>4, <2>5 DEF DrainProgress
<1>4. OffsetsKept'
  <2>1. CASE Seek(c)
    <3>1. /\ cur[c] \in Requests(c) /\ FileOf(c) \in Files
          /\ offset' = [offset EXCEPT ![FileOf(c)] = node[cur[c]].page]
          /\ tpc' = [tpc EXCEPT ![c] = "transfer"]
          /\ UNCHANGED <<node, cur, mpc>>
      BY <2>1, ChanForms DEF Seek, Requests, heapVars, clientVars
    <3>2. /\ \A d \in Chans : FileOf(d) = FileOf(c) /\ d # c => tpc[d] \notin {"seek", "transfer"}
          /\ mpc \notin {"rootseek", "rootwrite"}
      BY <3>1, OffsetOwner
    <3>3. ASSUME NEW d \in Chans, tpc'[d] = "transfer" PROVE offset'[FileOf(d)] = node[cur[d]].page
      <4>1. CASE d = c
        BY <3>1, <4>1 DEF Core, TypeOK
      <4>2. CASE d # c
        <5>1. tpc[d] = "transfer"
          BY <3>1, <3>3, <4>2 DEF Core, TypeOK
        <5>2. FileOf(d) # FileOf(c)
          BY <3>2, <4>2, <5>1
        <5>3. QED
          BY <3>1, <5>1, <5>2, ChanForms DEF Durable, OffsetsKept, Core, TypeOK
      <4>3. QED
        BY <4>1, <4>2
    <3>4. QED
      BY <3>1, <3>2, <3>3 DEF OffsetsKept
  <2>2. CASE ~Seek(c)
    <3>1. offset' = offset
      BY <2>2 DEF Pop, Wait, Release, Finish, storeVars
    <3>2. ASSUME NEW d \in Chans, tpc'[d] = "transfer"
          PROVE  tpc[d] = "transfer" /\ cur'[d] = cur[d] /\ node'[cur[d]].page = node[cur[d]].page
      <4>1. tpc[d] = "transfer" /\ cur'[d] = cur[d]
        BY <2>2, <3>2 DEF Pop, Wait, Release, Finish, Core, TypeOK
      <4>2. cur[d] \in Requests(d)
        BY <4>1 DEF Requests
      <4>3. QED
        BY <1>1, <4>1, <4>2 DEF SameRequests
    <3>3. QED
      BY <1>2, <3>1, <3>2 DEF Durable, OffsetsKept
  <2>3. QED
    BY <2>1, <2>2
<1>5. QED
  BY <1>1, <1>2, <1>3, <1>4, DurableFrame

(* The calls of the main thread.                                           *)
LEMMA EnqueueDurable == ASSUME Core, Durable, Enqueue PROVE Durable'
<1>1. SameRequests
  BY EnqueueRequests
<1>2. UNCHANGED <<disk, mem, mode, ghostVars, offset, cur>> /\ mpc' = "idle" /\ call'.file = 0
  BY DEF Enqueue, storeVars, NoCall
<1>3. DrainProgress'
  BY <1>2 DEF DrainProgress
<1>4. OffsetsKept'
  <2>1. ASSUME NEW d \in Chans, tpc'[d] = "transfer"
        PROVE  offset[FileOf(d)] = node'[cur[d]].page
    <3>1. tpc[d] = "transfer"
      BY <2>1 DEF Enqueue, SignalThread, Core, TypeOK
    <3>2. cur[d] \in Requests(d)
      BY <3>1 DEF Requests
    <3>3. QED
      BY <1>1, <3>1, <3>2 DEF SameRequests, Durable, OffsetsKept
  <2>2. QED
    BY <1>2, <2>1 DEF OffsetsKept
<1>5. QED
  BY <1>1, <1>2, <1>3, <1>4, DurableFrame

LEMMA DrainDurable ==
  ASSUME Core, Durable,
         \/ io_write_root \/ io_allow_page_changes \/ io_read_page_wait
         \/ DrainFile \/ DrainSpuriousWakeup \/ RootSeek
  PROVE  Durable'
<1> USE DEF io_write_root, io_allow_page_changes, io_read_page_wait,
            asyncio_drain_pending_writes, asyncio_drain_pending_reads
<1>1. UNCHANGED <<node, queued, cur, pending, tpc, disk, mem, mode, ghostVars>>
      /\ mpc # "enqueue" /\ mpc' # "enqueue"
  BY DEF StartDrain, DrainFile, DrainSpuriousWakeup, RootSeek, heapVars, queueVars, threadVars,
         storeVars
<1>2. SameRequests
  BY <1>1, OtherRequests
<1>3. \A f \in Files : Requests(<<f, "write">>)' = Requests(<<f, "write">>)
  BY <1>2, ChanForms DEF SameRequests
<1>4. CASE io_write_root \/ io_allow_page_changes \/ io_read_page_wait
  <2>1. /\ mpc = "idle" /\ mpc' = "drain" /\ offset' = offset
        /\ \E dir \in {"write", "read"}, after \in {"root", "return"} :
             /\ call' = [call EXCEPT !.chan = <<0, dir>>, !.after = after]
             /\ dir = IF mode = "running" THEN "write" ELSE "read"
             /\ after = "root" => mode = "running"
    BY <1>4 DEF StartDrain, storeVars
  <2>2. call.file = 0 /\ call \in Call
    BY <2>1 DEF Durable, DrainProgress, Core, TypeOK
  <2>3. /\ call'.file = 0
        /\ call'.chan[2] = IF mode = "running" THEN "write" ELSE "read"
        /\ call'.after = "root" => mode = "running"
    BY <2>1, <2>2 DEF Call
  <2>4. \A f \in Files : ~(f < 0)
    BY DEF Files
  <2>5. DrainProgress'
    BY <1>1, <2>1, <2>3, <2>4 DEF DrainProgress
  <2>6. OffsetsKept'
    BY <1>1, <2>1 DEF Durable, OffsetsKept
  <2>7. QED
    BY <1>1, <1>2, <2>5, <2>6, DurableFrame
<1>5. CASE DrainFile
  <2>1. mpc = "drain" /\ mpc' \in {"drain", "drainwait"} /\ offset' = offset
    BY <1>5 DEF DrainFile, storeVars
  <2>2. /\ call.chan[2] = IF mode = "running" THEN "write" ELSE "read"
        /\ call.after = "root" => mode = "running"
        /\ \A f \in Files : f < call.file => pending[<<f, call.chan[2]>>] = 0
    BY <2>1 DEF Durable, DrainProgress
  <2>3. OffsetsKept'
    BY <1>1, <2>1 DEF Durable, OffsetsKept
  <2>4. CASE call' = call
    BY <1>1, <1>2, <2>1, <2>2, <2>3, <2>4, DurableFrame DEF DrainProgress
  <2>5. CASE call' # call
    <3>1. /\ call' = [call EXCEPT !.file = @ + 1] /\ ~(pending[<<call.file, call.chan[2]>>] > 0)
          /\ call.file \in 0 .. NumberOfFiles /\ call.file < NumberOfFiles
      BY <1>5, <2>5 DEF DrainFile, Drained, Core, TypeOK, Call
    <3>2. call.file \in Files /\ <<call.file, call.chan[2]>> \in Chans
      <4>1. call.file \in Files
        BY <3>1, FilesAssumption DEF Files
      <4>2. QED
        BY <2>2, <4>1, ChanForms
    <3>3. pending[<<call.file, call.chan[2]>>] = 0
      BY <3>1, <3>2 DEF Core, TypeOK
    <3>4. call'.file = call.file + 1 /\ call'.chan = call.chan /\ call'.after = call.after
      BY <3>1 DEF Core, TypeOK, Call
    <3>5. \A f \in Files : f < call.file + 1 => f < call.file \/ f = call.file
      BY <3>2 DEF Files
    <3>6. DrainProgress'
      BY <1>1, <2>1, <2>2, <3>3, <3>4, <3>5 DEF DrainProgress
    <3>7. QED
      BY <1>1, <1>2, <2>3, <3>6, DurableFrame
  <2>6. QED
    BY <2>4, <2>5
<1>6. CASE DrainSpuriousWakeup
  <2>1. mpc = "drainwait" /\ mpc' = "drain" /\ offset' = offset /\ call' = call
    BY <1>6 DEF DrainSpuriousWakeup, storeVars
  <2>2. OffsetsKept' /\ DrainProgress'
    BY <1>1, <2>1 DEF Durable, OffsetsKept, DrainProgress
  <2>3. QED
    BY <1>1, <1>2, <2>2, DurableFrame
<1>7. CASE RootSeek
  <2>1. /\ mpc = "rootseek" /\ mpc' = "rootwrite" /\ call' = call
        /\ offset' = [offset EXCEPT ![FixedRootDisk] = RootPage]
    BY <1>7 DEF RootSeek
  <2>2. mode = "running" /\ (\A f \in Files : Requests(<<f, "write">>) = {}) /\ call.file = 0
    BY <2>1 DEF Durable, DrainProgress
  <2>3. \A c \in Chans : tpc[c] # "transfer"
    <3>1. \A c \in Chans : Requests(c) = {}
      BY <2>2, ChanForms DEF Durable, OneDirection
    <3>2. QED
      BY <3>1 DEF Requests
  <2>4. OffsetsKept'
    <3>1. FixedRootDisk \in Files
      BY FilesAssumption DEF FixedRootDisk, Files
    <3>2. QED
      BY <1>1, <2>1, <2>3, <3>1 DEF OffsetsKept, Core, TypeOK
  <2>5. DrainProgress'
    BY <1>1, <1>3, <2>1, <2>2 DEF DrainProgress
  <2>6. QED
    BY <1>1, <1>2, <2>4, <2>5, DurableFrame
<1>8. QED
  BY <1>4, <1>5, <1>6, <1>7

(* A drain returns only when no request is left.                           *)
LEMMA DrainedRequests ==
  ASSUME Core, Durable, mpc = "drain", call.file = NumberOfFiles
  PROVE  \A c \in Chans : Requests(c) = {}
<1> DEFINE dir == call.chan[2]
<1>1. /\ dir = IF mode = "running" THEN "write" ELSE "read"
      /\ \A f \in Files : pending[<<f, dir>>] = 0 /\ <<f, dir>> \in Chans
  <2>1. /\ dir = IF mode = "running" THEN "write" ELSE "read"
        /\ \A f \in Files : f < NumberOfFiles => pending[<<f, dir>>] = 0
    BY DEF Durable, DrainProgress
  <2>2. \A f \in Files : f < NumberOfFiles
    BY FilesAssumption DEF Files
  <2>3. QED
    BY <2>1, <2>2, ChanForms
<1>2. ASSUME NEW f \in Files PROVE Requests(<<f, dir>>) = {}
  <2>1. queued[<<f, dir>>] \in Seq(Aios) /\ <<f, dir>> \in Chans /\ pending[<<f, dir>>] = 0
    BY <1>1 DEF Core, TypeOK
  <2>2. tpc[<<f, dir>>] \notin Busy
    BY <2>1 DEF Core, ThreadsCount
  <2>3. Len(queued[<<f, dir>>]) = 0
    BY <2>1, <2>2 DEF Core, ThreadsCount
  <2>4. Members(queued[<<f, dir>>]) = {}
    BY <2>1, <2>3 DEF Members
  <2>5. QED
    BY <2>2, <2>4 DEF Requests, Busy
<1>3. mode \in {"running", "recovering"}
  BY DEF Core, TypeOK
<1>4. QED
  BY <1>1, <1>2, <1>3, ChanForms DEF Durable, OneDirection

LEMMA DrainReturnDurable == ASSUME Core, Durable, DrainReturn PROVE Durable'
<1>1. /\ mpc = "drain" /\ call.file = NumberOfFiles
      /\ mpc' = (IF call.after = "root" THEN "rootseek" ELSE "idle") /\ call'.file = 0
      /\ lent' = {}
      /\ UNCHANGED <<node, queued, cur, tpc, offset, disk, mem, mode, written, want, committed, asked>>
  BY DEF DrainReturn, NoCall, heapVars, queueVars, threadVars, storeVars
<1>2. \A c \in Chans : Requests(c) = {}
  BY <1>1, DrainedRequests
<1>3. SameRequests
  BY <1>1, OtherRequests
<1>4. \A f \in Files : /\ Requests(<<f, "write">>)' = {} /\ Requests(<<f, "read">>)' = {}
                       /\ Requests(<<f, "write">>) = {} /\ Requests(<<f, "read">>) = {}
  BY <1>2, <1>3, ChanForms DEF SameRequests
<1>5. WritesWanted' /\ ReadsAsked' /\ OneDirection'
  BY <1>4 DEF WritesWanted, ReadsAsked, OneDirection
<1>6. DrainProgress'
  <2>1. call.after = "root" => mode = "running"
    BY <1>1 DEF Durable, DrainProgress
  <2>2. QED
    BY <1>1, <1>4, <2>1 DEF DrainProgress
<1>7. OffsetsKept'
  BY <1>1 DEF Durable, OffsetsKept
<1>8. DiskWanted' /\ RootCovered'
  BY <1>1, <1>4, ZenonT(60) DEF Durable, DiskWanted, RootCovered
<1>9. AskedForOnce'
  <2>1. \A r \in asked : r[2] \in Files
    BY DEF Core, TypeOK
  <2>2. QED
    BY <1>1, <1>4, <2>1, ZenonT(60) DEF Durable, AskedForOnce
<1>10. QED
  BY <1>5, <1>6, <1>7, <1>8, <1>9 DEF Durable

LEMMA RootWriteDurable == ASSUME Core, Durable, RootWrite PROVE Durable'
<1>1. /\ mpc = "rootwrite" /\ mpc' = "idle"
      /\ disk' = [disk EXCEPT ![FixedRootDisk][offset[FixedRootDisk]] = RootBlock]
      /\ offset' = [offset EXCEPT ![FixedRootDisk] = Nowhere]
      /\ committed' = want /\ written' = {}
      /\ UNCHANGED <<node, queued, cur, tpc, mem, call, mode, lent, want, asked>>
  BY DEF RootWrite, heapVars, queueVars, threadVars
<1>2. /\ mode = "running" /\ call.file = 0 /\ offset[FixedRootDisk] = RootPage
      /\ FixedRootDisk \in Files
  BY <1>1, FilesAssumption DEF Durable, DrainProgress, OffsetsKept, FixedRootDisk, Files
<1>3. SameRequests
  BY <1>1, OtherRequests
<1>4. /\ \A f \in Files : Requests(<<f, "write">>) = {} /\ Requests(<<f, "read">>) = {}
      /\ \A f \in Files : Requests(<<f, "write">>)' = {} /\ Requests(<<f, "read">>)' = {}
  BY <1>1, <1>2, <1>3, ChanForms DEF SameRequests, Durable, DrainProgress, OneDirection
<1>5. \A c \in Chans : tpc[c] # "transfer"
  <2>1. \A c \in Chans : Requests(c) = {}
    BY <1>4, ChanForms
  <2>2. QED
    BY <2>1 DEF Requests
<1>6. /\ disk'[FixedRootDisk][RootPage] = RootBlock
      /\ \A f \in Files, p \in Pages : disk'[f][p] = disk[f][p]
  BY <1>1, <1>2, RootPageAssumption DEF Core, TypeOK
<1>7. \A f \in Files, p \in Pages : disk[f][p] = want[f][p]
  BY <1>4 DEF Durable, DiskWanted
<1>8. WritesWanted' /\ ReadsAsked' /\ OneDirection'
  BY <1>4 DEF WritesWanted, ReadsAsked, OneDirection
<1>9. DrainProgress' /\ OffsetsKept'
  BY <1>1, <1>2, <1>5 DEF DrainProgress, OffsetsKept
<1>10. DiskWanted' /\ RootCovered'
  BY <1>1, <1>6, <1>7 DEF DiskWanted, RootCovered
<1>11. AskedForOnce'
  BY <1>1, <1>2 DEF Durable, AskedForOnce
<1>12. QED
  BY <1>8, <1>9, <1>10, <1>11 DEF Durable

LEMMA ChangePageDurable ==
  ASSUME Core, Durable, NEW b \in Buffers, NEW v \in Contents, ChangePage(b, v)
  PROVE  Durable'
<1>1. /\ mpc = "idle" /\ mode = "running" /\ b \notin lent
      /\ mem' = [mem EXCEPT ![b] = v]
      /\ UNCHANGED <<node, queued, cur, tpc, pending, offset, disk, mpc, call, mode, lent, written,
                     want, committed, asked>>
  BY DEF ChangePage, heapVars, queueVars, threadVars, clientVars, ghostVars
<1>2. SameRequests
  BY <1>1, OtherRequests
<1>3. \A f \in Files : /\ Requests(<<f, "write">>)' = Requests(<<f, "write">>)
                       /\ Requests(<<f, "read">>)' = Requests(<<f, "read">>)
  BY <1>2, ChanForms DEF SameRequests
<1>4. \A y \in Buffers : y # b => mem'[y] = mem[y]
  BY <1>1 DEF Core, TypeOK
<1>5. WritesWanted'
  <2>1. ASSUME NEW f \in Files, NEW x \in Requests(<<f, "write">>)
        PROVE  /\ <<f, node[x].page>> \in written /\ node[x].data \in lent
               /\ mem'[node[x].data] = want[f][node[x].page]
    <3>1. /\ <<f, node[x].page>> \in written /\ node[x].data \in lent
          /\ mem[node[x].data] = want[f][node[x].page]
      BY DEF Durable, WritesWanted
    <3>2. node[x].data \in Buffers
      BY ChanForms DEF Core, RequestsTyped
    <3>3. QED
      BY <1>1, <1>4, <3>1, <3>2
  <2>2. QED
    BY <1>1, <1>3, <2>1 DEF WritesWanted
<1>6. ReadsAsked' /\ OneDirection'
  BY <1>1, <1>3 DEF Durable, ReadsAsked, OneDirection
<1>7. DrainProgress' /\ OffsetsKept'
  BY <1>1, <1>3 DEF Durable, DrainProgress, OffsetsKept
<1>8. DiskWanted' /\ RootCovered'
  <2>1. RootCovered'
    BY <1>1 DEF Durable, RootCovered
  <2>2. ASSUME NEW f \in Files, NEW p \in Pages
        PROVE  /\ \/ disk[f][p] = want[f][p]
                  \/ \E x \in Requests(<<f, "write">>) : node[x].page = p
               /\ <<f, p>> \notin written => want[f][p] = committed[f][p]
    BY DEF Durable, DiskWanted
  <2>3. DiskWanted'
    <3> SUFFICES ASSUME NEW f \in Files, NEW p \in Pages
                 PROVE  /\ \/ disk'[f][p] = want'[f][p]
                           \/ \E x \in Requests(<<f, "write">>)' : node'[x].page = p
                        /\ <<f, p>> \notin written' => want'[f][p] = committed'[f][p]
      BY DEF DiskWanted
    <3>1. Requests(<<f, "write">>)' = Requests(<<f, "write">>)
      BY <1>3
    <3>2. /\ disk' = disk /\ want' = want /\ node' = node
          /\ written' = written /\ committed' = committed
      BY <1>1
    <3>3. /\ \/ disk[f][p] = want[f][p]
             \/ \E x \in Requests(<<f, "write">>) : node[x].page = p
          /\ <<f, p>> \notin written => want[f][p] = committed[f][p]
      BY <2>2
    <3>4. QED
      BY <3>1, <3>2, <3>3
  <2>4. QED
    BY <2>1, <2>3
<1>9. AskedForOnce'
  BY <1>1 DEF Durable, AskedForOnce
<1>10. QED
  BY <1>5, <1>6, <1>7, <1>8, <1>9 DEF Durable

LEMMA FinishRecoveryDurable == ASSUME Core, Durable, FinishRecovery PROVE Durable'
<1>1. /\ mpc = "idle" /\ mode = "recovering" /\ lent = {} /\ mode' = "running" /\ asked' = {}
      /\ UNCHANGED <<node, queued, cur, tpc, pending, offset, disk, mem, mpc, call, lent, written,
                     want, committed>>
  BY DEF FinishRecovery, heapVars, queueVars, threadVars, storeVars
<1>2. SameRequests
  BY <1>1, OtherRequests
<1>3. \A f \in Files : Requests(<<f, "write">>) = {} /\ Requests(<<f, "read">>) = {}
  BY <1>1 DEF Durable, OneDirection, ReadsAsked
<1>4. \A f \in Files : Requests(<<f, "write">>)' = {} /\ Requests(<<f, "read">>)' = {}
  BY <1>2, <1>3, ChanForms DEF SameRequests
<1>5. WritesWanted' /\ ReadsAsked' /\ OneDirection'
  BY <1>4 DEF WritesWanted, ReadsAsked, OneDirection
<1>6. DrainProgress' /\ OffsetsKept'
  BY <1>1 DEF Durable, DrainProgress, OffsetsKept
<1>7. DiskWanted' /\ RootCovered'
  BY <1>1, <1>3, <1>4, ZenonT(60) DEF Durable, DiskWanted, RootCovered
<1>8. AskedForOnce'
  BY <1>1 DEF AskedForOnce
<1>9. QED
  BY <1>5, <1>6, <1>7, <1>8 DEF Durable

LEMMA StutterDurable == ASSUME Core, Durable, UNCHANGED vars PROVE Durable'
<1>1. UNCHANGED <<node, queued, cur, tpc, pending, offset, disk, mem, mode, mpc, call, ghostVars>>
  BY DEF vars, heapVars, queueVars, threadVars, storeVars, clientVars
<1>2. SameRequests
  BY <1>1, OtherRequests
<1>3. \A f \in Files : Requests(<<f, "write">>)' = Requests(<<f, "write">>)
  BY <1>2, ChanForms DEF SameRequests
<1>4. DrainProgress' /\ OffsetsKept'
  BY <1>1, <1>3 DEF Durable, DrainProgress, OffsetsKept
<1>5. QED
  BY <1>1, <1>2, <1>4, DurableFrame

LEMMA DurableStep == Core /\ Durable /\ [Next]_vars => Durable'
<1> SUFFICES ASSUME Core, Durable, [Next]_vars PROVE Durable'
  OBVIOUS
<1>1. ASSUME NEW c \in Chans, Thread(c) PROVE Durable'
  BY <1>1, TransferDurable, ThreadDurable DEF Thread
<1>2. ASSUME NEW f \in Files, writer_thread(f) \/ reader_thread(f) PROVE Durable'
  BY <1>1, <1>2, ChanForms DEF writer_thread, reader_thread
<1>3. ASSUME Main PROVE Durable'
  BY <1>3, WritePageDurable, ReadPageDurable, EnqueueDurable, DrainDurable, DrainReturnDurable,
     RootWriteDurable, ChangePageDurable, FinishRecoveryDurable DEF Main
<1>4. QED
  BY <1>2, <1>3, StutterDurable DEF Next

LEMMA DurableInvariant == Spec => []Durable
<1>1. Init /\ [][Next]_vars /\ []Core => []Durable
  BY DurableInit, DurableStep, PTL
<1>2. QED
  BY <1>1, CoreInvariant, PTL DEF Spec

(* io_write_root makes a root block durable only when every page it refers *)
(* to is on disk, and no later write() of any thread damages one of them   *)
(* before the storage manager reuses it.                                   *)
THEOREM RootSafe == Spec => []RootCovered
<1>1. Durable => RootCovered
  BY DEF Durable
<1>2. QED
  BY <1>1, DurableInvariant, PTL

(* io_read_page_wait returns only when every page asked for has arrived in *)
(* the memory page it was asked for.                                       *)
THEOREM ReadsSafe == Spec => []ReadsArrive
<1>1. Core /\ Durable => ReadsArrive
  <2> SUFFICES ASSUME Core, Durable, NEW r \in asked, r[1] \notin lent
               PROVE  mem[r[1]] = disk[r[2]][r[3]]
    BY DEF ReadsArrive
  <2>1. r[2] \in Files
    BY DEF Core, TypeOK
  <2>2. \A a \in Requests(<<r[2], "read">>) : node[a].data # r[1]
    BY <2>1 DEF Durable, ReadsAsked
  <2>3. QED
    BY <2>2 DEF Durable, AskedForOnce
<1>2. QED
  BY <1>1, CoreInvariant, DurableInvariant, PTL
================================================================================
