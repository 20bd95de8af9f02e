---------------------------- MODULE AsyncPosixProofs ---------------------------
(***************************************************************************)
(* Proofs about AsyncPosix, for both builds and any number of files, pages *)
(* and nodes, however many requests the system refuses.                    *)
(***************************************************************************)
EXTENDS AsyncPosix, FiniteSetTheorems, TLAPS

--------------------------------------------------------------------------------
(* The inductive invariant.                                                *)

Free == ToSet(list_of_free_aios)
Pending == ToSet(list_of_pending_aios)

(* The requests the system has and has not given back.                     *)
Active == {a \in Aios : state[a] \in {"in progress", "done"}}

(* The requests whose data is still to be moved, by the system or by the   *)
(* caller of a refused one.                                                *)
Unserved ==
  {a \in Aios : \/ state[a] = "in progress"
                \/ mpc = "sync" /\ a = Head(list_of_pending_aios)}

(* The nodes the system has are pending ones; a node is on one list, once. *)
NodesListed ==
  /\ \A a \in Free : state[a] \in {"returned", "refused"}
  /\ \A a \in Pending : state[a] # "new"
  /\ Active \subseteq Pending
  /\ Free \cap Pending = {}
  /\ IsInjective(list_of_free_aios) /\ IsInjective(list_of_pending_aios)

TypeOfMode == IF mode = "running" THEN "AIO_WRITE" ELSE "AIO_READ"

(* Recovery reads and a running database writes, each memory page in one   *)
(* request at a time, and it is lent until the drain.                      *)
PendingRequests ==
  /\ \A a \in Pending : request[a].type = TypeOfMode /\ request[a].data \in lent
  /\ \A a, b \in Pending : request[a].data = request[b].data => a = b

(* How far a drain has come.  Posix: the requests still with the system    *)
(* are those of the nodes to come.  Solaris: they are no more than the     *)
(* turns to come, whichever nodes they are.                                *)
DrainProgress ==
  /\ mpc = "sync" => /\ list_of_pending_aios # <<>>
                     /\ state[Head(list_of_pending_aios)] = "refused"
  /\ mpc = "root" => list_of_pending_aios = <<>>
  /\ mpc = "drain" =>
       /\ call.type = TypeOfMode
       /\ ToSet(call.rest) \subseteq Pending
       /\ HAVE_SOLARIS => IsFiniteSet(Active) /\ Cardinality(Active) <= Len(call.rest)
       /\ ~HAVE_SOLARIS => Active \subseteq ToSet(call.rest)

(* A page asked for is in memory or its read is still to be served.        *)
ReadsAsked ==
  /\ mode = "running" => asked = {}
  /\ mode = "recovering" =>
       \A a \in Pending : <<request[a].data, request[a].file, request[a].page>> \in asked
  /\ \A r, s \in asked : r[1] = s[1] => r = s
  /\ \A r \in asked : \/ mem[r[1]] = disk[r[2]][r[3]]
                      \/ \E a \in Unserved : request[a].data = r[1]

(* issued lists the writes still to be served, and they are to different   *)
(* disk pages.                                                             *)
WritesIssued ==
  /\ \A f \in Files : \A i \in DOMAIN issued[f] :
       /\ issued[f][i] \in Unserved
       /\ request[issued[f][i]].type = "AIO_WRITE"
       /\ request[issued[f][i]].file = f
       /\ <<f, request[issued[f][i]].page>> \in written
       /\ \A j \in DOMAIN issued[f] :
            request[issued[f][i]].page = request[issued[f][j]].page => i = j
  /\ mode = "running" => \A a \in Unserved : \E i \in DOMAIN issued[request[a].file] :
                           issued[request[a].file][i] = a

Inv == TypeOK /\ NodesListed /\ PendingRequests /\ DrainProgress /\ ReadsAsked /\ WritesIssued

--------------------------------------------------------------------------------
(* Sequences.                                                              *)

LEMMA SetOf == ToSet(<<>>) = {} /\ \A s \in Seq(Aios) : ToSet(s) \subseteq Aios
<1>1. DOMAIN <<>> = {}
  OBVIOUS
<1>2. QED
  BY <1>1 DEF ToSet

LEMMA ConsSet ==
  ASSUME NEW s \in Seq(Aios), NEW a \in Aios
  PROVE /\ <<a>> \o s \in Seq(Aios) /\ <<a>> \o s # <<>> /\ Head(<<a>> \o s) = a
        /\ ToSet(<<a>> \o s) = {a} \cup ToSet(s)
        /\ IsInjective(s) /\ a \notin ToSet(s) => IsInjective(<<a>> \o s)
<1> DEFINE t == <<a>> \o s
<1>1. t \in Seq(Aios) /\ Len(s) \in Nat /\ Len(t) = Len(s) + 1 /\ t[1] = a
      /\ t # <<>> /\ Head(t) = a
      /\ \A i \in 1 .. Len(s) : t[i + 1] = s[i]
  OBVIOUS
<1>2. DOMAIN t = 1 .. Len(s) + 1 /\ DOMAIN s = 1 .. Len(s)
  BY <1>1
<1>3. \A i \in DOMAIN t : i = 1 \/ (i - 1 \in DOMAIN s /\ t[i] = s[i - 1])
  BY <1>1, <1>2
<1>4. \A i \in DOMAIN s : i + 1 \in DOMAIN t /\ t[i + 1] = s[i]
  BY <1>1, <1>2
<1>5. 1 \in DOMAIN t
  BY <1>1, <1>2
<1> HIDE DEF t
<1>6. ToSet(t) = {a} \cup ToSet(s)
  <2>1. ToSet(t) \subseteq {a} \cup ToSet(s)
    BY <1>1, <1>3 DEF ToSet
  <2>2. a \in ToSet(t) /\ ToSet(s) \subseteq ToSet(t)
    BY <1>1, <1>4, <1>5 DEF ToSet
  <2>3. QED
    BY <2>1, <2>2
<1>7. ASSUME IsInjective(s), a \notin ToSet(s) PROVE IsInjective(t)
  <2>1. \A i \in DOMAIN s : s[i] # a
    BY <1>7 DEF ToSet
  <2>2. QED
    BY <1>1, <1>2, <1>3, <1>7, <2>1 DEF IsInjective
<1>8. QED
  BY <1>1, <1>6, <1>7 DEF t

LEMMA TailSet ==
  ASSUME NEW s \in Seq(Aios), s # <<>>
  PROVE /\ Tail(s) \in Seq(Aios) /\ Head(s) \in Aios /\ Len(s) \in Nat /\ Len(Tail(s)) = Len(s) - 1
        /\ ToSet(s) = {Head(s)} \cup ToSet(Tail(s))
        /\ IsInjective(s) => IsInjective(Tail(s)) /\ Head(s) \notin ToSet(Tail(s))
<1> DEFINE t == Tail(s)
<1>1. t \in Seq(Aios) /\ Len(s) \in Nat \ {0} /\ Len(t) = Len(s) - 1 /\ Head(s) = s[1]
      /\ s[1] \in Aios /\ \A i \in 1 .. Len(t) : t[i] = s[i + 1]
  OBVIOUS
<1>2. DOMAIN t = 1 .. Len(s) - 1 /\ DOMAIN s = 1 .. Len(s)
  BY <1>1
<1>3. \A i \in DOMAIN t : i + 1 \in DOMAIN s /\ t[i] = s[i + 1]
  BY <1>1, <1>2
<1>4. \A i \in DOMAIN s : i = 1 \/ (i - 1 \in DOMAIN t /\ s[i] = t[i - 1])
  BY <1>1, <1>2
<1>5. ToSet(s) = {Head(s)} \cup ToSet(t)
  BY <1>1, <1>2, <1>3, <1>4 DEF ToSet
<1>6. ASSUME IsInjective(s) PROVE IsInjective(t) /\ s[1] \notin ToSet(t)
  <2>1. IsInjective(t)
    BY <1>1, <1>2, <1>3, <1>6 DEF IsInjective
  <2>2. \A i \in DOMAIN t : t[i] # s[1]
    BY <1>1, <1>2, <1>3, <1>6 DEF IsInjective
  <2>3. QED
    BY <2>1, <2>2 DEF ToSet
<1>7. QED
  BY <1>1, <1>5, <1>6

LEMMA ReverseSet ==
  ASSUME NEW s \in Seq(Aios)
  PROVE /\ Reverse(s) \in Seq(Aios)
        /\ ToSet(Reverse(s)) = ToSet(s)
        /\ IsInjective(s) => IsInjective(Reverse(s))
<1> DEFINE t == Reverse(s)
<1>1. Len(s) \in Nat /\ DOMAIN s = 1 .. Len(s) /\ \A i \in 1 .. Len(s) : s[i] \in Aios
  OBVIOUS
<1>2. DOMAIN t = 1 .. Len(s) /\ \A i \in 1 .. Len(s) : t[i] = s[(Len(s) - i) + 1]
  BY <1>1 DEF Reverse
<1>3. t \in Seq(Aios)
  <2>1. \A i \in 1 .. Len(s) : (Len(s) - i) + 1 \in 1 .. Len(s)
    BY <1>1
  <2>2. QED
    BY <1>1, <2>1 DEF Reverse
<1>4. \A i \in 1 .. Len(s) : (Len(s) - i) + 1 \in 1 .. Len(s) /\ s[i] = t[(Len(s) - i) + 1]
  BY <1>1, <1>2
<1>5. ToSet(t) = ToSet(s)
  BY <1>1, <1>2, <1>4 DEF ToSet
<1>6. ASSUME IsInjective(s) PROVE IsInjective(t)
  <2>1. SUFFICES ASSUME NEW i \in 1 .. Len(s), NEW j \in 1 .. Len(s), t[i] = t[j] PROVE i = j
    BY <1>2 DEF IsInjective
  <2>2. (Len(s) - i) + 1 = (Len(s) - j) + 1
    BY <1>1, <1>2, <1>4, <1>6, <2>1 DEF IsInjective
  <2>3. QED
    BY <1>1, <2>2
<1>7. QED
  BY <1>3, <1>5, <1>6

LEMMA ConcatSet ==
  ASSUME NEW s \in Seq(Aios), NEW t \in Seq(Aios)
  PROVE /\ s \o t \in Seq(Aios)
        /\ ToSet(s \o t) = ToSet(s) \cup ToSet(t)
        /\ IsInjective(s) /\ IsInjective(t) /\ ToSet(s) \cap ToSet(t) = {}
             => IsInjective(s \o t)
<1> DEFINE u == s \o t
<1>1. u \in Seq(Aios) /\ Len(s) \in Nat /\ Len(t) \in Nat /\ Len(u) = Len(s) + Len(t)
      /\ \A i \in 1 .. Len(s) + Len(t) : u[i] = IF i <= Len(s) THEN s[i] ELSE t[i - Len(s)]
  OBVIOUS
<1>2. DOMAIN u = 1 .. Len(s) + Len(t) /\ DOMAIN s = 1 .. Len(s) /\ DOMAIN t = 1 .. Len(t)
  BY <1>1
<1> HIDE DEF u
<1>3. \A i \in DOMAIN u : \/ i \in DOMAIN s /\ u[i] = s[i]
                          \/ i - Len(s) \in DOMAIN t /\ u[i] = t[i - Len(s)]
  BY <1>1, <1>2
<1>4. /\ \A i \in DOMAIN s : i \in DOMAIN u /\ u[i] = s[i]
      /\ \A i \in DOMAIN t : Len(s) + i \in DOMAIN u /\ u[Len(s) + i] = t[i]
  BY <1>1, <1>2
<1>5. ToSet(u) = ToSet(s) \cup ToSet(t)
  BY <1>3, <1>4 DEF ToSet
<1>6. ASSUME IsInjective(s), IsInjective(t), ToSet(s) \cap ToSet(t) = {} PROVE IsInjective(u)
  <2>1. \A i \in DOMAIN s, j \in DOMAIN t : s[i] # t[j]
    BY <1>6 DEF ToSet
  <2>2. QED
    BY <1>1, <1>2, <1>3, <1>6, <2>1 DEF IsInjective
<1>7. QED
  BY <1>1, <1>5, <1>6 DEF u

(* A sequence without its i-th element.                                    *)
LEMMA CutAt ==
  ASSUME NEW S, NEW s \in Seq(S), NEW i \in 1 .. Len(s)
  PROVE LET t == SubSeq(s, 1, i - 1) \o SubSeq(s, i + 1, Len(s)) IN
        /\ t \in Seq(S) /\ Len(t) = Len(s) - 1 /\ DOMAIN t = 1 .. Len(s) - 1
        /\ \A j \in 1 .. Len(s) - 1 : t[j] = IF j < i THEN s[j] ELSE s[j + 1]
<1>1. Len(s) \in Nat /\ DOMAIN s = 1 .. Len(s) /\ i \in DOMAIN s /\ \A j \in DOMAIN s : s[j] \in S
  OBVIOUS
<1> DEFINE l == SubSeq(s, 1, i - 1)
           r == SubSeq(s, i + 1, Len(s))
<1>2. l \in Seq(S) /\ Len(l) = i - 1 /\ \A j \in 1 .. i - 1 : l[j] = s[j]
  BY <1>1
<1>3. r \in Seq(S) /\ Len(r) = Len(s) - i /\ \A j \in 1 .. Len(s) - i : r[j] = s[i + j]
  BY <1>1, SMTT(40)
<1> HIDE DEF l, r
<1>4. /\ l \o r \in Seq(S) /\ Len(l \o r) = Len(l) + Len(r)
      /\ \A j \in 1 .. Len(l) + Len(r) : (l \o r)[j] = IF j <= Len(l) THEN l[j] ELSE r[j - Len(l)]
  <2>1. l \in Seq(S) /\ r \in Seq(S)
    BY <1>2, <1>3
  <2>2. QED
    BY <2>1
<1>5. ASSUME NEW j \in 1 .. Len(s) - 1
      PROVE (l \o r)[j] = IF j < i THEN s[j] ELSE s[j + 1]
  <2>1. CASE j < i
    BY <1>1, <1>2, <1>3, <1>4, <2>1
  <2>2. CASE j >= i
    <3>0. /\ j \in 1 .. Len(l) + Len(r) /\ ~(j <= Len(l)) /\ Len(l) = i - 1
          /\ j - (i - 1) \in 1 .. Len(s) - i
      BY <1>1, <1>2, <1>3, <2>2
    <3>1. (l \o r)[j] = r[j - (i - 1)] /\ j - (i - 1) \in 1 .. Len(s) - i
      BY ONLY <1>4, <3>0
    <3>2. r[j - (i - 1)] = s[i + (j - (i - 1))] /\ i + (j - (i - 1)) = j + 1
      BY <1>1, <1>3, <3>1
    <3>3. QED
      BY <1>1, <2>2, <3>1, <3>2
  <2>3. j < i \/ j >= i
    BY <1>1
  <2>4. QED
    BY <2>1, <2>2, <2>3
<1>6. Len(l \o r) = Len(s) - 1 /\ DOMAIN (l \o r) = 1 .. Len(s) - 1
  <2> DEFINE t == l \o r
  <2>1. t \in Seq(S) /\ Len(t) = Len(s) - 1
    BY <1>1, <1>2, <1>3, <1>4
  <2> HIDE DEF t
  <2>2. DOMAIN t = 1 .. Len(s) - 1
    BY <2>1
  <2>3. QED
    BY <2>1, <2>2 DEF t
<1>7. QED
  BY <1>4, <1>5, <1>6 DEF l, r

(* RemoveFirst of a sequence without repetitions.                          *)
LEMMA RemoveOne ==
  ASSUME NEW s \in Seq(Aios), IsInjective(s), NEW i \in DOMAIN s
  PROVE RemoveFirst(s, s[i]) = SubSeq(s, 1, i - 1) \o SubSeq(s, i + 1, Len(s))
<1>1. Len(s) \in Nat /\ DOMAIN s = 1 .. Len(s) /\ i \in 1 .. Len(s)
  OBVIOUS
<1> DEFINE I == {j \in 1 .. Len(s) : s[j] = s[i]}
<1>2. I = {i}
  BY <1>1 DEF IsInjective
<1>3. Min(I) = i
  BY <1>1, <1>2 DEF Min
<1>4. SelectInSeq(s, LAMBDA v : v = s[i]) = i
  BY <1>2, <1>3 DEF SelectInSeq
<1>5. QED
  BY <1>1, <1>4 DEF RemoveFirst, RemoveAt

(* A list has no more nodes than its length.                               *)
LEMMA SetNoLarger ==
  ASSUME NEW s \in Seq(Aios), NEW T \in SUBSET ToSet(s)
  PROVE IsFiniteSet(T) /\ Cardinality(T) \in Nat /\ Cardinality(T) <= Len(s)
<1>1. Len(s) \in Nat /\ s \in [1 .. Len(s) -> ToSet(s)] /\ DOMAIN s = 1 .. Len(s)
  BY DEF ToSet
<1>2. s \in Surjection(1 .. Len(s), ToSet(s))
  BY <1>1 DEF Surjection, ToSet
<1>3. IsFiniteSet(1 .. Len(s)) /\ Cardinality(1 .. Len(s)) = Len(s)
  BY <1>1, FS_Interval, SMTT(40)
<1>4. IsFiniteSet(ToSet(s)) /\ Cardinality(ToSet(s)) <= Len(s)
  BY <1>2, <1>3, FS_Surjection
<1>5. IsFiniteSet(T) /\ Cardinality(T) <= Cardinality(ToSet(s))
  BY <1>4, FS_Subset
<1>6. QED
  BY <1>1, <1>4, <1>5, FS_CardinalityType

--------------------------------------------------------------------------------
(* The steps.                                                              *)

LEMMA InvInit == Init => Inv
<1> SUFFICES ASSUME Init PROVE Inv
  OBVIOUS
<1> USE DEF Init
<1>1. TypeOK
  <2>1. NoCall \in Call
    BY DEF NoCall, Call
  <2>2. 0 \in 0 .. MaxRefused
    BY PosixAssumption
  <2>3. QED
    BY <2>1, <2>2 DEF TypeOK
<1>2. Free = {} /\ Pending = {} /\ Active = {} /\ Unserved = {}
  <2>1. Free = {} /\ Pending = {}
    BY SetOf DEF Free, Pending
  <2>2. Active = {} /\ Unserved = {}
    BY DEF Active, Unserved
  <2>3. QED
    BY <2>1, <2>2
<1>3. NodesListed
  BY <1>2 DEF NodesListed, IsInjective
<1>4. PendingRequests /\ DrainProgress
  BY <1>2 DEF PendingRequests, DrainProgress
<1>5. ReadsAsked
  BY <1>2 DEF ReadsAsked
<1>6. WritesIssued
  BY <1>2 DEF WritesIssued
<1>7. QED
  BY <1>1, <1>3, <1>4, <1>5, <1>6 DEF Inv

(* The nodes with data to move are pending ones.                           *)
LEMMA UnservedPending == ASSUME Inv PROVE Unserved \subseteq Pending
<1>1. \A a \in Aios : state[a] = "in progress" => a \in Pending
  BY DEF Inv, NodesListed, Active
<1>2. ASSUME mpc = "sync" PROVE Head(list_of_pending_aios) \in Pending
  <2>1. list_of_pending_aios \in Seq(Aios) /\ list_of_pending_aios # <<>>
    BY <1>2 DEF Inv, TypeOK, DrainProgress
  <2>2. QED
    BY <2>1, TailSet DEF Pending
<1>3. QED
  BY <1>1, <1>2 DEF Unserved

(* A node is on one list, once, so it is taken once.                       *)
LEMMA TakeLists ==
  ASSUME Inv, NEW a \in Aios, NEW r, TakeAio(a, r)
  PROVE /\ a \notin Pending /\ state[a] \notin {"in progress", "done"}
        /\ Pending' = {a} \cup Pending /\ Free' \subseteq Free /\ a \notin Free'
        /\ list_of_free_aios' \in Seq(Aios) /\ list_of_pending_aios' \in Seq(Aios)
        /\ IsInjective(list_of_free_aios') /\ IsInjective(list_of_pending_aios')
        /\ Free' \cap Pending' = {}
        /\ list_of_pending_aios' # <<>> /\ Head(list_of_pending_aios') = a
<1> USE DEF Inv, TypeOK, NodesListed
<1>1. /\ a \notin Pending /\ state[a] \notin {"in progress", "done"}
      /\ Free' \subseteq Free /\ a \notin Free'
      /\ list_of_free_aios' \in Seq(Aios) /\ IsInjective(list_of_free_aios')
  <2>1. CASE list_of_free_aios = <<>>
    <3>1. state[a] = "new" /\ list_of_free_aios' = list_of_free_aios /\ Free' = Free
      BY <2>1 DEF TakeAio, Free
    <3>2. QED
      BY <2>1, <3>1
  <2>2. CASE list_of_free_aios # <<>>
    <3>1. a = Head(list_of_free_aios) /\ list_of_free_aios' = Tail(list_of_free_aios)
      BY <2>2 DEF TakeAio
    <3>2. Free' = ToSet(Tail(list_of_free_aios)) /\ Free = {a} \cup Free'
          /\ a \notin Free' /\ IsInjective(list_of_free_aios') /\ list_of_free_aios' \in Seq(Aios)
      BY <2>2, <3>1, TailSet DEF Free
    <3>3. a \in Free
      BY <3>2
    <3>4. QED
      BY <3>2, <3>3
  <2>3. QED
    BY <2>1, <2>2
<1>2. list_of_pending_aios' = <<a>> \o list_of_pending_aios
  BY DEF TakeAio
<1>3. /\ Pending' = {a} \cup Pending /\ list_of_pending_aios' \in Seq(Aios)
      /\ IsInjective(list_of_pending_aios')
      /\ list_of_pending_aios' # <<>> /\ Head(list_of_pending_aios') = a
  BY <1>1, <1>2, ConsSet DEF Pending
<1>4. Free' \cap Pending' = {}
  BY <1>1, <1>3
<1>5. QED
  BY <1>1, <1>3, <1>4

(* Making a request, taken or refused by the system.                       *)
LEMMA RequestMade ==
  ASSUME Inv, mpc = "idle", NEW a \in Aios, NEW r \in Request, TakeAio(a, r), Issue(a),
         r.type = TypeOfMode, r.data \notin lent, lent' = lent \cup {r.data},
         UNCHANGED <<HAVE_SOLARIS, mode, call>>
  PROVE /\ NodesListed' /\ PendingRequests' /\ DrainProgress'
        /\ a \notin Pending /\ Pending' = {a} \cup Pending
        /\ Unserved' = {a} \cup Unserved
        /\ request' = [request EXCEPT ![a] = r]
        /\ DOMAIN request' = Aios /\ \A b \in Aios : state'[b] # "new" => request'[b] \in Request
        /\ state' \in [Aios -> {"new", "in progress", "done", "returned", "refused"}]
        /\ list_of_free_aios' \in Seq(Aios) /\ list_of_pending_aios' \in Seq(Aios)
        /\ mpc' \in {"idle", "sync"} /\ refused' \in 0 .. MaxRefused
<1> USE DEF Inv
<1> DEFINE lists == /\ a \notin Pending /\ state[a] \notin {"in progress", "done"}
                    /\ Pending' = {a} \cup Pending /\ Free' \subseteq Free /\ a \notin Free'
                    /\ list_of_free_aios' \in Seq(Aios) /\ list_of_pending_aios' \in Seq(Aios)
                    /\ IsInjective(list_of_free_aios') /\ IsInjective(list_of_pending_aios')
                    /\ Free' \cap Pending' = {}
                    /\ list_of_pending_aios' # <<>> /\ Head(list_of_pending_aios') = a
<1>1. lists
  BY TakeLists
<1>2. request' = [request EXCEPT ![a] = r]
  BY DEF TakeAio
<1>3. \/ mpc' = "idle" /\ refused' = refused /\ state' = [state EXCEPT ![a] = "in progress"]
      \/ /\ mpc' = "sync" /\ refused < MaxRefused /\ refused' = refused + 1
         /\ state' = [state EXCEPT ![a] = "refused"]
  BY DEF Issue
<1>4. DOMAIN request' = Aios /\ request'[a] = r /\ \A b \in Aios \ {a} : request'[b] = request[b]
  BY <1>2 DEF TypeOK
<1>5. /\ state'[a] \in {"in progress", "refused"}
      /\ state' \in [Aios -> {"new", "in progress", "done", "returned", "refused"}]
      /\ \A b \in Aios \ {a} : state'[b] = state[b]
  BY <1>3 DEF TypeOK
<1>6. mpc' \in {"idle", "sync"} /\ refused' \in 0 .. MaxRefused
  <2>1. refused \in 0 .. MaxRefused
    BY DEF TypeOK
  <2>2. refused < MaxRefused => refused + 1 \in 0 .. MaxRefused
    BY <2>1, PosixAssumption
  <2>3. QED
    BY <1>3, <2>1, <2>2
<1>7. \A b \in Aios : state'[b] # "new" => request'[b] \in Request
  BY <1>4, <1>5 DEF TypeOK
<1>8. Unserved' = {a} \cup Unserved
  <2>1. Unserved = {b \in Aios : state[b] = "in progress"}
    BY DEF Unserved
  <2>2. Unserved' = {b \in Aios : state'[b] = "in progress" \/ (mpc' = "sync" /\ b = a)}
    BY <1>1 DEF Unserved
  <2>3. a \in Unserved'
    BY <1>3, <2>2 DEF TypeOK
  <2>4. \A b \in Aios \ {a} : b \in Unserved' <=> b \in Unserved
    BY <1>5, <2>1, <2>2
  <2>5. Unserved' \subseteq Aios /\ Unserved \subseteq Aios
    BY <2>1, <2>2
  <2>6. QED
    BY <2>3, <2>4, <2>5
<1>9. Free' \subseteq Aios /\ Pending \subseteq Aios
  BY <1>1, SetOf DEF TypeOK, Free, Pending
<1>10. NodesListed'
  <2>1. Active' \subseteq {a} \cup Active
    BY <1>5 DEF Active
  <2>2. \A b \in Free' : state'[b] \in {"returned", "refused"}
    BY <1>1, <1>5, <1>9 DEF NodesListed
  <2>3. \A b \in Pending' : state'[b] # "new"
    BY <1>1, <1>5, <1>9 DEF NodesListed
  <2>4. QED
    BY <1>1, <2>1, <2>2, <2>3 DEF NodesListed
<1>11. PendingRequests'
  <2>1. \A b \in Pending : request'[b] = request[b] /\ request[b].data \in lent
                           /\ request[b].type = TypeOfMode
    BY <1>1, <1>4, <1>9 DEF PendingRequests
  <2>2. TypeOfMode' = TypeOfMode
    BY DEF TypeOfMode
  <2>3. \A b \in Pending' : request'[b].type = TypeOfMode' /\ request'[b].data \in lent'
    BY <1>1, <1>4, <2>1, <2>2
  <2>4. \A b, d \in Pending' : request'[b].data = request'[d].data => b = d
    <3>1. \A b, d \in Pending : request'[b].data = request'[d].data => b = d
      BY <2>1 DEF PendingRequests
    <3>2. \A b \in Pending : request'[b].data # request'[a].data
      BY <1>4, <2>1
    <3>3. QED
      BY <1>1, <3>1, <3>2, ZenonT(60)
  <2>5. QED
    BY <2>3, <2>4 DEF PendingRequests
<1>12. DrainProgress'
  BY <1>1, <1>3 DEF DrainProgress, TypeOK
<1>13. QED
  BY <1>1, <1>2, <1>4, <1>5, <1>6, <1>7, <1>8, <1>10, <1>11, <1>12

(* Nothing is issued while the database is being recovered.                *)
LEMMA NothingIssued ==
  ASSUME Inv, mode = "recovering" \/ Pending = {}
  PROVE \A f \in Files : DOMAIN issued[f] = {}
<1>1. SUFFICES ASSUME NEW f \in Files, NEW i \in DOMAIN issued[f] PROVE FALSE
  OBVIOUS
<1>2. issued[f][i] \in Pending /\ request[issued[f][i]].type = "AIO_WRITE"
  <2>1. Unserved \subseteq Pending
    BY UnservedPending
  <2>2. WritesIssued
    BY DEF Inv
  <2>3. issued[f][i] \in Unserved
    BY <2>2 DEF WritesIssued
  <2>4. request[issued[f][i]].type = "AIO_WRITE"
    BY <2>2 DEF WritesIssued
  <2>5. QED
    BY <2>1, <2>3, <2>4
<1>3. QED
  BY <1>2 DEF Inv, PendingRequests, TypeOfMode

LEMMA WritePageInv ==
  ASSUME Inv, NEW f \in Files, NEW p \in Pages, NEW b \in Buffers, WritePage(f, p, b),
         UNCHANGED HAVE_SOLARIS
  PROVE Inv'
<1> DEFINE r == [type |-> "AIO_WRITE", file |-> f, page |-> p, data |-> b]
<1>1. PICK a \in Aios : /\ TakeAio(a, r) /\ Issue(a)
                        /\ issued' = [issued EXCEPT ![f] = Append(@, a)]
  BY DEF WritePage, asyncio_write_page
<1>2. /\ mpc = "idle" /\ mode = "running" /\ <<f, p>> \notin written /\ b \notin lent
      /\ lent' = lent \cup {b} /\ written' = written \cup {<<f, p>>}
      /\ UNCHANGED <<disk, mem, call, mode, committed, asked>>
  BY DEF WritePage
<1>3. r \in Request /\ r.type = TypeOfMode /\ r.data = b /\ r.file = f /\ r.page = p
  BY <1>2 DEF Request, TypeOfMode
<1> HIDE DEF r
<1>4. /\ NodesListed' /\ PendingRequests' /\ DrainProgress'
      /\ a \notin Pending /\ Pending' = {a} \cup Pending
      /\ Unserved' = {a} \cup Unserved
      /\ request' = [request EXCEPT ![a] = r]
      /\ DOMAIN request' = Aios /\ \A x \in Aios : state'[x] # "new" => request'[x] \in Request
      /\ state' \in [Aios -> {"new", "in progress", "done", "returned", "refused"}]
      /\ list_of_free_aios' \in Seq(Aios) /\ list_of_pending_aios' \in Seq(Aios)
      /\ mpc' \in {"idle", "sync"} /\ refused' \in 0 .. MaxRefused
  BY <1>1, <1>2, <1>3, RequestMade
<1>5. issued \in [Files -> Seq(Aios)] /\ issued[f] \in Seq(Aios) /\ Append(issued[f], a) \in Seq(Aios)
  <2>1. issued \in [Files -> Seq(Aios)]
    BY DEF Inv, TypeOK
  <2>2. issued[f] \in Seq(Aios)
    BY <2>1
  <2>3. QED
    BY <2>1, <2>2
<1>6. issued' \in [Files -> Seq(Aios)] /\ issued'[f] = Append(issued[f], a)
      /\ \A g \in Files : g # f => issued'[g] = issued[g]
  BY <1>1, <1>5
<1>7. TypeOK'
  <2>1. HAVE_SOLARIS' \in BOOLEAN /\ mpc' \in {"idle", "sync", "drain", "root", "exited"}
    BY <1>4 DEF Inv, TypeOK
  <2>2. disk' \in [Files -> [Pages -> Contents]] /\ committed' \in [Files -> [Pages -> Contents]]
        /\ mem' \in [Buffers -> Contents] /\ mode' \in {"recovering", "running"} /\ call' \in Call
    BY <1>2 DEF Inv, TypeOK
  <2>3. lent' \subseteq Buffers /\ asked' \subseteq Buffers \X Files \X Pages
    BY <1>2 DEF Inv, TypeOK
  <2>4. written' \subseteq Files \X Pages
    <3>1. written \subseteq Files \X Pages /\ <<f, p>> \in Files \X Pages
      BY DEF Inv, TypeOK
    <3>2. QED
      BY <1>2, <3>1
  <2>5. QED
    BY <1>4, <1>6, <2>1, <2>2, <2>3, <2>4 DEF TypeOK
<1>8. ReadsAsked'
  BY <1>2 DEF Inv, ReadsAsked
<1>9. request'[a] = r /\ \A x \in Unserved : x # a /\ x \in Aios /\ request'[x] = request[x]
  BY <1>4, UnservedPending DEF Inv, TypeOK, Unserved
<1>10. /\ DOMAIN issued'[f] = DOMAIN issued[f] \cup {Len(issued[f]) + 1}
       /\ issued'[f][Len(issued[f]) + 1] = a
       /\ \A i \in DOMAIN issued[f] : issued'[f][i] = issued[f][i] /\ i # Len(issued[f]) + 1
  BY <1>5, <1>6
<1>11. WritesIssued'
  <2>1. ASSUME NEW g \in Files, NEW i \in DOMAIN issued[g]
        PROVE /\ issued'[g][i] = issued[g][i] /\ issued[g][i] \in Unserved /\ i \in DOMAIN issued'[g]
              /\ request'[issued[g][i]] = request[issued[g][i]]
              /\ request[issued[g][i]].type = "AIO_WRITE" /\ request[issued[g][i]].file = g
              /\ <<g, request[issued[g][i]].page>> \in written
              /\ g = f => request[issued[g][i]].page # p
    BY <1>2, <1>6, <1>9, <1>10 DEF Inv, WritesIssued
  <2>2. ASSUME NEW g \in Files, NEW i \in DOMAIN issued'[g]
        PROVE /\ issued'[g][i] \in Unserved'
              /\ request'[issued'[g][i]].type = "AIO_WRITE"
              /\ request'[issued'[g][i]].file = g
              /\ <<g, request'[issued'[g][i]].page>> \in written'
    <3>1. CASE i \in DOMAIN issued[g]
      <4>1. issued'[g][i] = issued[g][i] /\ issued[g][i] \in Unserved
            /\ request'[issued[g][i]] = request[issued[g][i]]
            /\ request[issued[g][i]].type = "AIO_WRITE" /\ request[issued[g][i]].file = g
            /\ <<g, request[issued[g][i]].page>> \in written
        BY <2>1, <3>1
      <4>2. issued[g][i] \in Unserved' /\ written \subseteq written'
        BY <1>2, <1>4, <4>1
      <4>3. QED
        BY <4>1, <4>2, Zenon
    <3>2. CASE g = f /\ i = Len(issued[f]) + 1
      BY <1>2, <1>3, <1>4, <1>9, <1>10, <3>2 DEF r
    <3>3. QED
      BY <1>6, <1>10, <3>1, <3>2
  <2>3. ASSUME NEW g \in Files, NEW i \in DOMAIN issued'[g], NEW j \in DOMAIN issued'[g],
               request'[issued'[g][i]].page = request'[issued'[g][j]].page
        PROVE i = j
    <3>1. \A k, l \in DOMAIN issued[g] :
            request[issued[g][k]].page = request[issued[g][l]].page => k = l
      BY DEF Inv, WritesIssued
    <3>2. CASE g # f
      <4>1. i \in DOMAIN issued[g] /\ j \in DOMAIN issued[g]
        BY <1>6, <3>2
      <4>2. request[issued[g][i]].page = request[issued[g][j]].page
        <5>1. /\ issued'[g][i] = issued[g][i] /\ request'[issued[g][i]] = request[issued[g][i]]
              /\ issued'[g][j] = issued[g][j] /\ request'[issued[g][j]] = request[issued[g][j]]
          BY <2>1, <4>1, ZenonT(60)
        <5>2. QED
          BY <2>3, <5>1, Zenon
      <4>3. QED
        BY <3>1, <4>1, <4>2
    <3>3. CASE g = f
      <4>1. CASE i \in DOMAIN issued[f] /\ j \in DOMAIN issued[f]
        <5>1. request[issued[f][i]].page = request[issued[f][j]].page
          <6>1. /\ issued'[f][i] = issued[f][i] /\ request'[issued[f][i]] = request[issued[f][i]]
                /\ issued'[f][j] = issued[f][j] /\ request'[issued[f][j]] = request[issued[f][j]]
            BY <2>1, <4>1, ZenonT(60)
          <6>2. QED
            BY <2>3, <3>3, <6>1, Zenon
        <5>2. QED
          BY <3>1, <3>3, <4>1, <5>1
      <4>2. CASE i = Len(issued[f]) + 1 /\ j \in DOMAIN issued[f]
        <5>1. request'[issued'[f][i]].page = p
          BY <1>3, <1>9, <1>10, <4>2
        <5>2. request'[issued'[f][j]].page # p
          <6>1. j \in DOMAIN issued[f]
            BY <4>2
          <6>2. issued'[f][j] = issued[f][j] /\ request'[issued[f][j]] = request[issued[f][j]]
            BY <2>1, <6>1, ZenonT(60)
          <6>3. request[issued[f][j]].page # p
            BY <2>1, <6>1, Zenon
          <6>4. QED
            BY <6>2, <6>3, Zenon
        <5>3. QED
          BY <2>3, <3>3, <5>1, <5>2
      <4>3. CASE i \in DOMAIN issued[f] /\ j = Len(issued[f]) + 1
        <5>1. request'[issued'[f][j]].page = p
          BY <1>3, <1>9, <1>10, <4>3
        <5>2. request'[issued'[f][i]].page # p
          <6>1. i \in DOMAIN issued[f]
            BY <4>3
          <6>2. issued'[f][i] = issued[f][i] /\ request'[issued[f][i]] = request[issued[f][i]]
            BY <2>1, <6>1, ZenonT(60)
          <6>3. request[issued[f][i]].page # p
            BY <2>1, <6>1, Zenon
          <6>4. QED
            BY <6>2, <6>3, Zenon
        <5>3. QED
          BY <2>3, <3>3, <5>1, <5>2
      <4>4. QED
        BY <1>10, <3>3, <4>1, <4>2, <4>3
    <3>4. QED
      BY <3>2, <3>3
  <2>4. ASSUME NEW x \in Unserved'
        PROVE \E i \in DOMAIN issued'[request'[x].file] : issued'[request'[x].file][i] = x
    <3>1. CASE x = a
      BY <1>3, <1>9, <1>10, <3>1
    <3>2. CASE x \in Unserved
      <4>1. PICK i \in DOMAIN issued[request[x].file] : issued[request[x].file][i] = x
        BY <1>2, <3>2 DEF Inv, WritesIssued
      <4>2. request[x] \in Request
        BY <3>2, UnservedPending DEF Inv, NodesListed, TypeOK, Unserved
      <4>3. request[x].file \in Files
        BY <4>2 DEF Request
      <4>4. i \in DOMAIN issued'[request[x].file] /\ issued'[request[x].file][i] = x
        BY <2>1, <4>1, <4>3
      <4>5. request'[x] = request[x]
        BY <1>9, <3>2
      <4>6. QED
        BY <4>4, <4>5
    <3>3. QED
      BY <1>4, <3>1, <3>2
  <2>5. QED
    BY <2>2, <2>3, <2>4 DEF WritesIssued
<1>12. QED
  BY <1>4, <1>7, <1>8, <1>11 DEF Inv

LEMMA ReadPageInv ==
  ASSUME Inv, NEW f \in Files, NEW p \in Pages, NEW b \in Buffers, ReadPage(f, p, b),
         UNCHANGED HAVE_SOLARIS
  PROVE Inv'
<1> DEFINE r == [type |-> "AIO_READ", file |-> f, page |-> p, data |-> b]
<1>1. PICK a \in Aios : TakeAio(a, r) /\ Issue(a)
  BY DEF ReadPage, asyncio_read_page
<1>2. /\ mpc = "idle" /\ mode = "recovering" /\ b \notin lent
      /\ lent' = lent \cup {b} /\ asked' = {s \in asked : s[1] # b} \cup {<<b, f, p>>}
      /\ UNCHANGED <<disk, mem, call, mode, written, committed, issued>>
  BY DEF ReadPage, asyncio_read_page
<1>3. r \in Request /\ r.type = TypeOfMode /\ r.data = b /\ r.file = f /\ r.page = p
  BY <1>2 DEF Request, TypeOfMode
<1> HIDE DEF r
<1>4. /\ NodesListed' /\ PendingRequests' /\ DrainProgress'
      /\ a \notin Pending /\ Pending' = {a} \cup Pending
      /\ Unserved' = {a} \cup Unserved
      /\ request' = [request EXCEPT ![a] = r]
      /\ DOMAIN request' = Aios /\ \A x \in Aios : state'[x] # "new" => request'[x] \in Request
      /\ state' \in [Aios -> {"new", "in progress", "done", "returned", "refused"}]
      /\ list_of_free_aios' \in Seq(Aios) /\ list_of_pending_aios' \in Seq(Aios)
      /\ mpc' \in {"idle", "sync"} /\ refused' \in 0 .. MaxRefused
  BY <1>1, <1>2, <1>3, RequestMade
<1>5. TypeOK'
  <2>1. HAVE_SOLARIS' \in BOOLEAN /\ mpc' \in {"idle", "sync", "drain", "root", "exited"}
    BY <1>4 DEF Inv, TypeOK
  <2>2. disk' \in [Files -> [Pages -> Contents]] /\ committed' \in [Files -> [Pages -> Contents]]
        /\ mem' \in [Buffers -> Contents] /\ mode' \in {"recovering", "running"} /\ call' \in Call
        /\ issued' \in [Files -> Seq(Aios)]
    BY <1>2 DEF Inv, TypeOK
  <2>3. lent' \subseteq Buffers /\ written' \subseteq Files \X Pages
    BY <1>2 DEF Inv, TypeOK
  <2>4. asked' \subseteq Buffers \X Files \X Pages
    <3>1. asked \subseteq Buffers \X Files \X Pages /\ <<b, f, p>> \in Buffers \X Files \X Pages
      BY DEF Inv, TypeOK
    <3>2. QED
      BY <1>2, <3>1
  <2>5. QED
    BY <1>4, <2>1, <2>2, <2>3, <2>4 DEF TypeOK
<1>6. request'[a] = r /\ \A x \in Pending : x # a /\ x \in Aios /\ request'[x] = request[x]
                                           /\ request[x].data \in lent
  BY <1>4, SetOf, ZenonT(60) DEF Inv, TypeOK, PendingRequests, Pending
<1>7. ReadsAsked'
  <2>1. \A x \in Pending' : <<request'[x].data, request'[x].file, request'[x].page>> \in asked'
    <3>1. <<request'[a].data, request'[a].file, request'[a].page>> = <<b, f, p>>
      BY <1>3, <1>6
    <3>2. ASSUME NEW x \in Pending
          PROVE <<request'[x].data, request'[x].file, request'[x].page>> \in asked'
      <4>1. <<request[x].data, request[x].file, request[x].page>> \in asked /\ request[x].data # b
        BY <1>2, <1>6 DEF Inv, ReadsAsked
      <4>2. QED
        BY <1>2, <1>6, <4>1
    <3>3. QED
      BY <1>2, <1>4, <3>1, <3>2
  <2>2. \A s, t \in asked' : s[1] = t[1] => s = t
    BY <1>2 DEF Inv, ReadsAsked
  <2>3. ASSUME NEW s \in asked'
        PROVE mem'[s[1]] = disk'[s[2]][s[3]] \/ \E x \in Unserved' : request'[x].data = s[1]
    <3>1. CASE s = <<b, f, p>>
      BY <1>3, <1>4, <1>6, <3>1
    <3>2. CASE s \in asked
      <4>1. mem[s[1]] = disk[s[2]][s[3]] \/ \E x \in Unserved : request[x].data = s[1]
        BY <3>2 DEF Inv, ReadsAsked
      <4>2. QED
        BY <1>2, <1>4, <1>6, <4>1, UnservedPending
    <3>3. QED
      BY <1>2, <3>1, <3>2
  <2>4. QED
    BY <1>2, <2>1, <2>2, <2>3 DEF ReadsAsked
<1>8. WritesIssued'
  <2>1. \A g \in Files : DOMAIN issued'[g] = {}
    BY <1>2, NothingIssued
  <2>2. QED
    BY <1>2, <2>1 DEF WritesIssued
<1>9. QED
  BY <1>4, <1>5, <1>7, <1>8 DEF Inv

(* A pending write leaves issued, all others stay in their order.          *)
LEMMA IssuedRemoved ==
  ASSUME Inv, NEW a \in Unserved, mode = "running"
  PROVE LET f == request[a].file IN
        /\ f \in Files /\ issued[f] \in Seq(Aios) /\ IsInjective(issued[f])
        /\ \E i \in DOMAIN issued[f] : issued[f][i] = a
<1> DEFINE f == request[a].file
<1>1. WritesIssued /\ issued \in [Files -> Seq(Aios)]
  BY DEF Inv, TypeOK
<1>2. request[a] \in Request
  <2>1. a \in Pending /\ a \in Aios
    BY UnservedPending DEF Unserved
  <2>2. QED
    BY <2>1 DEF Inv, NodesListed, TypeOK
<1>3. f \in Files
  BY <1>2 DEF Request
<1>4. issued[f] \in Seq(Aios)
  BY <1>1, <1>3
<1> HIDE DEF f
<1>5. \A i, j \in DOMAIN issued[f] : request[issued[f][i]].page = request[issued[f][j]].page => i = j
  BY <1>1, <1>3, Zenon DEF WritesIssued
<1>6. IsInjective(issued[f])
  BY <1>5, Zenon DEF IsInjective
<1>7. \E i \in DOMAIN issued[f] : issued[f][i] = a
  BY <1>1, Zenon DEF WritesIssued, f
<1>8. QED
  BY <1>3, <1>4, <1>6, <1>7 DEF f

(* The data of a request goes where it belongs, whoever moves it.          *)
LEMMA TransferInv ==
  ASSUME Inv, NEW a \in Unserved, Transfer(a), Unserved' = Unserved \ {a},
         UNCHANGED <<request, list_of_pending_aios, mode, lent, written, asked>>
  PROVE /\ ReadsAsked' /\ WritesIssued'
        /\ disk' \in [Files -> [Pages -> Contents]] /\ mem' \in [Buffers -> Contents]
        /\ issued' \in [Files -> Seq(Aios)]
<1> DEFINE r == request[a]
<1>1. a \in Pending /\ a \in Aios /\ Pending' = Pending
  BY UnservedPending DEF Unserved, Pending
<1>2. r \in Request /\ r.type = TypeOfMode
  BY <1>1 DEF Inv, NodesListed, TypeOK, PendingRequests
<1>3. r.file \in Files /\ r.page \in Pages /\ r.data \in Buffers
  BY <1>2 DEF Request
<1>4. /\ disk \in [Files -> [Pages -> Contents]] /\ mem \in [Buffers -> Contents]
      /\ issued \in [Files -> Seq(Aios)] /\ mode \in {"recovering", "running"}
  BY DEF Inv, TypeOK
<1>5. ReadsAsked /\ WritesIssued
  BY DEF Inv
<1>6. CASE mode = "running"
  <2> DEFINE f == r.file
             rest == RemoveFirst(issued[f], a)
  <2>1. /\ disk' = [disk EXCEPT ![r.file][r.page] = mem[r.data]] /\ mem' = mem
        /\ issued' = [issued EXCEPT ![f] = rest]
    BY <1>2, <1>6 DEF Transfer, TypeOfMode
  <2>2. disk' \in [Files -> [Pages -> Contents]]
    <3>1. mem[r.data] \in Contents /\ disk[r.file] \in [Pages -> Contents]
      BY <1>3, <1>4
    <3>2. QED
      BY <1>3, <1>4, <2>1, <3>1
  <2>3. ReadsAsked'
    BY <1>5, <1>6 DEF ReadsAsked
  <2>4. f \in Files /\ issued[f] \in Seq(Aios) /\ IsInjective(issued[f])
        /\ \E i \in DOMAIN issued[f] : issued[f][i] = a
    BY <1>6, IssuedRemoved
  <2>5. PICK i \in DOMAIN issued[f] : issued[f][i] = a
    BY <2>4
  <2>6. /\ rest \in Seq(Aios) /\ DOMAIN rest = 1 .. Len(issued[f]) - 1
        /\ \A j \in DOMAIN rest : rest[j] = IF j < i THEN issued[f][j] ELSE issued[f][j + 1]
    <3> DEFINE q == issued[f]
    <3> HIDE DEF q
    <3>1. q \in Seq(Aios) /\ IsInjective(q) /\ i \in DOMAIN q /\ q[i] = a
      BY <2>4, <2>5 DEF q
    <3>2. i \in 1 .. Len(q)
      BY <3>1
    <3>3. LET t == SubSeq(q, 1, i - 1) \o SubSeq(q, i + 1, Len(q)) IN
          /\ t \in Seq(Aios) /\ DOMAIN t = 1 .. Len(q) - 1
          /\ \A j \in 1 .. Len(q) - 1 : t[j] = IF j < i THEN q[j] ELSE q[j + 1]
      BY <3>1, <3>2, CutAt
    <3>4. RemoveFirst(q, a) = SubSeq(q, 1, i - 1) \o SubSeq(q, i + 1, Len(q))
      BY <3>1, RemoveOne
    <3> DEFINE t == SubSeq(q, 1, i - 1) \o SubSeq(q, i + 1, Len(q))
    <3>5. /\ t \in Seq(Aios) /\ DOMAIN t = 1 .. Len(q) - 1
          /\ \A j \in 1 .. Len(q) - 1 : t[j] = IF j < i THEN q[j] ELSE q[j + 1]
      BY <3>3
    <3>6. rest = t
      BY <3>4 DEF q
    <3> HIDE DEF t
    <3>7. QED
      BY <3>5, <3>6 DEF q
  <2>7. Len(issued[f]) \in Nat /\ DOMAIN issued[f] = 1 .. Len(issued[f]) /\ i \in 1 .. Len(issued[f])
    BY <2>4, <2>5
  <2> HIDE DEF f, rest
  <2>8. issued' \in [Files -> Seq(Aios)] /\ issued'[f] = rest
        /\ \A g \in Files : g # f => issued'[g] = issued[g]
    BY <1>4, <2>1, <2>4, <2>6
  (* Where an entry of rest was before. *)
  <2> DEFINE Old(g, j) == IF g = f /\ j >= i THEN j + 1 ELSE j
  <2>9. ASSUME NEW g \in Files, NEW j \in DOMAIN issued'[g]
        PROVE Old(g, j) \in DOMAIN issued[g] /\ issued'[g][j] = issued[g][Old(g, j)]
              /\ issued[g][Old(g, j)] # a
    <3>1. CASE g = f
      <4>1. j \in 1 .. Len(issued[f]) - 1 /\ rest[j] = issued[f][Old(f, j)]
        BY <2>6, <2>7, <2>8, <3>1
      <4>2. Old(f, j) \in DOMAIN issued[f] /\ Old(f, j) # i
        BY <2>7, <4>1
      <4>3. issued[f][Old(f, j)] # a
        BY <2>4, <2>5, <4>2 DEF IsInjective
      <4>4. QED
        BY <2>8, <3>1, <4>1, <4>2, <4>3
    <3>2. CASE g # f
      <4>1. Old(g, j) = j /\ issued'[g] = issued[g] /\ j \in DOMAIN issued[g]
        BY <2>8, <3>2
      <4>2. request[issued[g][j]].file = g
        BY <1>5, <4>1, Zenon DEF WritesIssued
      <4>3. issued[g][j] # a
        BY <3>2, <4>2 DEF f
      <4>4. QED
        BY <4>1, <4>3
    <3>3. QED
      BY <3>1, <3>2
  <2>10. ASSUME NEW g \in Files, NEW j \in DOMAIN issued'[g], NEW k \in DOMAIN issued'[g],
                Old(g, j) = Old(g, k)
         PROVE j = k
    <3>1. CASE g = f
      <4>1. j \in 1 .. Len(issued[f]) - 1 /\ k \in 1 .. Len(issued[f]) - 1
        BY <2>6, <2>8, <3>1
      <4>2. QED
        BY <2>7, <2>10, <4>1
    <3>2. CASE g # f
      BY <2>10, <3>2
    <3>3. QED
      BY <3>1, <3>2
  <2>11. ASSUME NEW x \in Unserved' PROVE \E j \in DOMAIN issued'[request[x].file] :
                                            issued'[request[x].file][j] = x
    <3> DEFINE g == request[x].file
    <3>1. x \in Unserved /\ x # a
      OBVIOUS
    <3>2. g \in Files /\ \E j \in DOMAIN issued[g] : issued[g][j] = x
      BY <1>6, <3>1, IssuedRemoved
    <3>3. PICK j \in DOMAIN issued[g] : issued[g][j] = x
      BY <3>2
    <3>4. CASE g = f
      <4>1. j # i /\ j \in 1 .. Len(issued[f])
        BY <2>5, <2>7, <3>1, <3>3, <3>4
      <4>2. CASE j < i
        <5>1. j \in DOMAIN rest /\ rest[j] = issued[f][j]
          BY <2>6, <2>7, <4>1, <4>2
        <5>2. j \in DOMAIN issued'[g] /\ issued'[g][j] = x
          BY <2>8, <3>3, <3>4, <5>1
        <5>3. QED
          BY <5>2
      <4>3. CASE j > i
        <5>1. j - 1 \in DOMAIN rest /\ rest[j - 1] = issued[f][(j - 1) + 1] /\ (j - 1) + 1 = j
          BY <2>6, <2>7, <4>1, <4>3
        <5>2. j - 1 \in DOMAIN issued'[g] /\ issued'[g][j - 1] = x
          BY <2>8, <3>3, <3>4, <5>1
        <5>3. QED
          BY <5>2
      <4>4. QED
        BY <2>7, <4>1, <4>2, <4>3
    <3>5. CASE g # f
      BY <2>8, <3>2, <3>5
    <3>6. QED
      BY <3>4, <3>5
  <2>12. WritesIssued'
    <3>1. ASSUME NEW g \in Files, NEW j \in DOMAIN issued'[g]
          PROVE /\ issued'[g][j] \in Unserved' /\ request'[issued'[g][j]].type = "AIO_WRITE"
                /\ request'[issued'[g][j]].file = g
                /\ <<g, request'[issued'[g][j]].page>> \in written'
      <4>1. PICK k \in DOMAIN issued[g] : issued'[g][j] = issued[g][k] /\ issued[g][k] # a
        BY <2>9
      <4>2. issued[g][k] \in Unserved /\ request[issued[g][k]].type = "AIO_WRITE"
            /\ request[issued[g][k]].file = g /\ <<g, request[issued[g][k]].page>> \in written
        BY <1>5, Zenon DEF WritesIssued
      <4>3. issued'[g][j] \in Unserved'
        BY <4>1, <4>2
      <4>4. QED
        BY <4>1, <4>2, <4>3
    <3>2. ASSUME NEW g \in Files, NEW j \in DOMAIN issued'[g], NEW k \in DOMAIN issued'[g],
                 request'[issued'[g][j]].page = request'[issued'[g][k]].page
          PROVE j = k
      <4>1. /\ Old(g, j) \in DOMAIN issued[g] /\ issued'[g][j] = issued[g][Old(g, j)]
            /\ Old(g, k) \in DOMAIN issued[g] /\ issued'[g][k] = issued[g][Old(g, k)]
        BY <2>9
      <4> HIDE DEF Old
      <4>2. request[issued[g][Old(g, j)]].page = request[issued[g][Old(g, k)]].page
        BY <3>2, <4>1
      <4>3. Old(g, j) = Old(g, k)
        BY <1>5, <4>1, <4>2, Zenon DEF WritesIssued
      <4>4. QED
        BY <2>10, <4>3
    <3>3. \A x \in Unserved' : \E j \in DOMAIN issued'[request'[x].file] :
                                 issued'[request'[x].file][j] = x
      BY <2>11
    <3>4. \A g \in Files : \A j \in DOMAIN issued'[g] :
            /\ issued'[g][j] \in Unserved' /\ request'[issued'[g][j]].type = "AIO_WRITE"
            /\ request'[issued'[g][j]].file = g
            /\ <<g, request'[issued'[g][j]].page>> \in written'
            /\ \A k \in DOMAIN issued'[g] :
                 request'[issued'[g][j]].page = request'[issued'[g][k]].page => j = k
      <4> SUFFICES ASSUME NEW g \in Files, NEW j \in DOMAIN issued'[g]
                   PROVE /\ issued'[g][j] \in Unserved' /\ request'[issued'[g][j]].type = "AIO_WRITE"
                         /\ request'[issued'[g][j]].file = g
                         /\ <<g, request'[issued'[g][j]].page>> \in written'
                         /\ \A k \in DOMAIN issued'[g] :
                              request'[issued'[g][j]].page = request'[issued'[g][k]].page => j = k
        OBVIOUS
      <4>1. \A k \in DOMAIN issued'[g] :
              request'[issued'[g][j]].page = request'[issued'[g][k]].page => j = k
        BY <3>2
      <4>2. /\ issued'[g][j] \in Unserved' /\ request'[issued'[g][j]].type = "AIO_WRITE"
            /\ request'[issued'[g][j]].file = g
            /\ <<g, request'[issued'[g][j]].page>> \in written'
        BY <3>1
      <4>3. QED
        BY <4>1, <4>2
    <3>5. QED
      BY <3>3, <3>4 DEF WritesIssued
  <2>13. QED
    BY <1>4, <2>1, <2>2, <2>3, <2>8, <2>12
<1>7. CASE mode = "recovering"
  <2>1. /\ mem' = [mem EXCEPT ![r.data] = disk[r.file][r.page]] /\ disk' = disk
        /\ issued' = issued
    BY <1>2, <1>7 DEF Transfer, TypeOfMode
  <2>2. mem' \in [Buffers -> Contents]
    <3>1. disk[r.file][r.page] \in Contents
      BY <1>3, <1>4
    <3>2. QED
      BY <1>3, <1>4, <2>1, <3>1
  <2>3. <<r.data, r.file, r.page>> \in asked
    BY <1>1, <1>5, <1>7 DEF ReadsAsked
  <2>4. ASSUME NEW s \in asked
        PROVE mem'[s[1]] = disk'[s[2]][s[3]] \/ \E x \in Unserved' : request'[x].data = s[1]
    <3>1. s[1] \in Buffers
      BY DEF Inv, TypeOK
    <3>2. CASE s[1] = r.data
      <4>1. s = <<r.data, r.file, r.page>>
        BY <1>5, <2>3, <3>2 DEF ReadsAsked
      <4>2. QED
        BY <1>3, <1>4, <2>1, <4>1
    <3>3. CASE s[1] # r.data
      <4>1. mem[s[1]] = disk[s[2]][s[3]] \/ \E x \in Unserved : request[x].data = s[1]
        BY <1>5 DEF ReadsAsked
      <4>2. mem'[s[1]] = mem[s[1]]
        BY <1>4, <2>1, <3>1, <3>3
      <4>3. QED
        BY <2>1, <3>3, <4>1, <4>2
    <3>4. QED
      BY <3>2, <3>3
  <2>5. ReadsAsked'
    BY <1>1, <1>5, <1>7, <2>4 DEF ReadsAsked
  <2>6. WritesIssued'
    <3>1. \A g \in Files : DOMAIN issued'[g] = {}
      BY <1>7, <2>1, NothingIssued
    <3>2. QED
      BY <1>7, <3>1 DEF WritesIssued
  <2>7. QED
    BY <1>4, <2>1, <2>2, <2>5, <2>6
<1>8. QED
  BY <1>4, <1>6, <1>7

LEMMA CompleteInv ==
  ASSUME Inv, NEW a \in Aios, Complete(a), UNCHANGED HAVE_SOLARIS
  PROVE Inv'
<1>1. /\ state[a] = "in progress" /\ Transfer(a) /\ state' = [state EXCEPT ![a] = "done"]
      /\ UNCHANGED <<request, list_of_free_aios, list_of_pending_aios, mpc, call, mode, refused,
                     lent, written, committed, asked>>
  BY DEF Complete, listVars, ghostVars
<1>2. TypeOK /\ NodesListed /\ PendingRequests /\ DrainProgress
  BY DEF Inv
<1>3. /\ state' \in [Aios -> {"new", "in progress", "done", "returned", "refused"}]
      /\ state'[a] = "done" /\ \A b \in Aios : b # a => state'[b] = state[b]
  BY <1>1, <1>2 DEF TypeOK
<1>4. Free' = Free /\ Pending' = Pending /\ Free \subseteq Aios /\ Pending \subseteq Aios
  BY <1>1, <1>2, SetOf DEF Free, Pending, TypeOK
<1>5. Active' = Active /\ a \in Active
  BY <1>1, <1>3 DEF Active
<1>6. a \in Pending /\ a \notin Free
  BY <1>2, <1>5 DEF NodesListed
<1>7. a \in Unserved /\ Unserved' = Unserved \ {a}
  <2>1. mpc = "sync" => Head(list_of_pending_aios) # a
    BY <1>1, <1>2 DEF DrainProgress
  <2>2. QED
    BY <1>1, <1>3, <2>1 DEF Unserved
<1>8. /\ ReadsAsked' /\ WritesIssued'
      /\ disk' \in [Files -> [Pages -> Contents]] /\ mem' \in [Buffers -> Contents]
      /\ issued' \in [Files -> Seq(Aios)]
  BY <1>1, <1>7, TransferInv
<1>9. TypeOK'
  <2>1. DOMAIN request' = Aios /\ \A b \in Aios : state'[b] # "new" => request'[b] \in Request
    BY <1>1, <1>2, <1>3 DEF TypeOK
  <2>2. QED
    BY <1>1, <1>2, <1>3, <1>8, <2>1 DEF TypeOK
<1>10. NodesListed'
  BY <1>1, <1>2, <1>3, <1>4, <1>5, <1>6 DEF NodesListed
<1>11. PendingRequests'
  BY <1>1, <1>2, <1>4 DEF PendingRequests, TypeOfMode
<1>12. DrainProgress'
  <2>1. mpc = "sync" => state'[Head(list_of_pending_aios)] = "refused"
    <3>1. ASSUME mpc = "sync" PROVE Head(list_of_pending_aios) \in Aios
      BY <1>2, <3>1, TailSet DEF DrainProgress, TypeOK
    <3>2. QED
      BY <1>1, <1>2, <1>3, <3>1 DEF DrainProgress
  <2>2. TypeOfMode' = TypeOfMode
    BY <1>1 DEF TypeOfMode
  <2>3. QED
    BY <1>1, <1>2, <1>4, <1>5, <2>1, <2>2 DEF DrainProgress
<1>13. QED
  BY <1>8, <1>9, <1>10, <1>11, <1>12 DEF Inv

LEMMA SyncTransferInv ==
  ASSUME Inv, SyncTransfer, UNCHANGED HAVE_SOLARIS
  PROVE Inv'
<1> DEFINE a == Head(list_of_pending_aios)
<1>1. /\ mpc = "sync" /\ Transfer(a) /\ mpc' = "idle"
      /\ UNCHANGED <<request, state, list_of_free_aios, list_of_pending_aios, call, mode, refused,
                     lent, written, committed, asked>>
  BY DEF SyncTransfer, listVars, ghostVars
<1>2. TypeOK /\ NodesListed /\ PendingRequests /\ DrainProgress
  BY DEF Inv
<1>3. list_of_pending_aios \in Seq(Aios) /\ list_of_pending_aios # <<>> /\ state[a] = "refused"
  BY <1>1, <1>2 DEF TypeOK, DrainProgress
<1>4. a \in Aios
  BY <1>3, TailSet
<1>5. Free' = Free /\ Pending' = Pending /\ Active' = Active
  BY <1>1 DEF Free, Pending, Active
<1>6. a \in Unserved /\ Unserved' = Unserved \ {a}
  BY <1>1, <1>3, <1>4 DEF Unserved
<1> HIDE DEF a
<1>7. /\ ReadsAsked' /\ WritesIssued'
      /\ disk' \in [Files -> [Pages -> Contents]] /\ mem' \in [Buffers -> Contents]
      /\ issued' \in [Files -> Seq(Aios)]
  BY <1>1, <1>6, TransferInv
<1>8. TypeOK'
  BY <1>1, <1>2, <1>7 DEF TypeOK
<1>9. NodesListed'
  BY <1>1, <1>2, <1>5 DEF NodesListed
<1>10. PendingRequests'
  BY <1>1, <1>2, <1>5 DEF PendingRequests, TypeOfMode
<1>11. DrainProgress'
  BY <1>1 DEF DrainProgress
<1>12. QED
  BY <1>7, <1>8, <1>9, <1>10, <1>11 DEF Inv

(* A step that moves no data and leaves the nodes and their requests.      *)
LEMMA QuietInv ==
  ASSUME Inv, Unserved' = Unserved, Pending' = Pending,
         UNCHANGED <<request, disk, mem, mode, issued, lent, written, asked>>
  PROVE PendingRequests' /\ ReadsAsked' /\ WritesIssued'
<1>1. PendingRequests'
  BY DEF Inv, PendingRequests, TypeOfMode
<1>2. ReadsAsked'
  BY DEF Inv, ReadsAsked
<1>3. WritesIssued'
  <2>1. WritesIssued /\ issued' = issued /\ request' = request /\ mode' = mode /\ written' = written
    BY DEF Inv
  <2>2. \A f \in Files : \A i \in DOMAIN issued'[f] :
          /\ issued'[f][i] \in Unserved' /\ request'[issued'[f][i]].type = "AIO_WRITE"
          /\ request'[issued'[f][i]].file = f /\ <<f, request'[issued'[f][i]].page>> \in written'
          /\ \A j \in DOMAIN issued'[f] :
               request'[issued'[f][i]].page = request'[issued'[f][j]].page => i = j
    BY <2>1 DEF WritesIssued
  <2>3. QED
    BY <2>1, <2>2 DEF WritesIssued
<1>4. QED
  BY <1>1, <1>2, <1>3

LEMMA StartDrainInv ==
  ASSUME Inv, NEW type \in {"AIO_READ", "AIO_WRITE"}, NEW after \in {"root", "return"},
         StartDrain(type, after), type = TypeOfMode, UNCHANGED HAVE_SOLARIS
  PROVE Inv'
<1>1. /\ mpc = "idle" /\ mpc' = "drain"
      /\ call' = [type |-> type, rest |-> list_of_pending_aios, after |-> after]
      /\ UNCHANGED <<HAVE_SOLARIS, request, state, list_of_free_aios, list_of_pending_aios, disk, mem,
                     mode, refused, issued, lent, written, committed, asked>>
  BY DEF StartDrain, listVars, ghostVars
<1>2. TypeOK /\ NodesListed
  BY DEF Inv
<1>3. call' \in Call /\ call'.rest = list_of_pending_aios /\ call'.type = type
  BY <1>1, <1>2 DEF Call, TypeOK
<1>4. TypeOK'
  BY <1>1, <1>2, <1>3 DEF TypeOK
<1>5. Free' = Free /\ Pending' = Pending /\ Active' = Active /\ Unserved' = Unserved
  BY <1>1 DEF Free, Pending, Active, Unserved
<1>6. NodesListed'
  BY <1>1, <1>2, <1>5 DEF NodesListed
<1>7. PendingRequests' /\ ReadsAsked' /\ WritesIssued'
  BY <1>1, <1>5, QuietInv
<1>8. IsFiniteSet(Active) /\ Cardinality(Active) <= Len(list_of_pending_aios)
  <2>1. Active \in SUBSET ToSet(list_of_pending_aios) /\ list_of_pending_aios \in Seq(Aios)
    BY <1>2 DEF NodesListed, Pending, TypeOK
  <2>2. QED
    BY <2>1, SetNoLarger
<1>9. DrainProgress'
  <2>1. TypeOfMode' = TypeOfMode
    BY <1>1 DEF TypeOfMode
  <2>2. ToSet(call'.rest) = Pending /\ Active \subseteq Pending
    BY <1>2, <1>3 DEF Pending, NodesListed
  <2>3. QED
    BY <1>1, <1>3, <1>5, <1>8, <2>1, <2>2 DEF DrainProgress
<1>10. QED
  BY <1>4, <1>6, <1>7, <1>9 DEF Inv

(* One turn of a drain; on Solaris it may be another node's request that   *)
(* is given back, but always one fewer is left for one turn fewer.         *)
LEMMA DrainAioInv ==
  ASSUME Inv, DrainAio, UNCHANGED HAVE_SOLARIS
  PROVE Inv'
<1> DEFINE a == Head(call.rest)
<1>1. /\ mpc = "drain" /\ call.rest # <<>>
      /\ UNCHANGED <<HAVE_SOLARIS, request, list_of_free_aios, list_of_pending_aios, disk, mem, mode,
                     refused, issued, lent, written, committed, asked>>
  BY DEF DrainAio, listVars, ghostVars
<1>2. TypeOK /\ NodesListed /\ PendingRequests /\ DrainProgress
  BY DEF Inv
<1>3. call \in Call /\ call.rest \in Seq(Aios)
  BY <1>2 DEF TypeOK, Call
<1>4. /\ Tail(call.rest) \in Seq(Aios) /\ a \in Aios /\ Len(call.rest) \in Nat
      /\ Len(Tail(call.rest)) = Len(call.rest) - 1
      /\ ToSet(call.rest) = {a} \cup ToSet(Tail(call.rest))
  BY <1>1, <1>3, TailSet
<1>5. a \in Pending /\ request[a].type = call.type
  BY <1>1, <1>2, <1>4 DEF DrainProgress, PendingRequests
<1> HIDE DEF a
<1>6. IF HAVE_SOLARIS THEN SolarisWait ELSE PosixWait(a)
  BY <1>5 DEF DrainAio, a
<1>7. Free' = Free /\ Pending' = Pending /\ Free \subseteq Aios /\ Pending \subseteq Aios
  BY <1>1, <1>2, SetOf DEF Free, Pending, TypeOK
<1>8. CASE DrainExits /\ UNCHANGED state
  <2>1. mpc' = "exited" /\ UNCHANGED <<call, state>>
    BY <1>8 DEF DrainExits
  <2>2. Active' = Active /\ Unserved' = Unserved
    BY <1>1, <2>1 DEF Active, Unserved
  <2>3. TypeOK'
    BY <1>1, <1>2, <2>1 DEF TypeOK
  <2>4. NodesListed'
    BY <1>1, <1>2, <1>7, <2>1, <2>2 DEF NodesListed
  <2>5. PendingRequests' /\ ReadsAsked' /\ WritesIssued'
    BY <1>1, <1>7, <2>2, QuietInv
  <2>6. DrainProgress'
    BY <2>1 DEF DrainProgress
  <2>7. QED
    BY <2>3, <2>4, <2>5, <2>6 DEF Inv
<1>9. ASSUME DrainGoesOn,
             state' \in [Aios -> {"new", "in progress", "done", "returned", "refused"}],
             \A b \in Aios : \/ state'[b] = state[b]
                             \/ state[b] = "done" /\ state'[b] = "returned",
             HAVE_SOLARIS => IsFiniteSet(Active') /\ Cardinality(Active') <= Len(call.rest) - 1,
             ~HAVE_SOLARIS => a \notin Active'
      PROVE Inv'
  <2>1. mpc' = "drain" /\ call' = [call EXCEPT !.rest = Tail(@)]
    BY <1>1, <1>9 DEF DrainGoesOn
  <2>2. call' \in Call /\ call'.rest = Tail(call.rest) /\ call'.type = call.type
    BY <1>3, <1>4, <2>1 DEF Call
  <2>3. Active' \subseteq Active /\ Unserved' = Unserved
    BY <1>1, <1>9, <2>1 DEF Active, Unserved
  <2>4. TypeOK'
    <3>1. \A b \in Aios : state'[b] # "new" => request'[b] \in Request
      BY <1>1, <1>2, <1>9 DEF TypeOK
    <3>2. QED
      BY <1>1, <1>2, <1>9, <2>1, <2>2, <3>1 DEF TypeOK
  <2>5. NodesListed'
    <3>1. \A b \in Free' : state'[b] \in {"returned", "refused"}
      BY <1>2, <1>7, <1>9 DEF NodesListed
    <3>2. \A b \in Pending' : state'[b] # "new"
      BY <1>2, <1>7, <1>9 DEF NodesListed
    <3>3. QED
      BY <1>1, <1>2, <1>7, <2>3, <3>1, <3>2 DEF NodesListed
  <2>6. PendingRequests' /\ ReadsAsked' /\ WritesIssued'
    BY <1>1, <1>7, <2>3, QuietInv
  <2>7. DrainProgress'
    <3>1. call'.type = TypeOfMode'
      BY <1>1, <1>2, <2>2 DEF DrainProgress, TypeOfMode
    <3>2. ToSet(call'.rest) \subseteq Pending'
      BY <1>1, <1>2, <1>4, <1>7, <2>2 DEF DrainProgress
    <3>3. HAVE_SOLARIS => IsFiniteSet(Active') /\ Cardinality(Active') <= Len(call'.rest)
      BY <1>4, <1>9, <2>2
    <3>4. ~HAVE_SOLARIS => Active' \subseteq ToSet(call'.rest)
      BY <1>1, <1>2, <1>4, <1>9, <2>2, <2>3 DEF DrainProgress
    <3>5. QED
      BY <1>1, <2>1, <3>1, <3>2, <3>3, <3>4 DEF DrainProgress
  <2>8. QED
    BY <2>4, <2>5, <2>6, <2>7 DEF Inv
<1>10. CASE HAVE_SOLARIS
  <2>1. ASSUME NEW b \in Aios, state[b] = "done", state' = [state EXCEPT ![b] = "returned"], DrainGoesOn
        PROVE Inv'
    <3>1. /\ state' \in [Aios -> {"new", "in progress", "done", "returned", "refused"}]
          /\ state'[b] = "returned" /\ \A x \in Aios : x # b => state'[x] = state[x]
      BY <1>2, <2>1 DEF TypeOK
    <3>2. Active' = Active \ {b} /\ b \in Active
      BY <2>1, <3>1 DEF Active
    <3>3. IsFiniteSet(Active) /\ Cardinality(Active) <= Len(call.rest) /\ Cardinality(Active) \in Nat
      BY <1>1, <1>2, <1>10, FS_CardinalityType DEF DrainProgress
    <3>4. IsFiniteSet(Active') /\ Cardinality(Active') = Cardinality(Active) - 1
      BY <3>2, <3>3, FS_RemoveElement
    <3>5. Cardinality(Active') <= Len(call.rest) - 1
      BY <1>4, <3>3, <3>4
    <3>6. \A x \in Aios : state'[x] = state[x] \/ (state[x] = "done" /\ state'[x] = "returned")
      BY <2>1, <3>1
    <3>7. QED
      BY <1>9, <1>10, <2>1, <3>1, <3>4, <3>5, <3>6
  <2>2. QED
    BY <1>6, <1>8, <1>10, <2>1 DEF SolarisWait
<1>11. CASE ~HAVE_SOLARIS
  <2>1. ASSUME state[a] = "done", state' = [state EXCEPT ![a] = "returned"], DrainGoesOn
        PROVE Inv'
    <3>1. /\ state' \in [Aios -> {"new", "in progress", "done", "returned", "refused"}]
          /\ state'[a] = "returned" /\ \A x \in Aios : x # a => state'[x] = state[x]
      BY <1>2, <1>4, <2>1 DEF TypeOK
    <3>2. a \notin Active'
      BY <3>1 DEF Active
    <3>3. \A x \in Aios : state'[x] = state[x] \/ (state[x] = "done" /\ state'[x] = "returned")
      BY <2>1, <3>1
    <3>4. QED
      BY <1>9, <1>11, <2>1, <3>1, <3>2, <3>3
  <2>2. ASSUME state[a] = "refused", UNCHANGED state, DrainGoesOn
        PROVE Inv'
    <3>1. a \notin Active'
      BY <2>2 DEF Active
    <3>2. state' \in [Aios -> {"new", "in progress", "done", "returned", "refused"}]
      BY <1>2, <2>2 DEF TypeOK
    <3>3. QED
      BY <1>9, <1>11, <2>2, <3>1, <3>2
  <2>3. QED
    BY <1>6, <1>8, <1>11, <2>1, <2>2 DEF PosixWait
<1>12. QED
  BY <1>10, <1>11

(* When a drain is over the system has none of the requests left.          *)
LEMMA DrainedNodes ==
  ASSUME Inv, mpc = "drain", call.rest = <<>>
  PROVE Active = {} /\ Unserved = {} /\ \A a \in Pending : state[a] \in {"returned", "refused"}
<1>1. TypeOK /\ NodesListed /\ DrainProgress
  BY DEF Inv
<1>2. Active = {}
  <2>1. CASE HAVE_SOLARIS
    <3>1. IsFiniteSet(Active) /\ Cardinality(Active) <= Len(call.rest) /\ Len(call.rest) = 0
      BY <1>1, <2>1 DEF DrainProgress
    <3>2. Cardinality(Active) \in Nat
      BY <3>1, FS_CardinalityType
    <3>3. Cardinality(Active) = 0
      BY <3>1, <3>2
    <3>4. QED
      BY <3>1, <3>3, FS_EmptySet
  <2>2. CASE ~HAVE_SOLARIS
    BY <1>1, <2>2, SetOf DEF DrainProgress
  <2>3. QED
    BY <2>1, <2>2
<1>3. Unserved = {}
  BY <1>2 DEF Unserved, Active
<1>4. Pending \subseteq Aios
  BY <1>1, SetOf DEF Pending, TypeOK
<1>5. \A a \in Pending : state[a] \in {"returned", "refused"}
  BY <1>1, <1>2, <1>4 DEF NodesListed, Active, TypeOK
<1>6. QED
  BY <1>2, <1>3, <1>5

LEMMA DrainReturnInv ==
  ASSUME Inv, DrainReturn, UNCHANGED HAVE_SOLARIS
  PROVE Inv'
<1>1. /\ mpc = "drain" /\ call.rest = <<>>
      /\ list_of_free_aios' = Reverse(list_of_pending_aios) \o list_of_free_aios
      /\ list_of_pending_aios' = <<>> /\ call' = NoCall /\ lent' = {}
      /\ mpc' \in {"root", "idle"}
      /\ UNCHANGED <<request, state, disk, mem, mode, refused, issued, written, committed, asked>>
  BY DEF DrainReturn
<1>2. TypeOK /\ NodesListed
  BY DEF Inv
<1>3. Active = {} /\ Unserved = {} /\ \A a \in Pending : state[a] \in {"returned", "refused"}
  BY <1>1, DrainedNodes
<1>4. Active' = {} /\ Unserved' = {}
  BY <1>1, <1>3 DEF Active, Unserved
<1>5. Pending' = {}
  BY <1>1, SetOf DEF Pending
<1>6. list_of_free_aios' \in Seq(Aios) /\ Free' = Pending \cup Free /\ IsInjective(list_of_free_aios')
  <2> DEFINE rev == Reverse(list_of_pending_aios)
  <2>1. list_of_pending_aios \in Seq(Aios) /\ list_of_free_aios \in Seq(Aios)
        /\ IsInjective(list_of_pending_aios) /\ IsInjective(list_of_free_aios)
        /\ Pending \cap Free = {}
    BY <1>2 DEF TypeOK, NodesListed
  <2>2. rev \in Seq(Aios) /\ ToSet(rev) = Pending /\ IsInjective(rev)
    BY <2>1, ReverseSet DEF Pending
  <2> HIDE DEF rev
  <2>3. rev \o list_of_free_aios \in Seq(Aios) /\ ToSet(rev \o list_of_free_aios) = Pending \cup Free
        /\ IsInjective(rev \o list_of_free_aios)
    BY <2>1, <2>2, ConcatSet DEF Free
  <2>4. list_of_free_aios' = rev \o list_of_free_aios
    BY <1>1 DEF rev
  <2>5. QED
    BY <2>3, <2>4 DEF Free
<1>7. TypeOK'
  <2>1. NoCall \in Call
    BY DEF NoCall, Call
  <2>2. /\ call' \in Call /\ list_of_pending_aios' \in Seq(Aios) /\ lent' \subseteq Buffers
        /\ mpc' \in {"idle", "sync", "drain", "root", "exited"}
    BY <1>1, <2>1
  <2>3. QED
    BY <1>1, <1>2, <1>6, <2>2 DEF TypeOK
<1>8. NodesListed'
  <2>1. \A a \in Free' : state'[a] \in {"returned", "refused"}
    BY <1>1, <1>2, <1>3, <1>6 DEF NodesListed
  <2>2. IsInjective(list_of_pending_aios')
    BY <1>1 DEF IsInjective
  <2>3. QED
    BY <1>4, <1>5, <1>6, <2>1, <2>2 DEF NodesListed
<1>9. PendingRequests' /\ DrainProgress'
  BY <1>1, <1>5 DEF PendingRequests, DrainProgress
<1>10. ReadsAsked'
  BY <1>1, <1>3, <1>5 DEF Inv, ReadsAsked
<1>11. WritesIssued'
  <2>1. \A f \in Files : DOMAIN issued'[f] = {}
    <3>1. ASSUME NEW f \in Files, NEW i \in DOMAIN issued[f] PROVE FALSE
      <4>1. WritesIssued
        BY DEF Inv
      <4>2. issued[f][i] \in Unserved
        BY <4>1, Zenon DEF WritesIssued
      <4>3. QED
        BY <1>3, <4>2
    <3>2. QED
      BY <1>1, <3>1
  <2>2. QED
    BY <1>4, <2>1 DEF WritesIssued
<1>12. QED
  BY <1>7, <1>8, <1>9, <1>10, <1>11 DEF Inv

LEMMA RootWriteInv ==
  ASSUME Inv, RootWrite, UNCHANGED HAVE_SOLARIS
  PROVE Inv' /\ \A f \in Files : DOMAIN issued[f] = {}
<1>1. /\ mpc = "root" /\ committed' = disk /\ written' = {} /\ mpc' = "idle"
      /\ UNCHANGED <<request, state, list_of_free_aios, list_of_pending_aios, disk, mem, call, mode,
                     refused, issued, lent, asked>>
  BY DEF RootWrite, listVars
<1>2. TypeOK /\ NodesListed /\ PendingRequests
  BY DEF Inv
<1>3. Pending = {}
  BY <1>1, SetOf DEF Inv, DrainProgress, Pending
<1>4. Unserved = {} /\ Unserved' = {}
  <2>1. Unserved = {}
    BY <1>3, UnservedPending
  <2>2. QED
    BY <1>1, <2>1 DEF Unserved
<1>5. \A f \in Files : DOMAIN issued[f] = {}
  BY <1>3, NothingIssued
<1>6. Free' = Free /\ Pending' = Pending /\ Active' = Active
  BY <1>1 DEF Free, Pending, Active
<1>7. TypeOK'
  BY <1>1, <1>2 DEF TypeOK
<1>8. NodesListed' /\ PendingRequests' /\ DrainProgress'
  BY <1>1, <1>2, <1>6 DEF NodesListed, PendingRequests, DrainProgress, TypeOfMode
<1>9. ReadsAsked'
  BY <1>1, <1>4, <1>6 DEF Inv, ReadsAsked
<1>10. WritesIssued'
  BY <1>1, <1>4, <1>5 DEF WritesIssued
<1>11. QED
  BY <1>5, <1>7, <1>8, <1>9, <1>10 DEF Inv

LEMMA ChangePageInv ==
  ASSUME Inv, NEW b \in Buffers, NEW v \in Contents, ChangePage(b, v), UNCHANGED HAVE_SOLARIS
  PROVE Inv'
<1>1. /\ mpc = "idle" /\ mode = "running" /\ mem' = [mem EXCEPT ![b] = v]
      /\ UNCHANGED <<request, state, list_of_free_aios, list_of_pending_aios, disk, mpc, call, mode,
                     refused, issued, lent, written, committed, asked>>
  BY DEF ChangePage, listVars, ghostVars
<1>2. TypeOK /\ NodesListed /\ PendingRequests /\ DrainProgress /\ ReadsAsked
  BY DEF Inv
<1>3. mem' \in [Buffers -> Contents]
  BY <1>1, <1>2 DEF TypeOK
<1>4. TypeOK'
  BY <1>1, <1>2, <1>3 DEF TypeOK
<1>5. Free' = Free /\ Pending' = Pending /\ Active' = Active /\ Unserved' = Unserved
  BY <1>1 DEF Free, Pending, Active, Unserved
<1>6. NodesListed' /\ PendingRequests' /\ DrainProgress'
  BY <1>1, <1>2, <1>5 DEF NodesListed, PendingRequests, DrainProgress, TypeOfMode
<1>7. ReadsAsked'
  BY <1>1, <1>2 DEF ReadsAsked
<1>8. WritesIssued'
  <2>1. WritesIssued /\ issued' = issued /\ request' = request /\ mode' = mode /\ written' = written
    BY <1>1 DEF Inv
  <2>2. \A f \in Files : \A i \in DOMAIN issued'[f] :
          /\ issued'[f][i] \in Unserved' /\ request'[issued'[f][i]].type = "AIO_WRITE"
          /\ request'[issued'[f][i]].file = f /\ <<f, request'[issued'[f][i]].page>> \in written'
          /\ \A j \in DOMAIN issued'[f] :
               request'[issued'[f][i]].page = request'[issued'[f][j]].page => i = j
    BY <1>5, <2>1 DEF WritesIssued
  <2>3. QED
    BY <1>5, <2>1, <2>2 DEF WritesIssued
<1>9. QED
  BY <1>4, <1>6, <1>7, <1>8 DEF Inv

LEMMA FinishRecoveryInv ==
  ASSUME Inv, FinishRecovery, UNCHANGED HAVE_SOLARIS
  PROVE Inv'
<1>1. /\ mpc = "idle" /\ lent = {} /\ mode' = "running" /\ asked' = {}
      /\ UNCHANGED <<request, state, list_of_free_aios, list_of_pending_aios, disk, mem, mpc, call,
                     refused, issued, lent, written, committed>>
  BY DEF FinishRecovery, listVars
<1>2. TypeOK /\ NodesListed /\ PendingRequests
  BY DEF Inv
<1>3. Pending = {}
  BY <1>1, <1>2 DEF PendingRequests
<1>4. Unserved = {} /\ Unserved' = {}
  <2>1. Unserved = {}
    BY <1>3, UnservedPending
  <2>2. QED
    BY <1>1, <2>1 DEF Unserved
<1>5. \A f \in Files : DOMAIN issued[f] = {}
  BY <1>3, NothingIssued
<1>6. Free' = Free /\ Pending' = {} /\ Active' = Active
  BY <1>1, <1>3 DEF Free, Pending, Active
<1>7. TypeOK'
  BY <1>1, <1>2 DEF TypeOK
<1>8. NodesListed' /\ PendingRequests' /\ DrainProgress'
  BY <1>1, <1>2, <1>3, <1>6 DEF NodesListed, PendingRequests, DrainProgress
<1>9. ReadsAsked' /\ WritesIssued'
  BY <1>1, <1>4, <1>5 DEF ReadsAsked, WritesIssued
<1>10. QED
  BY <1>7, <1>8, <1>9 DEF Inv

LEMMA InvStep == Inv /\ [Next]_vars => Inv'
<1> SUFFICES ASSUME Inv, [Next]_vars PROVE Inv'
  OBVIOUS
<1>1. ASSUME NEW f \in Files, NEW p \in Pages, NEW b \in Buffers, UNCHANGED HAVE_SOLARIS,
             WritePage(f, p, b) \/ ReadPage(f, p, b)
      PROVE Inv'
  BY <1>1, WritePageInv, ReadPageInv
<1>2. CASE SyncTransfer /\ UNCHANGED HAVE_SOLARIS
  BY <1>2, SyncTransferInv
<1>3. CASE (io_write_root \/ io_allow_page_changes \/ io_read_page_wait) /\ UNCHANGED HAVE_SOLARIS
  BY <1>3, StartDrainInv DEF io_write_root, io_allow_page_changes, io_read_page_wait, TypeOfMode
<1>4. CASE DrainAio /\ UNCHANGED HAVE_SOLARIS
  BY <1>4, DrainAioInv
<1>5. CASE DrainReturn /\ UNCHANGED HAVE_SOLARIS
  BY <1>5, DrainReturnInv
<1>6. CASE RootWrite /\ UNCHANGED HAVE_SOLARIS
  BY <1>6, RootWriteInv
<1>7. ASSUME NEW b \in Buffers, NEW v \in Contents, ChangePage(b, v), UNCHANGED HAVE_SOLARIS
      PROVE Inv'
  BY <1>7, ChangePageInv
<1>8. CASE FinishRecovery /\ UNCHANGED HAVE_SOLARIS
  BY <1>8, FinishRecoveryInv
<1>9. ASSUME NEW a \in Aios, Complete(a), UNCHANGED HAVE_SOLARIS PROVE Inv'
  BY <1>9, CompleteInv
<1>10. CASE UNCHANGED vars
  <2>1. UNCHANGED <<HAVE_SOLARIS, request, state, list_of_free_aios, list_of_pending_aios, disk, mem,
                    mpc, call, mode, refused, issued, lent, written, committed, asked>>
    BY <1>10 DEF vars, listVars, ghostVars
  <2>2. Free' = Free /\ Pending' = Pending /\ Active' = Active /\ Unserved' = Unserved
    BY <2>1 DEF Free, Pending, Active, Unserved
  <2>3. TypeOK'
    BY <2>1 DEF Inv, TypeOK
  <2>4. NodesListed' /\ DrainProgress'
    BY <2>1, <2>2 DEF Inv, NodesListed, DrainProgress, TypeOfMode
  <2>5. PendingRequests' /\ ReadsAsked' /\ WritesIssued'
    BY <2>1, <2>2, QuietInv
  <2>6. QED
    BY <2>3, <2>4, <2>5 DEF Inv
<1>11. QED
  BY <1>1, <1>2, <1>3, <1>4, <1>5, <1>6, <1>7, <1>8, <1>9, <1>10 DEF Next, Main

LEMMA Invariance == Spec => []Inv
BY InvInit, InvStep, PTL DEF Spec

--------------------------------------------------------------------------------
(* Theorem: a request that the system has and that was not asked for with  *)
(* aio_return or aiowait is of a node on the pending list, so that the     *)
(* next drain asks for it; no node is on both lists or twice on one; and   *)
(* every node in use holds a well-formed request (asyncio-posix.c:124-327).*)
THEOREM NodesSafe == Spec => [](TypeOK /\ NodesListed)
<1>1. Inv => TypeOK /\ NodesListed
  BY DEF Inv
<1>2. QED
  BY <1>1, Invariance, PTL

(* Theorem: a node on the free list is not in use by the system and on     *)
(* that list only, once, though Solaris's aiowait gives back any request   *)
(* and a refused request is on the list of pending ones too.               *)
THEOREM FreeAiosSafe == Spec => []FreeAiosFinished
<1>1. Inv => FreeAiosFinished
  <2> SUFFICES ASSUME Inv PROVE FreeAiosFinished
    OBVIOUS
  <2>1. IsInjective(list_of_free_aios \o list_of_pending_aios)
    BY ConcatSet DEF Inv, TypeOK, NodesListed, Free, Pending
  <2>2. QED
    BY <2>1 DEF Inv, NodesListed, Free, FreeAiosFinished
<1>2. QED
  BY <1>1, Invariance, PTL

(* Theorem: io_read_page_wait returns only when all pages asked for are in *)
(* memory, whether the system read them or the caller did.                 *)
THEOREM ReadsSafe == Spec => []ReadsArrive
<1>1. Inv => ReadsArrive
  <2> SUFFICES ASSUME Inv, NEW r \in asked, r[1] \notin lent PROVE mem[r[1]] = disk[r[2]][r[3]]
    BY DEF ReadsArrive
  <2>1. \A a \in Unserved : request[a].data \in lent
    BY UnservedPending DEF Inv, PendingRequests
  <2>2. QED
    BY <2>1 DEF Inv, ReadsAsked
<1>2. QED
  BY <1>1, Invariance, PTL

--------------------------------------------------------------------------------
(* AsyncPosix implements WriteBehind.                                      *)

Queue == [f \in Files |-> Outstanding(f)]

LEMMA PromiseDefs ==
  /\ Promise!vars = <<Queue, disk, committed>>
  /\ Promise!Init <=> /\ Queue = [f \in Files |-> <<>>]
                      /\ disk \in [Files -> [Pages -> Contents]] /\ committed = disk
BY DEF Promise!vars, Promise!Init, Queue

LEMMA IssuedNodes ==
  ASSUME Inv, NEW f \in Files, NEW i \in DOMAIN issued[f]
  PROVE /\ issued[f][i] \in Unserved /\ issued[f][i] \in Pending /\ issued[f][i] \in Aios
        /\ request[issued[f][i]].data \in lent
<1>1. WritesIssued
  BY DEF Inv
<1>2. issued[f][i] \in Unserved
  BY <1>1, Zenon DEF WritesIssued
<1>3. issued[f][i] \in Pending /\ issued[f][i] \in Aios
  BY <1>2, UnservedPending DEF Unserved
<1>4. QED
  BY <1>2, <1>3 DEF Inv, PendingRequests

(* The queue depends on the requests and contents of the nodes in issued.  *)
LEMMA QueueFrame ==
  ASSUME Inv, issued' = issued,
         \A a \in Pending : /\ request'[a].page = request[a].page
                            /\ mem'[request'[a].data] = mem[request[a].data]
  PROVE Queue' = Queue
<1>1. ASSUME NEW f \in Files PROVE Outstanding(f)' = Outstanding(f)
  <2>1. ASSUME NEW i \in DOMAIN issued[f]
        PROVE /\ request'[issued[f][i]].page = request[issued[f][i]].page
              /\ mem'[request'[issued[f][i]].data] = mem[request[issued[f][i]].data]
    BY IssuedNodes
  <2>2. QED
    BY <2>1 DEF Outstanding
<1>2. QED
  BY <1>1 DEF Queue

(* Outstanding(f) is a sequence of writes.                                 *)
LEMMA OutstandingSeq ==
  ASSUME Inv, NEW f \in Files
  PROVE /\ issued[f] \in Seq(Aios) /\ Outstanding(f) \in Seq([page : Pages, content : Contents])
        /\ Len(Outstanding(f)) = Len(issued[f]) /\ DOMAIN Outstanding(f) = DOMAIN issued[f]
<1> DEFINE W == [page : Pages, content : Contents]
           n == Len(issued[f])
<1>1. issued[f] \in Seq(Aios) /\ n \in Nat /\ DOMAIN issued[f] = 1 .. n
  <2>1. issued[f] \in Seq(Aios)
    BY DEF Inv, TypeOK
  <2>2. QED
    BY <2>1
<1>2. ASSUME NEW i \in DOMAIN issued[f]
      PROVE [page |-> request[issued[f][i]].page, content |-> mem[request[issued[f][i]].data]] \in W
  <2>1. request[issued[f][i]] \in Request
    BY IssuedNodes DEF Inv, NodesListed, TypeOK
  <2>2. request[issued[f][i]].page \in Pages /\ request[issued[f][i]].data \in Buffers
    BY <2>1 DEF Request
  <2>3. mem \in [Buffers -> Contents]
    BY DEF Inv, TypeOK
  <2>4. QED
    BY <2>2, <2>3
<1>3. Outstanding(f) \in [1 .. n -> W]
  BY <1>1, <1>2 DEF Outstanding
<1> HIDE DEF W, n
<1>4. Outstanding(f) \in Seq(W) /\ Len(Outstanding(f)) = n
  BY <1>1, <1>3
<1>5. QED
  BY <1>1, <1>3, <1>4 DEF W, n

LEMMA SubmitStep ==
  ASSUME Inv, NEW f \in Files, NEW p \in Pages, NEW b \in Buffers, WritePage(f, p, b),
         UNCHANGED HAVE_SOLARIS
  PROVE Promise!Submit(f, p, mem[b]) /\ mem[b] \in Contents
<1> DEFINE r == [type |-> "AIO_WRITE", file |-> f, page |-> p, data |-> b]
           e == [page |-> p, content |-> mem[b]]
<1>1. PICK a \in Aios : /\ TakeAio(a, r) /\ Issue(a)
                        /\ issued' = [issued EXCEPT ![f] = Append(@, a)]
  BY DEF WritePage, asyncio_write_page
<1>2. /\ mem' = mem /\ disk' = disk /\ committed' = committed
      /\ request' = [request EXCEPT ![a] = r] /\ a \notin Pending
  BY <1>1, TakeLists DEF WritePage, TakeAio
<1>3. Inv'
  BY WritePageInv
<1>4. TypeOK
  BY DEF Inv
<1>5. mem[b] \in Contents
  BY <1>4 DEF TypeOK
<1>6. issued \in [Files -> Seq(Aios)] /\ issued[f] \in Seq(Aios) /\ DOMAIN request = Aios
  BY <1>4 DEF TypeOK
<1>7. issued'[f] = Append(issued[f], a) /\ \A g \in Files : g # f => issued'[g] = issued[g]
  BY <1>1, <1>6
<1>8. request'[a] = r /\ \A x \in Aios : x # a => request'[x] = request[x]
  BY <1>2, <1>6
<1>9. ASSUME NEW g \in Files, NEW i \in DOMAIN issued[g]
      PROVE request'[issued[g][i]] = request[issued[g][i]]
  BY <1>2, <1>8, IssuedNodes
<1>10. \A g \in Files : g # f => Outstanding(g)' = Outstanding(g)
  <2>1. SUFFICES ASSUME NEW g \in Files, g # f PROVE Outstanding(g)' = Outstanding(g)
    OBVIOUS
  <2>2. issued'[g] = issued[g]
    BY <1>7, <2>1
  <2>3. QED
    BY <1>2, <1>9, <2>2 DEF Outstanding
<1>11. Outstanding(f)' = Append(Outstanding(f), e)
  <2> DEFINE q == Outstanding(f)
             n == Len(issued[f])
             W == [page : Pages, content : Contents]
  <2>1. n \in Nat /\ DOMAIN issued[f] = 1 .. n /\ DOMAIN issued'[f] = 1 .. n + 1
        /\ issued'[f][n + 1] = a /\ \A i \in 1 .. n : issued'[f][i] = issued[f][i]
    BY <1>6, <1>7
  <2>2. q \in Seq(W) /\ Len(q) = n
    BY OutstandingSeq
  <2>3. e \in W
    BY <1>5
  <2>4. /\ Append(q, e) \in Seq(W) /\ Len(Append(q, e)) = n + 1 /\ Append(q, e)[n + 1] = e
        /\ \A i \in 1 .. n : Append(q, e)[i] = q[i]
    <3> HIDE DEF q, e, W, n
    <3>1. QED
      BY <2>1, <2>2, <2>3
  <2>5. Outstanding(f)' = [i \in 1 .. n + 1 |-> Append(q, e)[i]]
    <3>1. ASSUME NEW i \in 1 .. n
          PROVE [page |-> request'[issued'[f][i]].page, content |-> mem'[request'[issued'[f][i]].data]]
                = Append(q, e)[i]
      <4>1. i \in DOMAIN issued[f] /\ issued'[f][i] = issued[f][i]
        BY <2>1
      <4>2. request'[issued[f][i]] = request[issued[f][i]]
        BY <1>9, <4>1
      <4>3. q[i] = [page |-> request[issued[f][i]].page, content |-> mem[request[issued[f][i]].data]]
        BY <4>1 DEF Outstanding
      <4>4. QED
        BY <1>2, <2>4, <4>1, <4>2, <4>3
    <3>2. [page |-> request'[issued'[f][n + 1]].page, content |-> mem'[request'[issued'[f][n + 1]].data]]
          = Append(q, e)[n + 1]
      BY <1>2, <1>8, <2>1, <2>4
    <3>3. ASSUME NEW i \in 1 .. n + 1
          PROVE [page |-> request'[issued'[f][i]].page, content |-> mem'[request'[issued'[f][i]].data]]
                = Append(q, e)[i]
      <4>1. i \in 1 .. n \/ i = n + 1
        BY <2>1
      <4>2. QED
        BY <3>1, <3>2, <4>1
    <3>4. QED
      BY <2>1, <3>3 DEF Outstanding
  <2>6. QED
    <3> HIDE DEF q, e, W, n
    <3>1. Append(q, e) = [i \in 1 .. n + 1 |-> Append(q, e)[i]]
      <4> DEFINE t == Append(q, e)
      <4>1. t \in Seq(W) /\ Len(t) = n + 1
        BY <2>4
      <4> HIDE DEF t
      <4>2. t = [i \in 1 .. n + 1 |-> t[i]]
        BY <4>1
      <4>3. QED
        BY <4>2 DEF t
    <3>2. QED
      BY <2>5, <3>1 DEF q
<1>12. Queue' = [Queue EXCEPT ![f] = Append(@, e)]
  <2>1. Queue[f] = Outstanding(f) /\ DOMAIN Queue = Files
    BY DEF Queue
  <2>2. Queue' = [g \in Files |-> IF g = f THEN Append(Queue[f], e) ELSE Queue[g]]
    BY <1>10, <1>11 DEF Queue
  <2>3. QED
    BY <2>1, <2>2
<1>13. QED
  BY <1>2, <1>5, <1>12 DEF Promise!Submit, Queue

LEMMA LandStep ==
  ASSUME Inv, Inv', NEW a \in Unserved, Transfer(a), Unserved' = Unserved \ {a},
         UNCHANGED <<request, list_of_pending_aios, mode, lent, written, asked, committed>>
  PROVE [Promise!Next]_(Promise!vars)
<1>0. PICK f : f = request[a].file
  OBVIOUS
<1>1. a \in Pending /\ a \in Aios /\ request[a] \in Request /\ request[a].type = TypeOfMode
  BY UnservedPending DEF Unserved, Inv, NodesListed, TypeOK, PendingRequests
<1>2. CASE mode = "recovering"
  <2>1. disk' = disk /\ issued' = issued
    BY <1>1, <1>2 DEF Transfer, TypeOfMode
  <2>2. \A g \in Files : DOMAIN issued[g] = {}
    BY <1>2, NothingIssued
  <2>3. Queue' = Queue
    BY <2>1, <2>2 DEF Queue, Outstanding
  <2>4. QED
    BY <2>1, <2>3 DEF Promise!vars, Queue
<1>3. CASE mode = "running"
  <2>1. /\ disk' = [disk EXCEPT ![f][request[a].page] = mem[request[a].data]] /\ mem' = mem
        /\ issued' = [issued EXCEPT ![f] = RemoveFirst(issued[f], a)]
    BY <1>0, <1>1, <1>3 DEF Transfer, TypeOfMode
  <2>2. f \in Files /\ issued[f] \in Seq(Aios) /\ IsInjective(issued[f])
        /\ \E i \in DOMAIN issued[f] : issued[f][i] = a
    BY <1>0, <1>3, IssuedRemoved
  <2>3. PICK i \in DOMAIN issued[f] : issued[f][i] = a
    BY <2>2
  <2> DEFINE s == issued[f]
             q == Outstanding(f)
             W == [page : Pages, content : Contents]
             Cut(t) == SubSeq(t, 1, i - 1) \o SubSeq(t, i + 1, Len(t))
  <2>4. /\ q \in Seq(W) /\ Len(q) = Len(s) /\ DOMAIN q = DOMAIN s
        /\ Len(s) \in Nat /\ i \in 1 .. Len(s) /\ DOMAIN s = 1 .. Len(s)
    <3>1. q \in Seq(W) /\ Len(q) = Len(s) /\ DOMAIN q = DOMAIN s
      BY <2>2, OutstandingSeq
    <3>2. Len(s) \in Nat /\ i \in 1 .. Len(s) /\ DOMAIN s = 1 .. Len(s)
      BY <2>2, <2>3
    <3>3. QED
      BY <3>1, <3>2
  <2>5. issued'[f] = Cut(s) /\ \A g \in Files : g # f => issued'[g] = issued[g]
    <3>1. issued \in [Files -> Seq(Aios)]
      BY DEF Inv, TypeOK
    <3>2. RemoveFirst(s, a) = Cut(s)
      BY <2>2, <2>3, RemoveOne
    <3>3. QED
      BY <2>1, <2>2, <3>1, <3>2
  <2>6. /\ Cut(s) \in Seq(Aios) /\ DOMAIN Cut(s) = 1 .. Len(s) - 1
        /\ \A j \in 1 .. Len(s) - 1 : Cut(s)[j] = IF j < i THEN s[j] ELSE s[j + 1]
    <3> HIDE DEF s
    <3>1. s \in Seq(Aios)
      BY <2>2 DEF s
    <3>2. QED
      BY <2>4, <3>1, CutAt
  <2>7. /\ Cut(q) \in Seq(W) /\ DOMAIN Cut(q) = 1 .. Len(s) - 1
        /\ \A j \in 1 .. Len(s) - 1 : Cut(q)[j] = IF j < i THEN q[j] ELSE q[j + 1]
    <3> HIDE DEF q, W, s
    <3>1. i \in 1 .. Len(q)
      BY <2>4
    <3>2. QED
      BY <2>4, <3>1, CutAt
  <2> HIDE DEF Cut
  <2>8. Outstanding(f)' = Cut(q)
    <3>1. ASSUME NEW j \in 1 .. Len(s) - 1
          PROVE [page |-> request[Cut(s)[j]].page, content |-> mem[request[Cut(s)[j]].data]] = Cut(q)[j]
      <4>1. j \in DOMAIN s /\ j + 1 \in DOMAIN s
        BY <2>4
      <4>2. /\ q[j] = [page |-> request[s[j]].page, content |-> mem[request[s[j]].data]]
            /\ q[j + 1] = [page |-> request[s[j + 1]].page, content |-> mem[request[s[j + 1]].data]]
        BY <4>1 DEF Outstanding
      <4>3. QED
        BY <2>6, <2>7, <4>2
    <3>2. Outstanding(f)' = [j \in 1 .. Len(s) - 1 |->
             [page |-> request[Cut(s)[j]].page, content |-> mem[request[Cut(s)[j]].data]]]
      BY <2>1, <2>5, <2>6 DEF Outstanding
    <3>3. Cut(q) = [j \in 1 .. Len(s) - 1 |-> Cut(q)[j]]
      <4> HIDE DEF q, s, W
      <4>1. QED
        BY <2>7
    <3>4. QED
      BY <3>1, <3>2, <3>3
  <2>9. \A g \in Files : g # f => Outstanding(g)' = Outstanding(g)
    BY <2>1, <2>5 DEF Outstanding
  <2>10. Queue' = [Queue EXCEPT ![f] = Cut(q)] /\ Queue[f] = q
    <3>1. Queue' = [g \in Files |-> IF g = f THEN Cut(q) ELSE Queue[g]]
      BY <2>8, <2>9 DEF Queue
    <3>2. QED
      BY <2>2, <3>1 DEF Queue
  <2>11. q[i] = [page |-> request[a].page, content |-> mem[request[a].data]]
    BY <2>3, <2>4 DEF Outstanding
  <2>12. \A j \in 1 .. i - 1 : q[j].page # q[i].page
    <3>1. SUFFICES ASSUME NEW j \in 1 .. i - 1, q[j].page = q[i].page PROVE FALSE
      OBVIOUS
    <3>2. j \in DOMAIN s /\ j # i
      BY <2>4
    <3>3. request[s[j]].page = request[s[i]].page
      BY <2>3, <3>1, <3>2 DEF Outstanding
    <3>4. WritesIssued
      BY DEF Inv
    <3>5. QED
      BY <2>2, <2>3, <3>2, <3>3, <3>4, ZenonT(60) DEF WritesIssued
  <2>13. i \in 1 .. Len(Queue[f])
    BY <2>4, <2>10
  <2>14. /\ \A j \in 1 .. i - 1 : Queue[f][j].page # Queue[f][i].page
         /\ disk' = [disk EXCEPT ![f][Queue[f][i].page] = Queue[f][i].content]
         /\ Queue' = [Queue EXCEPT ![f] = SubSeq(@, 1, i - 1) \o SubSeq(@, i + 1, Len(@))]
         /\ committed' = committed
    <3>1. Queue[f][i].page = request[a].page /\ Queue[f][i].content = mem[request[a].data]
      BY <2>10, <2>11
    <3>2. Queue' = [Queue EXCEPT ![f] = SubSeq(@, 1, i - 1) \o SubSeq(@, i + 1, Len(@))]
      BY <2>10 DEF Cut
    <3>3. QED
      BY <2>1, <2>10, <2>12, <3>1, <3>2
  <2>15. Promise!Land(f, i)
    BY <2>14 DEF Promise!Land, Queue
  <2>16. QED
    BY <2>2, <2>13, <2>15 DEF Promise!Next, Queue
<1>4. QED
  BY <1>2, <1>3 DEF Inv, TypeOK

LEMMA PromiseStep == ASSUME Inv, Inv', [Next]_vars PROVE [Promise!Next]_(Promise!vars)
<1>1. ASSUME Queue' = Queue, disk' = disk, committed' = committed
      PROVE [Promise!Next]_(Promise!vars)
  BY <1>1 DEF Promise!vars, Queue
<1>2. ASSUME UNCHANGED <<request, mem, issued, disk, committed>>
      PROVE [Promise!Next]_(Promise!vars)
  <2>1. Queue' = Queue
    BY <1>2, QueueFrame
  <2>2. QED
    BY <1>1, <1>2, <2>1
<1>3. ASSUME NEW f \in Files, NEW p \in Pages, NEW b \in Buffers, WritePage(f, p, b),
             UNCHANGED HAVE_SOLARIS
      PROVE [Promise!Next]_(Promise!vars)
  BY <1>3, SubmitStep DEF Promise!Next
<1>4. ASSUME NEW f \in Files, NEW p \in Pages, NEW b \in Buffers, ReadPage(f, p, b)
      PROVE [Promise!Next]_(Promise!vars)
  <2>1. mode = "recovering" /\ UNCHANGED <<disk, committed, issued>>
    BY <1>4 DEF ReadPage, asyncio_read_page
  <2>2. \A g \in Files : DOMAIN issued[g] = {}
    BY <2>1, NothingIssued
  <2>3. Queue' = Queue
    BY <2>1, <2>2 DEF Queue, Outstanding
  <2>4. QED
    BY <1>1, <2>1, <2>3
<1>5. CASE SyncTransfer
  <2> DEFINE a == Head(list_of_pending_aios)
  <2>1. /\ mpc = "sync" /\ Transfer(a) /\ mpc' = "idle"
        /\ UNCHANGED <<request, state, list_of_pending_aios, mode, lent, written, committed, asked>>
    BY <1>5 DEF SyncTransfer, listVars, ghostVars
  <2>2. list_of_pending_aios \in Seq(Aios) /\ list_of_pending_aios # <<>> /\ state[a] = "refused"
    BY <2>1 DEF Inv, TypeOK, DrainProgress
  <2>3. a \in Aios
    BY <2>2, TailSet
  <2>4. a \in Unserved /\ Unserved' = Unserved \ {a}
    BY <2>1, <2>2, <2>3 DEF Unserved
  <2> HIDE DEF a
  <2>5. QED
    BY <2>1, <2>4, LandStep
<1>6. ASSUME NEW a \in Aios, Complete(a) PROVE [Promise!Next]_(Promise!vars)
  <2>1. /\ state[a] = "in progress" /\ Transfer(a) /\ state' = [state EXCEPT ![a] = "done"]
        /\ UNCHANGED <<request, list_of_pending_aios, mpc, mode, lent, written, committed, asked>>
    BY <1>6 DEF Complete, listVars, ghostVars
  <2>2. mpc = "sync" => Head(list_of_pending_aios) # a
    BY <2>1 DEF Inv, DrainProgress
  <2>3. state \in [Aios -> {"new", "in progress", "done", "returned", "refused"}]
    BY DEF Inv, TypeOK
  <2>4. a \in Unserved /\ Unserved' = Unserved \ {a}
    BY <2>1, <2>2, <2>3 DEF Unserved
  <2>5. QED
    BY <2>1, <2>4, LandStep
<1>7. CASE io_write_root \/ io_allow_page_changes \/ io_read_page_wait \/ DrainAio \/ DrainReturn
           \/ UNCHANGED vars
  BY <1>2, <1>7 DEF io_write_root, io_allow_page_changes, io_read_page_wait, StartDrain, DrainAio,
                    DrainReturn, vars, ghostVars
<1>8. CASE RootWrite /\ UNCHANGED HAVE_SOLARIS
  <2>1. committed' = disk /\ UNCHANGED <<disk, request, mem, issued>>
    BY <1>8 DEF RootWrite
  <2>2. \A f \in Files : DOMAIN issued[f] = {}
    BY <1>8, RootWriteInv
  <2>3. ASSUME NEW f \in Files PROVE Queue[f] = <<>>
    <3>1. Outstanding(f) \in Seq([page : Pages, content : Contents]) /\ DOMAIN Outstanding(f) = {}
      BY <2>2, OutstandingSeq
    <3>2. Outstanding(f) = <<>>
      BY <3>1
    <3>3. QED
      BY <3>2 DEF Queue
  <2>4. Queue' = Queue
    BY <2>1, QueueFrame
  <2>5. Promise!Commit
    BY <2>1, <2>3, <2>4 DEF Promise!Commit, Queue
  <2>6. QED
    BY <2>5 DEF Promise!Next
<1>9. ASSUME NEW b \in Buffers, NEW v \in Contents, ChangePage(b, v)
      PROVE [Promise!Next]_(Promise!vars)
  <2>1. b \notin lent /\ mem' = [mem EXCEPT ![b] = v] /\ UNCHANGED <<request, disk, issued, committed>>
    BY <1>9 DEF ChangePage, ghostVars
  <2>2. ASSUME NEW a \in Pending
        PROVE mem'[request'[a].data] = mem[request[a].data]
    <3>1. request[a].data \in lent /\ mem \in [Buffers -> Contents] /\ lent \subseteq Buffers
      BY DEF Inv, PendingRequests, TypeOK
    <3>2. QED
      BY <2>1, <3>1
  <2>3. Queue' = Queue
    BY <2>1, <2>2, QueueFrame
  <2>4. QED
    BY <1>1, <2>1, <2>3
<1>10. CASE FinishRecovery
  BY <1>2, <1>10 DEF FinishRecovery
<1>11. QED
  BY <1>3, <1>4, <1>5, <1>6, <1>7, <1>8, <1>9, <1>10 DEF Next, Main

(* Theorem: writes reach the disk with the contents they were requested    *)
(* with, the writes of a page in order, and a root block is written when   *)
(* none is outstanding, whichever requests the system refuses.             *)
THEOREM PosixImplementsPromise == Spec => PromiseKept
<1>1. Init => Promise!Init
  <2> SUFFICES ASSUME Init PROVE Promise!Init
    OBVIOUS
  <2>1. \A f \in Files : issued[f] = <<>>
    BY DEF Init
  <2>2. ASSUME NEW f \in Files PROVE Outstanding(f) = <<>>
    <3>1. Outstanding(f) \in Seq([page : Pages, content : Contents]) /\ DOMAIN Outstanding(f) = DOMAIN issued[f]
      BY InvInit, OutstandingSeq
    <3>2. DOMAIN Outstanding(f) = {}
      BY <2>1, <3>1
    <3>3. QED
      BY <3>1, <3>2
  <2>3. Queue = [f \in Files |-> <<>>]
    BY <2>2 DEF Queue
  <2>4. QED
    BY <2>3, PromiseDefs DEF Init
<1>2. Inv /\ Inv' /\ [Next]_vars => [Promise!Next]_(Promise!vars)
  BY PromiseStep
<1>3. QED
  BY <1>1, <1>2, Invariance, PTL DEF Spec, PromiseKept, Promise!Spec
================================================================================
