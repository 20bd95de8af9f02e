--------------------------------- MODULE CopyGc --------------------------------
(***************************************************************************)
(* The copying collector of shades.c at the level of cells: the copy       *)
(* stack, forward pointers, remembered sets, the roots, and the replay of  *)
(* every collection during recovery.                                       *)
(*                                                                         *)
(* A generation is the sequence of its cells in the order in which they    *)
(* were copied.  A pointer is the place of a cell, a generation and an     *)
(* index; generation numbers are not reused here, and pages are left out   *)
(* (module Shades has both).  Remembered sets are sequences: their nodes   *)
(* of 40 referrers are scanned in the order of a list.                     *)
(*                                                                         *)
(* Cells of mature generations are never assigned to by clients, but the   *)
(* collector redirects pointers in them after they were written.  So the   *)
(* pages on disk are out of date, and recovery has to repeat what happened *)
(* to the pointers since.  It is modelled by replicas: mature generations  *)
(* as recovery would rebuild them, from the pages as they were written.    *)
(***************************************************************************)
EXTENDS Naturals, Sequences, FiniteSets, TLC, SequencesExt, FiniteSetsExt, Functions

CONSTANTS NumberOfRoots,      \* pointers of clients in the root block
          NumberOfSmartPtrs,  \* smart pointers in use
          MaxCells,           \* bound on cells clients allocate
          MaxChanges,         \* bound on assignments to cells and roots
          MaxBatches          \* bound on group commits

ASSUME BoundsAssumption ==
  {NumberOfRoots, NumberOfSmartPtrs, MaxCells, MaxChanges, MaxBatches} \subseteq Nat

NULL == <<>>
RootBlock == 0         \* the words outside all generations that are scanned
FirstGeneration == 1
OldestMature == 2

(* The pointers of the root block, of which generation_pinfo_list is the   *)
(* last, and then the ring of smart pointers.                              *)
PinfoRoot == NumberOfRoots + 1
RootIxs == 1 .. PinfoRoot + NumberOfSmartPtrs
ClientRoots == RootIxs \ {PinfoRoot}

VARIABLES
  heap,         \* the cells of every generation that is in memory
  order,        \* the mature generations, youngest first
  status,       \* generation_info[].status
  remSet,       \* generation_info[].rem_set
  isCollecting, \* is_collecting
  wasStarted,   \* major_gc_was_started
  phase,        \* "running", or "gc" and "stepped" in major_gc
  image,        \* mature generations as they were written to disk
  replica,      \* rebuilt from the start of the previous major collection
  nextReplica,  \* rebuilt from the start of the current one
  (* History variables. *)
  graph,        \* what clients made the cells refer to
  rootIds,      \* and the roots
  pinfoGns,     \* the generations logged, newest first
  gn, batches, changes

memVars == <<heap, order, status, remSet>>
gcVars == <<isCollecting, wasStarted, phase>>
rvyVars == <<image, replica, nextReplica>>
ghostVars == <<graph, rootIds, pinfoGns>>
vars == <<memVars, gcVars, rvyVars, ghostVars, gn, batches, changes>>

(* Clients' cells have two pointers, generation_pinfos one, and one word   *)
(* that tells them apart.  A forward pointer has neither.                  *)
Cell(id, f) == [id |-> id, f |-> f, fwd |-> NULL]
Forward(p) == [id |-> 0, f |-> <<>>, fwd |-> p]
PinfoId(g) == MaxCells + g

Init ==
  /\ heap = (RootBlock :> <<Cell(0, [k \in RootIxs |-> NULL])>>) @@ (FirstGeneration :> <<>>)
  /\ order = <<>> /\ status = <<>> /\ remSet = <<>>
  /\ isCollecting = FALSE /\ wasStarted = FALSE /\ phase = "running"
  /\ image = <<>>
  /\ replica = [heap |-> <<>>, remSet |-> <<>>, ok |-> TRUE]
  /\ nextReplica = replica
  /\ graph = <<>> /\ rootIds = [k \in ClientRoots |-> 0] /\ pinfoGns = <<>>
  /\ gn = OldestMature /\ batches = 0 /\ changes = 0

CellAt(h, p) == h[p[1]][p[2]]
Root(k) == heap[RootBlock][1].f[k]
IdAt(p) == IF p = NULL THEN 0 ELSE CellAt(heap, p).id

--------------------------------------------------------------------------------
(* Clients.  They read cells through the roots, allocate cells in the      *)
(* first generation, and may assign to a cell as long as it is there.      *)

SetRoot(h, k, p) == [h EXCEPT ![RootBlock][1].f[k] = p]

allocate(k, x, y) ==
  /\ phase = "running" /\ Len(graph) < MaxCells
  /\ LET first == Append(heap[FirstGeneration], Cell(Len(graph) + 1, <<x, y>>)) IN
     heap' = SetRoot([heap EXCEPT ![FirstGeneration] = first], k, <<FirstGeneration, Len(first)>>)
  /\ graph' = Append(graph, <<IdAt(x), IdAt(y)>>)
  /\ rootIds' = [rootIds EXCEPT ![k] = Len(graph) + 1]
  /\ UNCHANGED <<order, status, remSet, gcVars, rvyVars, pinfoGns, gn, batches, changes>>

Assign(k, x) ==
  LET p == Root(k) IN
  /\ phase = "running" /\ changes < MaxChanges /\ p # NULL /\ p[1] = FirstGeneration
  /\ CellAt(heap, p).f[2] # x
  /\ heap' = [heap EXCEPT ![FirstGeneration][p[2]].f[2] = x]
  /\ graph' = [graph EXCEPT ![IdAt(p)][2] = IdAt(x)]
  /\ changes' = changes + 1
  /\ UNCHANGED <<order, status, remSet, gcVars, rvyVars, rootIds, pinfoGns, gn, batches>>

SET_ROOT_PTR(k, p) ==
  /\ phase = "running" /\ changes < MaxChanges /\ Root(k) # p
  /\ heap' = SetRoot(heap, k, p)
  /\ rootIds' = [rootIds EXCEPT ![k] = IdAt(p)]
  /\ changes' = changes + 1
  /\ UNCHANGED <<order, status, remSet, gcVars, rvyVars, graph, pinfoGns, gn, batches>>

(* What a client has at hand: the pointers of the roots.                   *)
AtHand == {NULL} \cup {Root(k) : k \in ClientRoots}

Client ==
  \E k \in ClientRoots :
    \/ \E x, y \in AtHand : allocate(k, x, y)
    \/ \E x \in AtHand : Assign(k, x) \/ SET_ROOT_PTR(k, x)

--------------------------------------------------------------------------------
(* Copying.  M is the state of a collection into the generation M.to: the  *)
(* cells, the remembered sets and the copy stack.  A location pp is the    *)
(* place of a cell and the index of the pointer in it.                     *)

Load(h, pp) == h[pp[1]][pp[2]].f[pp[3]]
Store(h, pp, p) == [h EXCEPT ![pp[1]][pp[2]].f[pp[3]] = p]

(* The pointers of the cell at p, to be put on the copy stack.             *)
Fields(h, p) ==
  LET f == CellAt(h, p).f IN
  [j \in 1 .. Cardinality({k \in DOMAIN f : f[k] # NULL}) |->
     <<p[1], p[2], CHOOSE k \in DOMAIN f : f[k] # NULL /\ Cardinality({l \in 1 .. k : f[l] # NULL}) = j>>]

(* Mutant: no forward pointer is left behind.                              *)
copy_cellTwice(M, pp) ==
  LET p == Load(M.heap, pp)
      h == [M.heap EXCEPT ![M.to] = Append(@, CellAt(M.heap, p))]
      new == <<M.to, Len(h[M.to])>> IN
  [M EXCEPT !.heap = Store(h, pp, new), !.stack = @ \o Fields(h, new)]
copy_cell(M, pp) ==
  LET p == Load(M.heap, pp)
      h == [M.heap EXCEPT ![M.to] = Append(@, CellAt(M.heap, p))]
      new == <<M.to, Len(h[M.to])>> IN
  IF CellAt(M.heap, p).fwd # NULL
  THEN [M EXCEPT !.heap = Store(@, pp, CellAt(M.heap, p).fwd)]
  ELSE [M EXCEPT !.heap = Store([h EXCEPT ![p[1]][p[2]] = Forward(new)], pp, new),
                 !.stack = @ \o Fields(h, new)]

(* Mutant: a reference is remembered in the generation that holds it.      *)
PREPEND_TO_REFERRER(r, g, pp) == [r EXCEPT ![pp[1]] = <<pp>> \o @]
PREPEND_TO_REM_SET(r, g, pp) == [r EXCEPT ![g] = <<pp>> \o @]

(* One turn of drain_copy_stack; st is the status of the generations.      *)
drain_step(M, st) ==
  LET pp == Last(M.stack)
      g == Load(M.heap, pp)[1]
      popped == [M EXCEPT !.stack = Front(@)] IN
  CASE g # FirstGeneration /\ st[g] = "NORMAL" -> popped
    [] g # FirstGeneration /\ st[g] = "TO_BE_COLLECTED" ->
         [popped EXCEPT !.remSet = PREPEND_TO_REM_SET(@, g, pp)]
    [] OTHER -> copy_cell(popped, pp)

RECURSIVE drain_copy_stack(_, _)
drain_copy_stack(M, st) ==
  IF M.stack = <<>> THEN M ELSE drain_copy_stack(drain_step(M, st), st)

(* copy_cell for the locations in turn.                                    *)
CopyCells(M, pps) == FoldLeft(copy_cell, M, pps)

(* The roots that refer to a generation of gs.                             *)
RootsInto(gs) ==
  SelectSeq([k \in RootIxs |-> <<RootBlock, 1, k>>],
            LAMBDA pp : Load(heap, pp) # NULL /\ Load(heap, pp)[1] \in gs)

--------------------------------------------------------------------------------
(* Replaying.  R is a replica, R.at the index of the next cell to look at  *)
(* in generation R.to, whose cells have been read from disk; R.ok says     *)
(* that no assertion has failed.                                           *)

(* rvy_copy_cell for a referrer in a remembered set: the cell's copy must  *)
(* be the next one.                                                        *)
rvy_copy_cell(R, pp) ==
  LET p == Load(R.heap, pp)
      new == <<R.to, R.at>> IN
  IF CellAt(R.heap, p).fwd # NULL
  THEN [R EXCEPT !.heap = Store(@, pp, CellAt(R.heap, p).fwd)]
  ELSE IF R.at > Len(R.heap[R.to]) \/ CellAt(R.heap, new).id # CellAt(R.heap, p).id
  THEN [R EXCEPT !.ok = FALSE]
  ELSE [R EXCEPT !.heap = Store([@ EXCEPT ![p[1]][p[2]] = Forward(new)], pp, new),
                 !.at = @ + 1, !.stack = @ \o Fields(R.heap, new)]

(* The loop that stands for the scan of the roots: cells are looked at     *)
(* until the stack is as deep as it was.                                   *)
RECURSIVE RvyRoots(_, _)
RvyRoots(R, nrefs) ==
  IF Len(R.stack) >= nrefs THEN R
  ELSE IF R.at > Len(R.heap[R.to]) THEN [R EXCEPT !.ok = FALSE]
  ELSE RvyRoots([R EXCEPT !.at = @ + 1, !.stack = @ \o Fields(R.heap, <<R.to, R.at>>)], nrefs)

(* A cell that is not the next one must have been looked at before.        *)
rvy_drain_step(R, st) ==
  LET pp == Last(R.stack)
      p == Load(R.heap, pp)
      popped == [R EXCEPT !.stack = Front(@)] IN
  CASE st[p[1]] = "NORMAL" -> popped
    [] st[p[1]] = "TO_BE_COLLECTED" -> [popped EXCEPT !.remSet = PREPEND_TO_REM_SET(@, p[1], pp)]
    [] st[p[1]] = "BEING_COLLECTED" /\ CellAt(R.heap, p).fwd # NULL -> [popped EXCEPT !.ok = FALSE]
    [] OTHER -> IF p # <<R.to, R.at>> THEN popped
                ELSE [popped EXCEPT !.at = @ + 1, !.stack = @ \o Fields(R.heap, p)]

RECURSIVE rvy_drain_copy_stack(_, _)
rvy_drain_copy_stack(R, st) ==
  IF R.stack = <<>> \/ ~R.ok THEN R ELSE rvy_drain_copy_stack(rvy_drain_step(R, st), st)

Without(f, gs) == [g \in DOMAIN f \ gs |-> f[g]]

(* The generation g, with cells img, is read into replica R, and the       *)
(* collection that made it from the generations in the sequence from is    *)
(* repeated: rvy_new_generation if there are none, else rvy_major_gc_step. *)
Replay(R, g, img, from, nrefs, st) ==
  LET rst == [h \in DOMAIN st \cup {g} |-> IF h = g \/ Contains(from, h) THEN "BEING_COLLECTED" ELSE st[h]]
      R0 == [heap |-> R.heap @@ (g :> img), remSet |-> R.remSet @@ (g :> <<>>), ok |-> R.ok,
             to |-> g, at |-> 1, stack |-> <<>>]
      R1 == FoldLeft(rvy_copy_cell, R0, FlattenSeq([i \in DOMAIN from |-> R.remSet[from[i]]]))
      R2 == RvyRoots(R1, nrefs)
      R3 == rvy_drain_copy_stack(R2, rst) IN
  [heap |-> Without(R3.heap, ToSet(from)), remSet |-> Without(R3.remSet, ToSet(from)),
   ok |-> R3.ok /\ Len(R1.stack) <= nrefs /\ R3.at \in {1, Len(img) + 1}]

(* Without a major collection under way a new generation is only read.     *)
ReadNew(R, g, img) ==
  [R EXCEPT !.heap = @ @@ (g :> img), !.remSet = @ @@ (g :> <<>>)]

(* Mutant: recovery starts from what the current collection started with.  *)
RvyBaseTooLate(cur, raw) == raw
(* The replica to recover from when a new major collection's first group   *)
(* is committed: rvy_base_major_gc_round starts one collection earlier.    *)
RvyBase(cur, raw) == cur

--------------------------------------------------------------------------------
(* Group commit and major collection.                                      *)

Collection(g) ==
  [heap |-> heap @@ (g :> <<>>), remSet |-> remSet @@ (g :> <<>>), to |-> g, stack |-> <<>>]

(* The cells copied from the roots, before the copy stack is drained.      *)
CopiedFromFirst == CopyCells(Collection(gn), RootsInto({FirstGeneration}))

(* log_to_generation_pinfo_list: in the first generation.                  *)
Logged(h, g) ==
  LET first == Append(h[FirstGeneration], Cell(PinfoId(g), <<h[RootBlock][1].f[PinfoRoot]>>)) IN
  SetRoot([h EXCEPT ![FirstGeneration] = first], PinfoRoot, <<FirstGeneration, Len(first)>>)

(* flush_batch up to major_gc: collect_first_generation, the root block,   *)
(* and the new pinfo list if a major collection has been started.          *)
flush_batch ==
  LET M == drain_copy_stack(CopiedFromFirst, status)
      img == M.heap[gn]
      nrefs == Len(CopiedFromFirst.stack)
      cleared == [M.heap EXCEPT ![FirstGeneration] = <<>>]
      raw == [heap |-> image, remSet |-> [g \in DOMAIN image |-> <<>>], ok |-> TRUE]
      Rebuilt(R) == IF isCollecting THEN Replay(R, gn, img, <<>>, nrefs, status)
                                    ELSE ReadNew(R, gn, img) IN
  /\ phase = "running" /\ batches < MaxBatches
  /\ heap[FirstGeneration] # <<>>
  /\ heap' = Logged(IF wasStarted THEN SetRoot(cleared, PinfoRoot, NULL) ELSE cleared, gn)
  /\ pinfoGns' = <<gn>> \o (IF wasStarted THEN <<>> ELSE pinfoGns)
  /\ order' = <<gn>> \o order
  /\ status' = status @@ (gn :> "NORMAL")
  /\ remSet' = M.remSet
  /\ image' = image @@ (gn :> img)
  /\ replica' = Rebuilt(IF wasStarted THEN RvyBase(nextReplica, raw) ELSE replica)
  /\ nextReplica' = Rebuilt(IF wasStarted THEN raw ELSE nextReplica)
  /\ wasStarted' = FALSE
  /\ phase' = "gc"
  /\ gn' = gn + 1 /\ batches' = batches + 1
  /\ UNCHANGED <<isCollecting, graph, rootIds, changes>>

(* major_gc returns at once while there is memory, and after any step.     *)
LeaveMajorGc ==
  /\ phase = "stepped" \/ (phase = "gc" /\ ~isCollecting)
  /\ phase' = "running"
  /\ UNCHANGED <<memVars, isCollecting, wasStarted, rvyVars, ghostVars, gn, batches, changes>>

mark_major_gc_generations ==
  /\ phase # "running" /\ ~isCollecting
  /\ status' = [g \in DOMAIN status |-> "TO_BE_COLLECTED"]
  /\ isCollecting' = TRUE /\ wasStarted' = TRUE
  /\ phase' = "running"
  /\ UNCHANGED <<heap, order, remSet, rvyVars, ghostVars, gn, batches, changes>>

(* The n youngest generations to be collected, which are neighbours.       *)
From(n) ==
  LET tbc == SelectSeq(order, LAMBDA g : status[g] = "TO_BE_COLLECTED") IN SubSeq(tbc, 1, n)
NumberToBeCollected == Cardinality({g \in DOMAIN status : status[g] = "TO_BE_COLLECTED"})

Referrers(from) == FlattenSeq([i \in DOMAIN from |-> remSet[from[i]]])

CopiedFromReferrers(n) == CopyCells(Collection(gn), Referrers(From(n)))
CopiedFromMature(n) == CopyCells(CopiedFromReferrers(n), RootsInto(ToSet(From(n))))

(* The new generation takes the place of those it was copied from.         *)
InPlaceOf(from, g) ==
  LET i == CHOOSE j \in DOMAIN order : order[j] = from[1] IN
  SubSeq(order, 1, i - 1) \o <<g>> \o SubSeq(order, i + Len(from), Len(order))

(* major_gc_step for n generations: their sizes decide how many.           *)
major_gc_step(n) ==
  LET from == From(n)
      st == [g \in DOMAIN status |-> IF Contains(from, g) THEN "BEING_COLLECTED" ELSE status[g]]
      M == drain_copy_stack(CopiedFromMature(n), st)
      img == M.heap[gn]
      nrefs == Len(CopiedFromMature(n).stack)
      Rebuilt(R) == Replay(R, gn, img, from, nrefs, status) IN
  /\ phase # "running" /\ isCollecting
  /\ heap' = Logged(Without(M.heap, ToSet(from)), gn)
  /\ pinfoGns' = <<gn>> \o pinfoGns
  /\ order' = InPlaceOf(from, gn)
  /\ status' = Without(status, ToSet(from)) @@ (gn :> "NORMAL")
  /\ remSet' = Without(M.remSet, ToSet(from))
  /\ image' = Without(image, ToSet(from)) @@ (gn :> img)
  /\ replica' = Rebuilt(replica) /\ nextReplica' = Rebuilt(nextReplica)
  /\ isCollecting' = (n < NumberToBeCollected)
  /\ phase' = "stepped"
  /\ gn' = gn + 1
  /\ UNCHANGED <<wasStarted, graph, rootIds, batches, changes>>

(* Recovery looks at the cells copied from the roots until the stack is    *)
(* deep enough; having looked at any, it can go on to the cells that were  *)
(* copied afterwards only if the last of those from the roots has pointers.*)
LeafLast(before, after) ==
  LET n == Len(after.heap[after.to]) IN
  /\ n > Len(before.heap[before.to]) /\ Fields(after.heap, <<after.to, n>>) = <<>>
  /\ after.stack # <<>> \/ before.heap[before.to] # <<>>

AnyNext ==
  \/ Client \/ flush_batch \/ LeaveMajorGc \/ mark_major_gc_generations
  \/ \E n \in 1 .. NumberToBeCollected : major_gc_step(n)

Next ==
  \/ Client
  \/ (isCollecting => ~LeafLast(Collection(gn), CopiedFromFirst)) /\ flush_batch
  \/ LeaveMajorGc \/ mark_major_gc_generations
  \/ \E n \in 1 .. NumberToBeCollected :
       ~LeafLast(CopiedFromReferrers(n), CopiedFromMature(n)) /\ major_gc_step(n)

Spec == Init /\ [][Next]_vars
(* Whatever the last cell copied from the roots is.                        *)
AnyRootsSpec == Init /\ [][AnyNext]_vars

--------------------------------------------------------------------------------
(* The cells that can be reached from the roots of clients.                *)
Reached ==
  LET more(s) == s \cup (UNION {ToSet(CellAt(heap, p).f) : p \in s} \ {NULL})
      RECURSIVE closure(_)
      closure(s) == IF more(s) = s THEN s ELSE closure(more(s)) IN
  closure({Root(k) : k \in ClientRoots} \ {NULL})

(* Through any number of commits and steps of a major collection, clients  *)
(* find what they stored: every root and every cell refers to the cells it *)
(* was made to refer to, none of which is a forward pointer or was freed,  *)
(* and each of which exists once.  The list of pinfos is intact.           *)
HeapFaithful ==
  LET pinfo[n \in 0 .. Len(pinfoGns)] ==
        IF n = 0 THEN Root(PinfoRoot) ELSE CellAt(heap, pinfo[n - 1]).f[1] IN
  /\ \A k \in ClientRoots : IdAt(Root(k)) = rootIds[k]
  /\ \A p \in Reached :
       /\ IdAt(p) \in DOMAIN graph
       /\ \A k \in 1 .. 2 : IdAt(CellAt(heap, p).f[k]) = graph[IdAt(p)][k]
       /\ \A q \in Reached : IdAt(p) = IdAt(q) => p = q
  /\ \A n \in DOMAIN pinfoGns : IdAt(pinfo[n - 1]) = PinfoId(pinfoGns[n])
  /\ pinfo[Len(pinfoGns)] = NULL

(* The locations of pointers into generation g in other generations that   *)
(* are not to be collected.                                                *)
Locations(g) ==
  {pp \in UNION {{<<h, i, k>> : i \in DOMAIN heap[h], k \in 1 .. 2} : h \in ToSet(order)} :
     /\ status[pp[1]] = "NORMAL" /\ pp[3] \in DOMAIN heap[pp[1]][pp[2]].f
     /\ Load(heap, pp) # NULL /\ Load(heap, pp)[1] = g}

(* The remembered set of a generation that waits to be collected holds     *)
(* exactly the pointers to it in the generations made since the collection *)
(* was started, also those that were moved by earlier steps.               *)
RememberedSets ==
  \A g \in ToSet(order) :
    /\ status[g] = "TO_BE_COLLECTED" => ToSet(remSet[g]) = Locations(g)
    /\ status[g] = "NORMAL" => remSet[g] = <<>>
    /\ IsInjective(remSet[g])

(* Recovery, from the pages as they were written, arrives at the mature    *)
(* generations and remembered sets as they are: "both new and collected    *)
(* generations are read and pseudo-collected as they were before crash".   *)
ReplayRebuilds ==
  /\ replica.ok
  /\ replica.remSet = remSet
  /\ replica.heap = [g \in ToSet(order) |-> heap[g]]
================================================================================
