----------------------------------- MODULE Oid ---------------------------------
(***************************************************************************)
(* Object identifiers, oid.c.  The values of the oids are in a trie        *)
(* (TrieV2) in the root block; an oid is freed by removing it from there.  *)
(* oid_allocate looks for a free one in four places: the oids disposed of  *)
(* in this commit group, the ranges around oid_allocation_cursor, ranges   *)
(* picked at random, and behind oid_max.                                   *)
(*                                                                         *)
(* An oid is given to the program as oid << 2 | 2.                         *)
(***************************************************************************)
EXTENDS Integers, SequencesExt

CONSTANTS OidDigits,      \* 15 in oid.c: 30 bits
          OidWay,         \* 4 in triev2.c
          OidMaxPrefix,   \* 10 in triev2.c
          OidValues,
          MaxOids,        \* bound on oid_max
          MaxFreed        \* bound on the oids disposed of in a commit group
ASSUME OidAssumption == MaxOids \in Nat /\ MaxOids + OidWay ^ 2 < OidWay ^ OidDigits

VARIABLES
  oid_map, oid_freelist, oid_in_use, oid_max, oid_allocation_cursor, oid_prev_random,
  oidValue      \* history: the value last given to each live oid
oidVars == <<oid_map, oid_freelist, oid_in_use, oid_max, oid_allocation_cursor,
             oid_prev_random, oidValue>>

T == INSTANCE TrieV2 WITH
       V2Keys <- {}, V2Probes <- {}, V2KeyDigits <- OidDigits, V2MaxPrefix <- OidMaxPrefix,
       V2Way <- OidWay, triev2 <- oid_map, v2Map <- oidValue

NoOid == OidWay ^ OidDigits       \* INVALID_OID, 0xFFFFFFFF
OidKey(n) == [i \in 1 .. OidDigits |-> (n \div OidWay ^ (OidDigits - i)) % OidWay]
OidNumber(key) == FoldLeft(LAMBDA n, d : n * OidWay + d, 0, key)
OidRange == OidWay ^ 2            \* 16: what triev2_find_nonexistent_key looks at
Nonexistent(n) ==
  LET key == T!triev2_find_nonexistent_key(oid_map, OidKey(n)) IN
  IF key = T!V2NoKey THEN NoOid ELSE OidNumber(key)

OidInit ==
  /\ oid_map = T!V2Null /\ oid_freelist = <<>>
  /\ oid_in_use = 0 /\ oid_max = 0 /\ oid_allocation_cursor = 0 /\ oid_prev_random = 0
  /\ oidValue = <<>>

--------------------------------------------------------------------------------
(* The label found.                                                        *)
OidFound(oid, value) ==
  /\ oid_in_use' = oid_in_use + 1
  /\ oid_map' = T!triev2_insert(oid_map, OidKey(oid), value)
  /\ oidValue' = [n \in DOMAIN oidValue \cup {oid} |-> IF n = oid THEN value ELSE oidValue[n]]

(* Mutant: the oid stays on the free list.                                 *)
FromFreelistKept(value) ==
  /\ oid_freelist # <<>>
  /\ OidFound(Head(oid_freelist), value)
  /\ UNCHANGED <<oid_freelist, oid_max, oid_allocation_cursor, oid_prev_random>>
FromFreelist(value) ==
  /\ oid_freelist # <<>>
  /\ OidFound(Head(oid_freelist), value)
  /\ oid_freelist' = Tail(oid_freelist)
  /\ UNCHANGED <<oid_max, oid_allocation_cursor, oid_prev_random>>

NextRange(tmp) == IF tmp + OidRange >= oid_max THEN 0 ELSE tmp + OidRange

(* The range of the cursor and, each if the one before is full, two more:  *)
(* the first of them that is not full, where the cursor is left.           *)
CursorRange ==
  LET second == NextRange(oid_allocation_cursor)
      third == NextRange(second) IN
  IF Nonexistent(oid_allocation_cursor) # NoOid THEN oid_allocation_cursor
  ELSE IF Nonexistent(second) # NoOid THEN second
  ELSE IF Nonexistent(third) # NoOid THEN third
  ELSE NextRange(third)
CursorFull ==
  LET second == NextRange(oid_allocation_cursor) IN
  \A tmp \in {oid_allocation_cursor, second, NextRange(second)} : Nonexistent(tmp) = NoOid
CursorFails == CursorFull \/ Nonexistent(CursorRange) >= oid_max

FromCursor(value) ==
  /\ oid_freelist = <<>> /\ ~ CursorFails
  /\ OidFound(Nonexistent(CursorRange), value)
  /\ oid_allocation_cursor' = CursorRange
  /\ UNCHANGED <<oid_freelist, oid_max, oid_prev_random>>

(* How many random ranges are tried.                                       *)
RandomTries ==
  LET few(shift) == oid_in_use + oid_in_use \div 2 ^ shift > oid_max IN
  IF few(4) THEN 0 ELSE IF few(3) THEN 1 ELSE IF few(2) THEN 2 ELSE IF few(1) THEN 5 ELSE 16

PreviousRandomFails == oid_prev_random = NoOid \/ Nonexistent(oid_prev_random) >= oid_max

FromPreviousRandom(value) ==
  /\ oid_freelist = <<>> /\ CursorFails /\ oid_max > 0 /\ ~ PreviousRandomFails
  /\ OidFound(Nonexistent(oid_prev_random), value)
  /\ oid_allocation_cursor' = CursorRange
  /\ UNCHANGED <<oid_freelist, oid_max, oid_prev_random>>

RandomRanges == {(n \div OidRange) * OidRange : n \in 0 .. oid_max - 1}

FromRandom(value) ==
  /\ oid_freelist = <<>> /\ CursorFails /\ oid_max > 0 /\ PreviousRandomFails
  /\ RandomTries > 0
  /\ \E tmp \in RandomRanges :
       /\ Nonexistent(tmp) < oid_max
       /\ OidFound(Nonexistent(tmp), value)
       /\ oid_prev_random' = tmp
  /\ oid_allocation_cursor' = CursorRange
  /\ UNCHANGED <<oid_freelist, oid_max>>

(* No random range was tried, or all that were are full.                   *)
RandomFails ==
  /\ PreviousRandomFails
  /\ RandomTries > 0 => \E tmp \in RandomRanges : Nonexistent(tmp) >= oid_max

FromBehind(value) ==
  /\ oid_freelist = <<>> /\ CursorFails /\ (oid_max > 0 => RandomFails)
  /\ oid_max < MaxOids
  /\ OidFound(oid_max, value)
  /\ oid_max' = oid_max + 1
  /\ oid_prev_random' = IF oid_max > 0 THEN NoOid ELSE oid_prev_random
  /\ oid_allocation_cursor' = CursorRange
  /\ UNCHANGED oid_freelist

OidAllocate(value) ==
  \/ FromFreelist(value) \/ FromCursor(value) \/ FromPreviousRandom(value)
  \/ FromRandom(value) \/ FromBehind(value)

(* oid_dispose: the oid is assumed to exist.                               *)
OidDispose(oid) ==
  /\ oid \in DOMAIN oidValue /\ Len(oid_freelist) < MaxFreed
  /\ oid_freelist' = <<oid>> \o oid_freelist
  /\ oid_in_use' = oid_in_use - 1
  /\ oid_map' = T!triev2_delete(oid_map, OidKey(oid), T!V2NoData)
  /\ oidValue' = [n \in DOMAIN oidValue \ {oid} |-> oidValue[n]]
  /\ UNCHANGED <<oid_max, oid_allocation_cursor, oid_prev_random>>

(* oid_update does not remove the tag from the oid it is given; what it    *)
(* asserts of it holds for small ones.  It returns the value it has        *)
(* replaced, if any.                                                       *)
OidTagged(oid) == OidKey((4 * oid + 2) % NoOid)
UpdateAllowed(oid) == oid \in DOMAIN oidValue /\ 4 * oid + 2 <= oid_max
oid_update_value(oid) == T!triev2_find(oid_map, OidTagged(oid))
OidUpdate(oid, value) ==
  /\ UpdateAllowed(oid)
  /\ oid_map' = T!triev2_insert(oid_map, OidTagged(oid), value)
  /\ oidValue' = [oidValue EXCEPT ![oid] = value]
  /\ UNCHANGED <<oid_freelist, oid_in_use, oid_max, oid_allocation_cursor, oid_prev_random>>

oid_ref(oid) == T!triev2_find(oid_map, OidKey(oid))

(* The commit of a group, flush_batch of shades.c.                         *)
OidCommit ==
  /\ oid_freelist # <<>> /\ oid_freelist' = <<>>
  /\ UNCHANGED <<oid_map, oid_in_use, oid_max, oid_allocation_cursor, oid_prev_random, oidValue>>

OidNext ==
  \/ \E value \in OidValues : OidAllocate(value)
  \/ \E oid \in 0 .. MaxOids : OidDispose(oid)
  \/ OidCommit
OidSpec == OidInit /\ [][OidNext]_oidVars

(* Not part of OidNext.                                                    *)
OidUpdates == \E oid \in 0 .. MaxOids, value \in OidValues : OidUpdate(oid, value)

--------------------------------------------------------------------------------
(* No oid is given to two objects: there are as many as oid_in_use counts, *)
(* all below oid_max, those on the free list (once each) not among them,   *)
(* wherever oid_allocate took them from.                                   *)
OidsUnique ==
  /\ oid_in_use = Cardinality(DOMAIN oidValue)
  /\ \A oid \in DOMAIN oidValue : oid < oid_max
  /\ IsInjective(oid_freelist) /\ ToSet(oid_freelist) \cap DOMAIN oidValue = {}

(* Oids are unique, and every oid refers to the value it was last given,   *)
(* an oid that is not live to none (oid_ref).                              *)
OidRefsCurrent ==
  /\ OidsUnique
  /\ \A oid \in 0 .. oid_max :
       oid_ref(oid) = IF oid \in DOMAIN oidValue THEN oidValue[oid] ELSE T!V2NoData

(* What oid.h says of oid_update: it returns the old value of the oid.     *)
UpdateReturnsOldValue ==
  \A oid \in DOMAIN oidValue : UpdateAllowed(oid) => oid_update_value(oid) = oidValue[oid]
================================================================================
