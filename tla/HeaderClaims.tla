------------------------------ MODULE HeaderClaims -----------------------------
(***************************************************************************)
(* What the headers of the data structures say of their operations and the *)
(* code does not do.  The runs of the modules call these operations where  *)
(* they work; here a client calls them anywhere.  It tries one claim after *)
(* the other, from an empty database each time, and goes on to the next    *)
(* when it has found the claim broken, so that a behaviour that gets       *)
(* through breaks them all.                                                *)
(***************************************************************************)
EXTENDS Lq, Avl, Ist234, Oid, Dh, Shtring

VARIABLE claim     \* the number of the claim that is tried
claimVars == <<claim, lqVars, avlVars, istVars, oidVars, dhVars, shtringVars>>

Claims == <<"DH_MAX_ALLOCATION", "lq_get_first", "ist234_find_min", "ist234_insert", "oid_update",
            "shtring_trim_trailing", "shtring_cat", "avl_delete", "dh_delete">>
Trying(c) == claim \in DOMAIN Claims /\ Claims[claim] = c

UseLq == LqNext /\ UNCHANGED <<avlVars, istVars, oidVars, dhVars, shtringVars>>
UseAvl == AvlAnyDelete /\ UNCHANGED <<lqVars, istVars, oidVars, dhVars, shtringVars>>
UseIst == IstAnyInsert /\ UNCHANGED <<lqVars, avlVars, oidVars, dhVars, shtringVars>>
UseOid == (OidNext \/ OidUpdates) /\ UNCHANGED <<lqVars, avlVars, istVars, dhVars, shtringVars>>
UseDh(next) == next /\ UNCHANGED <<lqVars, avlVars, istVars, oidVars, shtringVars>>
UseShtring(next) == next /\ UNCHANGED <<lqVars, avlVars, istVars, oidVars, dhVars>>

(* What the client does to try a claim.                                    *)
Try ==
  \/ Trying("DH_MAX_ALLOCATION") /\ UseDh(DhFill)
  \/ Trying("dh_delete") /\ UseDh(DhAnyDelete)
  \/ Trying("lq_get_first") /\ UseLq
  \/ Trying("avl_delete") /\ UseAvl
  \/ (Trying("ist234_find_min") \/ Trying("ist234_insert")) /\ UseIst
  \/ Trying("oid_update") /\ UseOid
  \/ Trying("shtring_trim_trailing") /\ UseShtring(ShtringAnyTrim)
  \/ Trying("shtring_cat") /\ UseShtring(ShtringAnyCat)

(* "So the maximum allocation is" DH_MAX_ALLOCATION (dh.h:65); "Delete     *)
(* data with key `key'." (dh.h:83); "Return the first item in the given    *)
(* queue" (lq.h:22); "delete `data' with key `key' as normal" (avl.c:418); *)
(* "Return smallest key in the tree" (ist234.h:77); "Update existing data  *)
(* to `data'." (ist234.h:109); "Returns the old value." (oid.h:48);        *)
(* "Remove leading or trailing whitespace from shtring." (shtring.h:173);  *)
(* "Catenate two shtrings." (shtring.h:96)                                 *)
Broken ==
  \/ Trying("DH_MAX_ALLOCATION") /\ ~ DhAllocationBounded
  \/ Trying("dh_delete") /\ ~ DhIsMap
  \/ Trying("lq_get_first") /\ ~ GetFirstReturnsFirst
  \/ Trying("avl_delete") /\ ~ AvlIsMap
  \/ Trying("ist234_find_min") /\ ~ MinIsSmallestKey
  \/ Trying("ist234_insert") /\ ~ IstFinds
  \/ Trying("oid_update") /\ ~ UpdateReturnsOldValue
  \/ (Trying("shtring_trim_trailing") \/ Trying("shtring_cat")) /\ ~ ShtringHasText

(* The next claim, from an empty database.                                 *)
NextClaim ==
  /\ Broken /\ claim' = claim + 1
  /\ lq' = LqEmpty /\ lqItems' = <<>> /\ lqInserts' = 0
  /\ avl' = NoTree /\ avlMap' = [k \in Keys |-> NoData]
  /\ ist' = <<>> /\ istMap' = [k \in IstKeys |-> IstNoData]
  /\ oid_map' = T!V2Null /\ oid_freelist' = <<>> /\ oidValue' = <<>>
  /\ oid_in_use' = 0 /\ oid_max' = 0 /\ oid_allocation_cursor' = 0 /\ oid_prev_random' = 0
  /\ dh' = DhNull /\ dhMap' = [k \in DhKeys |-> DhNoData] /\ dhAllocated' = 0
  /\ shtrings' = {} /\ internRoot' = NoInterned /\ internIds' = {}

Init ==
  claim = 1 /\ LqInit /\ AvlInit /\ IstInit /\ OidInit /\ DhInit /\ ShtringInit
Next == (~ Broken /\ Try /\ UNCHANGED claim) \/ NextClaim
Spec == Init /\ [][Next]_claimVars

(* No client gets through all of them: at least one of the claims of the   *)
(* headers is kept by the code.                                            *)
SomeClaimKept == claim \in DOMAIN Claims
================================================================================
