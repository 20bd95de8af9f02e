----------------------------- MODULE DataStructures ----------------------------
(***************************************************************************)
(* The data structures and access methods under one specification: the     *)
(* client of a behaviour uses one of them, which one is chosen at the      *)
(* start.                                                                  *)
(***************************************************************************)
EXTENDS Queue, Lq, Priq, Avl, Ist234, Trie, TrieV2, Oid, Dh, Shtring

VARIABLE kind    \* the structure in use

containerVars == <<queueVars, lqVars, priqVars, shtringVars>>
indexVars == <<avlVars, istVars, trieVars, v2Vars, oidVars, dhVars>>
vars == <<kind, containerVars, indexVars>>

Init ==
  /\ kind \in {"queue", "lq", "priq", "shtring", "avl", "ist234", "trie", "triev2", "oid", "dh"}
  /\ QueueInit /\ LqInit /\ PriqInit /\ ShtringInit
  /\ AvlInit /\ IstInit /\ TrieInit /\ V2Init /\ OidInit /\ DhInit

UseQueue == kind = "queue" /\ QueueNext /\ UNCHANGED <<lqVars, priqVars, shtringVars, indexVars>>
UseLq == kind = "lq" /\ LqNext /\ UNCHANGED <<queueVars, priqVars, shtringVars, indexVars>>
UsePriq == kind = "priq" /\ PriqNext /\ UNCHANGED <<queueVars, lqVars, shtringVars, indexVars>>
UseShtring == kind = "shtring" /\ ShtringNext /\ UNCHANGED <<queueVars, lqVars, priqVars, indexVars>>
UseAvl == /\ kind = "avl" /\ AvlNext
          /\ UNCHANGED <<containerVars, istVars, trieVars, v2Vars, oidVars, dhVars>>
UseIst == /\ kind = "ist234" /\ IstNext
          /\ UNCHANGED <<containerVars, avlVars, trieVars, v2Vars, oidVars, dhVars>>
UseTrie == /\ kind = "trie" /\ TrieNext
           /\ UNCHANGED <<containerVars, avlVars, istVars, v2Vars, oidVars, dhVars>>
UseTrieV2 == /\ kind = "triev2" /\ V2Next
             /\ UNCHANGED <<containerVars, avlVars, istVars, trieVars, oidVars, dhVars>>
UseOid == /\ kind = "oid" /\ OidNext
          /\ UNCHANGED <<containerVars, avlVars, istVars, trieVars, v2Vars, dhVars>>
UseDh == /\ kind = "dh" /\ DhNext
         /\ UNCHANGED <<containerVars, avlVars, istVars, trieVars, v2Vars, oidVars>>

Next ==
  /\ \/ UseQueue \/ UseLq \/ UsePriq \/ UseShtring
     \/ UseAvl \/ UseIst \/ UseTrie \/ UseTrieV2 \/ UseOid \/ UseDh
  /\ UNCHANGED kind
Spec == Init /\ [][Next]_vars
================================================================================
