----------------------------- MODULE MCHeaderClaims ----------------------------
(* One key more than a leaf of dh.c takes, which differ in their last      *)
(* three digits only, with the sizes of dh.c: four sons, 32 keys in a leaf *)
(* and 16 digits.  A string of two chunks, with a space at its end.        *)
EXTENDS HeaderClaims

MCDhKeys == {[i \in 1 .. 16 |-> IF i < 14 THEN 0 ELSE (n \div 4^(16 - i)) % 4] : n \in 0 .. 32}
MCTexts == {<<1, 2, 0>>}
================================================================================
