--------------------------- MODULE MCDataStructures ----------------------------
(* Keys of five digits that differ in the first, in inner and in the last  *)
(* digits, so that prefixes of a full and of less than a full word form;   *)
(* absent keys to look for between and beyond them; and strings of none,   *)
(* two and four chunks, and one that is too long.                          *)
EXTENDS DataStructures

MCTrieKeys == {<<0,0,0,0,0>>, <<0,0,0,0,1>>, <<0,0,0,1,0>>, <<0,1,0,0,0>>, <<3,0,0,0,0>>}
MCTrieSharers == {<<0,0,0,0,1>>}
MCV2Keys == {<<0,0,0,0,0>>, <<0,0,0,0,1>>, <<0,0,0,0,2>>, <<0,0,3,0,0>>, <<0,1,0,0,0>>, <<3,0,0,0,0>>}
MCV2Probes == {<<0,0,0,0,3>>, <<0,0,0,3,0>>, <<0,0,1,0,0>>, <<0,3,0,0,0>>, <<2,0,0,0,0>>, <<3,3,3,3,3>>}
MCDhKeys == {<<0,0,0>>, <<0,0,1>>, <<0,0,3>>, <<0,1,0>>, <<1,0,0>>}
MCTexts == {<<>>, <<1, 2, 0>>, <<0, 1, 1, 2, 0, 0, 1>>, [i \in 1 .. 9 |-> 1]}
================================================================================
