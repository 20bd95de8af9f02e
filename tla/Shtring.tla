-------------------------------- MODULE Shtring --------------------------------
(***************************************************************************)
(* Shtrings, the strings of the database (shtring.c, shtring_internal.c).  *)
(* The text is in chunks, the leaves of a tree of nodes; a shtring is a    *)
(* window into such a tree, so that taking a part of one copies no text    *)
(* and a catenation shares both trees.                                     *)
(*                                                                         *)
(* A shtring is never changed.  Here a growing set of them is kept,        *)
(* together with the text each one should have, and operations are applied *)
(* to members of the set.  A character is a number; Junk is what a word    *)
(* that was never written holds.  An assert that fails stops the program:  *)
(* such calls are not made, except where the specification says so.        *)
(***************************************************************************)
EXTENDS Integers, SequencesExt

CONSTANTS SHTRING_CHUNK_MAX,
          MAX_SHTRING_NODE_CHILDREN,
          WordBytes,                  \* sizeof(word_t)
          CMP_BUF,
          HashSize,                   \* 2^SHTRING_HASH_BITS
          first_generation_size,      \* in characters
          Texts,                      \* the C strings shtrings are made of
          MaxShtrings                 \* how many shtrings are made (a bound)
ASSUME ShtringAssumption ==
  /\ {SHTRING_CHUNK_MAX, WordBytes, CMP_BUF, HashSize} \subseteq Nat \ {0}
  /\ MAX_SHTRING_NODE_CHILDREN \in Nat \ {0, 1}
  /\ SHTRING_CHUNK_MAX % WordBytes = 0
  /\ first_generation_size \in Nat

VARIABLES shtrings,     \* the shtrings made, each with the text it should have
          internRoot,   \* the shtrings interned so far
          internIds     \* history: the identifiers shtring_intern returned, by text

shtringVars == <<shtrings, internRoot, internIds>>

Space == 0              \* the character for which isspace holds
Junk == -1
NULL_PTR == [type |-> "NULL_PTR"]

shtring_idiv(a, b) == (a + b - 1) \div b

--------------------------------------------------------------------------------
(* Cells, and how many words they take.                                    *)
Chunk(text) == [type |-> "chunk", text |-> text]

shtring_tree_length(p) ==
  CASE p.type = "NULL_PTR" -> 0
    [] p.type = "node" -> p.length
    [] p.type = "chunk" -> Len(p.text)

shtring_tree_height(p) ==
  CASE p.type = "NULL_PTR" -> 0
    [] p.type = "node" -> p.height
    [] p.type = "chunk" -> 1

(* The characters of the first k of some children.                         *)
RECURSIVE LengthUpto(_, _)
LengthUpto(children, k) ==
  IF k = 0 THEN 0 ELSE LengthUpto(children, k - 1) + shtring_tree_length(children[k])

(* shtring_new_node and shtring_add_child for each of the children.        *)
Node(height, children) ==
  [type |-> "node", height |-> height, child |-> children,
   length |-> LengthUpto(children, Len(children))]

shtring_new_shtring(offset, len, root) ==
  [offset |-> offset, length |-> len, height |-> shtring_tree_height(root), tree |-> root]

SHTRING_WORDS == 5
ChunkWords(n) == 1 + shtring_idiv(n, WordBytes)
NodeWords(n) == 3 + n

RECURSIVE TreeWords(_)
TreeWords(p) ==
  CASE p.type = "NULL_PTR" -> 0
    [] p.type = "chunk" -> ChunkWords(Len(p.text))
    [] p.type = "node" -> FoldLeft(LAMBDA n, c : n + TreeWords(c), NodeWords(Len(p.child)), p.child)

(* shtring_check_chunk, shtring_check_node, shtring_check_shtring.         *)
RECURSIVE ShCheckTree(_)
ShCheckTree(p) ==
  CASE p.type = "NULL_PTR" -> FALSE
    [] p.type = "chunk" -> Len(p.text) \in 1 .. SHTRING_CHUNK_MAX
    [] p.type = "node" ->
         /\ Len(p.child) \in 1 .. MAX_SHTRING_NODE_CHILDREN /\ p.height >= 2
         /\ \A i \in DOMAIN p.child :
              ShCheckTree(p.child[i]) /\ p.height = shtring_tree_height(p.child[i]) + 1
         /\ p.length = LengthUpto(p.child, Len(p.child))

shtring_check_shtring(s) ==
  /\ s.tree = NULL_PTR \/ ShCheckTree(s.tree)
  /\ s.height = shtring_tree_height(s.tree)
  /\ s.offset + s.length <= shtring_tree_length(s.tree)

--------------------------------------------------------------------------------
(* shtring_create.                                                         *)
RECURSIVE ShLevels(_)
ShLevels(n) == IF n <= 1 THEN n ELSE 1 + ShLevels(shtring_idiv(n, MAX_SHTRING_NODE_CHILDREN))

RECURSIVE ShNodeWords(_)
ShNodeWords(n) ==
  IF n <= 1 THEN 0
  ELSE LET m == shtring_idiv(n, MAX_SHTRING_NODE_CHILDREN) IN n + m * 3 + ShNodeWords(m)

(* shtring_tree_size: the height of the tree and the words for it and the  *)
(* shtring.                                                                *)
TreeHeight(len) == ShLevels(shtring_idiv(len, SHTRING_CHUNK_MAX))
(* Mutant: the first words of the chunks are forgotten.                    *)
shtring_create_textOnly(len) ==
  shtring_idiv(len, WordBytes) + ShNodeWords(shtring_idiv(len, SHTRING_CHUNK_MAX)) + SHTRING_WORDS
shtring_create_max_allocation(len) ==
  LET chunks == shtring_idiv(len, SHTRING_CHUNK_MAX) IN
  shtring_idiv(len, WordBytes) + chunks + ShNodeWords(chunks) + SHTRING_WORDS

(* build_tree and build_chunk: every subtree but the last is full.         *)
RECURSIVE build_tree(_, _)
build_tree(height, text) ==
  CASE height = 0 -> NULL_PTR
    [] height = 1 -> Chunk(text)
    [] OTHER ->
         LET full == SHTRING_CHUNK_MAX * MAX_SHTRING_NODE_CHILDREN ^ (height - 2)
             last(i) == IF i * full < Len(text) THEN i * full ELSE Len(text) IN
         Node(height, [i \in 1 .. shtring_idiv(Len(text), full) |->
                build_tree(height - 1, SubSeq(text, (i - 1) * full + 1, last(i)))])

shtring_create(text) ==
  shtring_new_shtring(0, Len(text), build_tree(TreeHeight(Len(text)), text))

--------------------------------------------------------------------------------
(* shtring_monkey: the chunks with text of the window start .. start+len-1 *)
(* from left to right, each with its part of the window.  pos is where the *)
(* tree starts.                                                            *)
RECURSIVE MonkeyFrom(_, _, _, _), MonkeyChildren(_, _, _, _, _)
MonkeyFrom(p, start, len, pos) ==
  LET off == IF pos >= start THEN 0 ELSE start - pos
      outside == pos >= start + len \/ pos + shtring_tree_length(p) <= start
  IN CASE p.type = "NULL_PTR" \/ outside -> <<>>
       [] p.type = "node" -> MonkeyChildren(p, 1, start, len, pos)
       [] p.type = "chunk" ->
            <<[chunk |-> p.text, off_in_chunk |-> off,
               off_in_tree |-> IF pos >= start THEN pos - start ELSE 0,
               len |-> IF pos + Len(p.text) <= start + len
                       THEN Len(p.text) - off ELSE start + len - (pos + off)]>>
MonkeyChildren(p, i, start, len, pos) ==
  IF i > Len(p.child) THEN <<>>
  ELSE MonkeyFrom(p.child[i], start, len, pos)
       \o MonkeyChildren(p, i + 1, start, len, pos + shtring_tree_length(p.child[i]))

shtring_monkey(root, start, len) == MonkeyFrom(root, start, len, 0)

ShWindow(s) == shtring_monkey(s.tree, s.offset, s.length)

copy_chunk_to_cstr(chunk, start, len) == SubSeq(chunk, start + 1, start + len)
PartText(part) == copy_chunk_to_cstr(part.chunk, part.off_in_chunk, part.len)

(* collect_string for every chunk.                                         *)
RECURSIVE CollectString(_)
CollectString(parts) ==
  IF parts = <<>> THEN <<>> ELSE PartText(Head(parts)) \o CollectString(Tail(parts))
shtring_strat(s, pos, len) == CollectString(shtring_monkey(s.tree, s.offset + pos, len))

(* find_chunk: the chunk with the character at pos, and where it starts.   *)
RECURSIVE find_chunk(_, _, _)
find_chunk(p, start, pos) ==
  IF p.type = "chunk" THEN [chunk |-> p.text, start |-> start]
  ELSE LET begin(i) == start + LengthUpto(p.child, i - 1)
           i == CHOOSE k \in DOMAIN p.child :
                  pos < begin(k + 1) /\ \A j \in 1 .. k - 1 : pos >= begin(j + 1)
       IN find_chunk(p.child[i], begin(i), pos)

shtring_charat(s, pos) ==
  LET found == find_chunk(s.tree, 0, s.offset + pos) IN
  copy_chunk_to_cstr(found.chunk, s.offset + pos - found.start, 1)[1]

(* memcmp of one buffer after the other.                                   *)
memcmp(a, b) ==
  LET D == {i \in DOMAIN a : a[i] # b[i]} IN
  IF D = {} THEN "EQUAL"
  ELSE LET i == CHOOSE i \in D : \A j \in D : i <= j IN
       IF a[i] < b[i] THEN "LESS" ELSE "GREATER"

RECURSIVE ShCmpFrom(_, _, _)
ShCmpFrom(s, t, pos) ==
  LET len == IF s.length < t.length THEN s.length ELSE t.length
      n == IF pos + CMP_BUF > len THEN len - pos ELSE CMP_BUF
      ret == memcmp(shtring_strat(s, pos, n), shtring_strat(t, pos, n))
  IN CASE pos < len -> IF ret = "EQUAL" THEN ShCmpFrom(s, t, pos + n) ELSE ret
       [] s.length < t.length -> "LESS"
       [] s.length > t.length -> "GREATER"
       [] OTHER -> "EQUAL"
shtring_cmp_without_allocating(s, t) == ShCmpFrom(s, t, 0)

--------------------------------------------------------------------------------
(* shtring_cat.  Operations that allocate return the tree and the words    *)
(* they took; Abort is an assert that failed.                              *)
Made(p, words) == [p |-> p, words |-> words]
Abort == [p |-> [type |-> "Abort"], words |-> 0]

needed_for_height(p, h) == (h - shtring_tree_height(p)) * NodeWords(1)

needed_for_trim(p, start, end) ==
  IF p = NULL_PTR \/ (start = 0 /\ end = 0) THEN 0
  ELSE 2 * ChunkWords(SHTRING_CHUNK_MAX)
       + shtring_tree_height(p) * NodeWords(MAX_SHTRING_NODE_CHILDREN) * 2

shtring_cat_max_allocation(s, t) ==
  LET h == 1 + (IF s.height < t.height THEN t.height ELSE s.height) IN
  needed_for_height(s.tree, h) + needed_for_height(t.tree, h)
  + h * (MAX_SHTRING_NODE_CHILDREN + 1)
  + needed_for_trim(s.tree, s.offset, 1) + needed_for_trim(t.tree, t.offset, 1)
  + SHTRING_WORDS

RECURSIVE make_of_height(_, _)
make_of_height(made, h) ==
  LET current == shtring_tree_height(made.p) IN
  IF current = h THEN made
  ELSE make_of_height(Made(Node(current + 1, <<made.p>>), made.words + NodeWords(1)), h)

(* Mutant: the children of the second root come first.                     *)
cat_rootsSwapped(p1, p2) ==
  Made(Node(p1.height, p2.child \o p1.child), NodeWords(Len(p1.child) + Len(p2.child)))
cat_roots(p1, p2) ==
  Made(Node(p1.height, p1.child \o p2.child), NodeWords(Len(p1.child) + Len(p2.child)))

(* Join the trees where their heights are equal.  shtring_add_children     *)
(* asserts that there are children to add beside the subtree replaced.     *)
RECURSIVE cat_recursive(_, _)
cat_recursive(p1, p2) ==
  LET h1 == shtring_tree_height(p1)
      h2 == shtring_tree_height(p2)
      replaced(q, n, children) ==
        CASE q.p.type \in {"NULL_PTR", "Abort"} -> q
          [] n = 1 -> Abort
          [] OTHER -> Made(Node(IF h1 < h2 THEN h2 ELSE h1, children), q.words + NodeWords(n))
  IN CASE h1 = h2 ->
            IF h1 = 1 \/ Len(p1.child) + Len(p2.child) > MAX_SHTRING_NODE_CHILDREN
            THEN Made(NULL_PTR, 0) ELSE cat_roots(p1, p2)
       [] h1 < h2 -> LET q == cat_recursive(p1, Head(p2.child)) IN
                     replaced(q, Len(p2.child), <<q.p>> \o Tail(p2.child))
       [] h1 > h2 -> LET q == cat_recursive(Last(p1.child), p2) IN
                     replaced(q, Len(p1.child), Append(Front(p1.child), q.p))

(* A new root over the two trees, or a new child of the higher one's root. *)
cat_trees(p1, p2) ==
  LET q == cat_recursive(p1, p2)
      h1 == shtring_tree_height(p1)
      h2 == shtring_tree_height(p2)
      root(h, m1, m2) == Made(Node(h + 1, <<m1.p, m2.p>>), m1.words + m2.words + NodeWords(2))
      raise1(h) == make_of_height(Made(p1, 0), h)
      raise2(h) == make_of_height(Made(p2, 0), h)
      room(p) == Len(p.child) < MAX_SHTRING_NODE_CHILDREN
  IN CASE q.p.type # "NULL_PTR" -> q
       [] h1 = h2 -> root(h1, Made(p1, 0), Made(p2, 0))
       [] h1 < h2 /\ room(p2) ->
            LET m == raise1(h2 - 1) IN
            Made(Node(h2, <<m.p>> \o p2.child), m.words + NodeWords(Len(p2.child) + 1))
       [] h1 < h2 /\ ~room(p2) -> root(h2, raise1(h2), Made(p2, 0))
       [] h1 > h2 /\ room(p1) ->
            LET m == raise2(h1 - 1) IN
            Made(Node(h1, Append(p1.child, m.p)), m.words + NodeWords(Len(p1.child) + 1))
       [] h1 > h2 /\ ~room(p1) -> root(h1, Made(p1, 0), raise2(h1))

(* n characters of text p from start.  When start is at a word, memcpy is  *)
(* told the words as the bytes to copy; the first byte in memory is the    *)
(* last character of a word (WORDS_BIGENDIAN is 0).                        *)
copy_chunk_text(n, p, start) ==
  LET byte(k) == WordBytes * ((k - 1) \div WordBytes) + WordBytes - 1 - ((k - 1) % WordBytes) IN
  Chunk([k \in 1 .. n |->
    IF start + k <= Len(p) /\ (start % WordBytes # 0 \/ byte(k) < shtring_idiv(n, WordBytes))
    THEN p[start + k] ELSE Junk])

RECURSIVE ShSkipRoots(_)
ShSkipRoots(p) == IF p.type = "node" /\ Len(p.child) = 1 THEN ShSkipRoots(p.child[1]) ELSE p

(* A part of the text of a chunk in a new chunk.                           *)
TrimChunk(text, n, from) == Made(copy_chunk_text(n, text, from), ChunkWords(n))

(* The new node over the children made, less roots with one child.         *)
TrimmedNode(p, made) ==
  IF \E k \in DOMAIN made :
       made[k].p.type = "Abort" \/ shtring_tree_height(made[k].p) # p.height - 1
  THEN Abort
  ELSE Made(ShSkipRoots(Node(p.height, [k \in DOMAIN made |-> made[k].p])),
            FoldLeft(LAMBDA n, m : n + m.words, NodeWords(Len(made)), made))

(* The first and the last child of which something stays.                  *)
FirstKept(p, start) ==
  CHOOSE k \in DOMAIN p.child :
    start < LengthUpto(p.child, k) /\ (k = 1 \/ start >= LengthUpto(p.child, k - 1))
LastKept(p, i, end) ==
  Max({k \in i .. Len(p.child) : k = i \/ end < p.length - LengthUpto(p.child, k - 1)})

(* The tree without its first and last characters.  The text of the last   *)
(* chunk of a node of chunks is taken from the first one (i, not j).       *)
RECURSIVE trim_ends(_, _, _), TrimFirst(_, _, _, _), TrimLast(_, _, _, _)
TrimFirst(p, i, st, en) ==
  IF p.height = 2 THEN TrimChunk(p.child[i].text, Len(p.child[i].text) - st - en, st)
  ELSE trim_ends(p.child[i], st, en)
TrimLast(p, i, j, en) ==
  IF p.height = 2 THEN TrimChunk(p.child[i].text, Len(p.child[j].text) - en, 0)
  ELSE trim_ends(p.child[j], 0, en)
TrimBetween(p, i, j, st, en) ==
  TrimmedNode(p, IF i = j THEN <<TrimFirst(p, i, st, en)>>
                 ELSE <<TrimFirst(p, i, st, 0)>>
                      \o [k \in 1 .. j - i - 1 |-> Made(p.child[i + k], 0)]
                      \o <<TrimLast(p, i, j, en)>>)
trim_ends(p, start, end) ==
  CASE start + end >= shtring_tree_length(p) -> Abort
    [] start = 0 /\ end = 0 -> Made(p, 0)
    [] p.type = "chunk" -> TrimChunk(p.text, Len(p.text) - start - end, start)
    [] OTHER ->
         LET i == FirstKept(p, start)
             j == LastKept(p, i, end)
         IN TrimBetween(p, i, j, start - LengthUpto(p.child, i - 1),
                        end - (p.length - LengthUpto(p.child, j)))

(* The catenation, and the words taken for it.                             *)
CatMade(s, t, m1, m2, m) ==
  IF "Abort" \in {m1.p.type, m2.p.type, m.p.type}
  THEN [shtring |-> Abort.p, words |-> 0]
  ELSE [shtring |-> shtring_new_shtring(s.offset, s.length + t.length, m.p),
        words |-> m1.words + m2.words + m.words + SHTRING_WORDS]
(* The trees are joined as those of heights that trimming must not change. *)
CatTrimmed(s, t, m1, m2) ==
  CatMade(s, t, m1, m2,
          IF \/ "Abort" \in {m1.p.type, m2.p.type}
             \/ shtring_tree_height(m1.p) # s.height \/ shtring_tree_height(m2.p) # t.height
          THEN Abort ELSE cat_trees(m1.p, m2.p))
ShCat(s, t) ==
  CASE s.tree = NULL_PTR -> [shtring |-> t, words |-> 0]
    [] t.tree = NULL_PTR -> [shtring |-> s, words |-> 0]
    [] OTHER -> CatTrimmed(s, t,
                  trim_ends(s.tree, 0, shtring_tree_length(s.tree) - s.offset - s.length),
                  trim_ends(t.tree, t.offset, 0))

--------------------------------------------------------------------------------
(* The smallest subtree that has all of the window, if the window starts   *)
(* before the end of the tree or the tree is one chunk.                    *)
RECURSIVE minimal_subtree(_, _, _)
minimal_subtree(p, start, len) ==
  LET upto(k) == LengthUpto(p.child, k)
      i == CHOOSE k \in DOMAIN p.child : start < upto(k) /\ (k = 1 \/ start >= upto(k - 1))
      stays == i < Len(p.child) /\ upto(i) < start + len
  IN IF p.type # "node" \/ stays THEN [p |-> p, start |-> start]
     ELSE minimal_subtree(p.child[i], start - upto(i - 1), len)
MinimalSubtreeExists(p, start) == p.type = "node" => start < p.length

(* The window of len characters at offset in the tree of a shtring.        *)
SubShtring(s, offset, len) ==
  LET m == minimal_subtree(s.tree, offset, len) IN shtring_new_shtring(m.start, len, m.p)

shtring_copy(s, start, len) == SubShtring(s, s.offset + start, len)

(* find_first_non_ws: where it stops, or the end of the window.            *)
FirstNonWs(s) ==
  LET text == shtring_strat(s, 0, s.length)
      I == {i \in DOMAIN text : text[i] # Space} IN
  IF I = {} THEN Len(text) ELSE (CHOOSE i \in I : \A j \in I : i <= j) - 1

shtring_trim_leading(s) ==
  IF FirstNonWs(s) = 0 THEN s ELSE SubShtring(s, s.offset + FirstNonWs(s), s.length - FirstNonWs(s))

(* The first character of a text that is not a space.                      *)
FirstIn(text) == CHOOSE i \in DOMAIN text : text[i] # Space /\ \A j \in 1 .. i - 1 : text[j] = Space
(* The parts of the window with more than spaces.                          *)
PartsWithText(s) == {k \in DOMAIN ShWindow(s) : \E i \in DOMAIN PartText(ShWindow(s)[k]) :
                                                  PartText(ShWindow(s)[k])[i] # Space}
(* find_last_non_ws, chunk by chunk from right to left: the FIRST such     *)
(* character of the last chunk with any, or -1.                            *)
LastNonWs(s) ==
  LET K == PartsWithText(s)
      part == ShWindow(s)[CHOOSE k \in K : \A l \in K : l <= k]
  IN IF K = {} THEN -1 ELSE part.off_in_tree + FirstIn(PartText(part)) - 1

(* The new window starts at 0, not at the offset of the shtring.           *)
shtring_trim_trailing(s) ==
  CASE LastNonWs(s) = -1 -> shtring_new_shtring(0, 0, NULL_PTR)
    [] LastNonWs(s) + 1 = s.length -> s
    [] OTHER -> SubShtring(s, 0, LastNonWs(s) + 1)

--------------------------------------------------------------------------------
(* hash_chunk and shtring_hash.  A part that starts within a word is       *)
(* hashed to the end of the word, and then counted as the characters       *)
(* before it.                                                              *)
HashChar(h, c) == (32 * h + h + h \div 8 + c) % HashSize

HashPart(h, part) ==
  LET off == part.off_in_chunk % WordBytes
      first == IF off = 0 THEN 0 ELSE WordBytes - off
      rest == IF off = 0 THEN part.len ELSE part.len - off
  IN FoldLeft(HashChar, h, copy_chunk_to_cstr(part.chunk, part.off_in_chunk, first + rest))

shtring_hash(s) == FoldLeft(HashPart, 5381 % HashSize, ShWindow(s))

(* The hash is that of the text.                                           *)
HashesOwnText(s) ==
  \A i \in DOMAIN ShWindow(s) :
    LET part == ShWindow(s)[i]
        off == part.off_in_chunk % WordBytes
    IN off # 0 => WordBytes - off = off /\ part.len >= off

(* shtring_intern.  hash_trie and id_trie are kept as the maps that triev2 *)
(* implements; shtrings of one hash value are in a list.                   *)
NoInterned == [hash_trie |-> <<>>, id_trie |-> <<>>, count |-> 0]

(* The place of a shtring in the list of those with its hash value.        *)
InList(list, s) == {i \in DOMAIN list : shtring_cmp_without_allocating(list[i].shtring, s) = "EQUAL"}

shtring_intern(root, s) ==
  LET hash == shtring_hash(s)
      list == IF hash \in DOMAIN root.hash_trie THEN root.hash_trie[hash] ELSE <<>>
      id == root.count + 1
  IN IF InList(list, s) # {}
     THEN [root |-> root, id |-> list[CHOOSE i \in InList(list, s) : TRUE].id]
     ELSE [root |-> [hash_trie |-> (hash :> (<<[shtring |-> s, id |-> id]>> \o list)) @@ root.hash_trie,
                     id_trie |-> (id :> s) @@ root.id_trie,
                     count |-> id],
           id |-> id]

shtring_lookup_by_intern_id(root, id) == root.id_trie[id]

--------------------------------------------------------------------------------
ShtringInit == shtrings = {} /\ internRoot = NoInterned /\ internIds = {}

ShAdd(s, text) ==
  /\ shtrings' = shtrings \cup {[s |-> s, text |-> text]}
  /\ UNCHANGED <<internRoot, internIds>>

(* A text too long for the first generation is refused, for good.          *)
ShtringCreate ==
  \E text \in Texts : Len(text) <= first_generation_size \div 2 /\ ShAdd(shtring_create(text), text)

(* trim_ends works where there is nothing to trim, and at the start of a   *)
(* chunk within a word unless it writes a word more than the new chunk has.*)
TrimsWell(p, start, end) ==
  \/ start = 0 /\ end = 0
  \/ LET off == start % WordBytes
         n == Len(p.text) - start - end
     IN /\ p.type = "chunk" /\ off # 0
        /\ shtring_idiv(off + n, WordBytes) = shtring_idiv(n, WordBytes)

CatsWell(s, t) ==
  \/ s.tree = NULL_PTR \/ t.tree = NULL_PTR
  \/ /\ TrimsWell(s.tree, 0, shtring_tree_length(s.tree) - s.offset - s.length)
     /\ TrimsWell(t.tree, t.offset, 0)

ShtringCat ==
  \E x, y \in shtrings :
    LET cat == ShCat(x.s, y.s) IN
    CatsWell(x.s, y.s) /\ cat.shtring # Abort.p /\ ShAdd(cat.shtring, x.text \o y.text)

ShtringCopy ==
  \E x \in shtrings : \E start \in 0 .. x.s.length : \E len \in 0 .. x.s.length - start :
    /\ MinimalSubtreeExists(x.s.tree, x.s.offset + start)
    /\ ShAdd(shtring_copy(x.s, start, len), SubSeq(x.text, start + 1, start + len))

RECURSIVE TrimLeft(_)
TrimLeft(text) == IF text # <<>> /\ Head(text) = Space THEN TrimLeft(Tail(text)) ELSE text
TrimRight(text) == Reverse(TrimLeft(Reverse(text)))

ShtringTrimLeading ==
  \E x \in shtrings :
    /\ MinimalSubtreeExists(x.s.tree, x.s.offset + FirstNonWs(x.s)) \/ FirstNonWs(x.s) = 0
    /\ ShAdd(shtring_trim_leading(x.s), TrimLeft(x.text))

(* shtring_trim_trailing works for shtrings that start at their tree's     *)
(* start, with one such character in the last chunk that has any.          *)
EndsWell(s) ==
  /\ s.offset = 0
  /\ \A k \in PartsWithText(s) :
       LET text == PartText(ShWindow(s)[k]) IN
       Cardinality({i \in DOMAIN text : text[i] # Space}) = 1 \/ \E l \in PartsWithText(s) : k < l

TrimTrailing(x) == ShAdd(shtring_trim_trailing(x.s), TrimRight(x.text))
ShtringTrimTrailing == \E x \in shtrings : EndsWell(x.s) /\ TrimTrailing(x)

ShtringIntern ==
  \E x \in shtrings :
    /\ HashesOwnText(x.s)
    /\ LET result == shtring_intern(internRoot, x.s) IN
       /\ internRoot' = result.root
       /\ internIds' = internIds \cup {<<x.text, result.id>>}
    /\ UNCHANGED shtrings

ShtringNext ==
  \/ /\ Cardinality(shtrings) < MaxShtrings
     /\ ShtringCreate \/ ShtringCat \/ ShtringCopy \/ ShtringTrimLeading \/ ShtringTrimTrailing
  \/ ShtringIntern
ShtringSpec == ShtringInit /\ [][ShtringNext]_shtringVars

(* Catenation of any two shtrings for which no assert fails, and trimming  *)
(* of any one.                                                             *)
ShtringAnyCat ==
  /\ Cardinality(shtrings) < MaxShtrings
  /\ \/ ShtringCreate \/ ShtringCopy
     \/ \E x, y \in shtrings :
          LET cat == ShCat(x.s, y.s) IN
          cat.shtring # Abort.p /\ ShAdd(cat.shtring, x.text \o y.text)
ShtringAnyTrim ==
  /\ Cardinality(shtrings) < MaxShtrings
  /\ ShtringCreate \/ \E x \in shtrings : TrimTrailing(x)

--------------------------------------------------------------------------------
(* shtring_cmp_without_allocating orders shtrings by their texts, of which *)
(* a proper prefix is less, whatever their trees and the size of its       *)
(* buffers.                                                                *)
ShtringCmpIsOrder ==
  \A x, y \in shtrings :
    LET cmp == shtring_cmp_without_allocating(x.s, y.s) IN
    /\ cmp = "EQUAL" <=> x.text = y.text
    /\ cmp = "LESS" <=>
         \/ IsStrictPrefix(x.text, y.text)
         \/ \E i \in DOMAIN x.text \cap DOMAIN y.text :
              /\ SubSeq(x.text, 1, i - 1) = SubSeq(y.text, 1, i - 1)
              /\ x.text[i] < y.text[i]

(* Interning gives equal texts one identifier and different texts          *)
(* different ones, also when their hash values are equal, and the          *)
(* identifier leads back to the text.                                      *)
InternIsInjective ==
  /\ \A a, b \in internIds : a[1] = b[1] <=> a[2] = b[2]
  /\ \A a \in internIds :
       LET s == shtring_lookup_by_intern_id(internRoot, a[2]) IN
       shtring_strat(s, 0, s.length) = a[1]

(* Every shtring has the text it should have.                              *)
ShtringHasText == \A x \in shtrings : shtring_strat(x.s, 0, x.s.length) = x.text

(* Every shtring that was made by creating, copying and trimming at the    *)
(* start, by catenations that trim no text (TrimsWell) and by trimming at  *)
(* the end where that works (EndsWell) has the text it should have,        *)
(* whichever of shtring_strat and shtring_charat reads it, and passes      *)
(* shtring_check_shtring; shtrings compare as their texts do, and the same *)
(* text is interned once.                                                  *)
ShtringIsText ==
  /\ ShtringCmpIsOrder /\ InternIsInjective /\ ShtringHasText
  /\ \A x \in shtrings :
       /\ shtring_check_shtring(x.s)
       /\ \A pos \in 0 .. x.s.length - 1 : shtring_charat(x.s, pos) = x.text[pos + 1]

(* shtring_create and shtring_cat stay within the words that their callers *)
(* ask can_allocate for.                                                   *)
ShtringAllocations ==
  /\ \A x \in shtrings :
       TreeWords(shtring_create(x.text).tree) + SHTRING_WORDS
         <= shtring_create_max_allocation(Len(x.text))
  /\ \A x, y \in shtrings :
       ShCat(x.s, y.s).words <= shtring_cat_max_allocation(x.s, y.s)
================================================================================
