------------------------------ MODULE QueueProofs ------------------------------
(***************************************************************************)
(* The real time queue of queue.c is a queue, however long it grows and    *)
(* however insertions and removals fall between the steps of a transfer.   *)
(***************************************************************************)
EXTENDS Queue, TLAPS

--------------------------------------------------------------------------------
(* The inductive invariant.                                                *)

PlainQueue ==
  [type : {"CELL_queue"}, head : Seq(Nat), tail : Seq(Nat), nhead : Nat, ntail : Nat]
RevQueue ==
  [type : {"CELL_queue_rev"}, head : Seq(Nat), tail : Seq(Nat), nhead : Nat, ntail : Nat,
   oldHead : Seq(Nat), revHead : Seq(Nat), oldTail : Seq(Nat), newHead : Seq(Nat),
   moved : Nat, started : Nat]

(* Operations since the transfer began: each inserted or removed a key.    *)
Steps(q) == q.ntail + q.started - q.nhead

(* What the first phase has left to do after its first step.               *)
FirstPhase(q) == q.started - (q.started % 2) - 2

(* How far a transfer is after t operations: two keys each, so that it is  *)
(* over in time.                                                           *)
Progress(q, t) ==
  /\ q.started >= 2 /\ q.nhead <= q.started
  /\ q.moved = 0 => Len(q.oldHead) + 2 * t = FirstPhase(q)
  /\ q.moved > 0 => q.oldHead = <<>> /\ q.moved + FirstPhase(q) >= 2 * t

(* Every key of the two old lists is in one place.                         *)
KeysKept(q) ==
  /\ Len(q.oldTail) = Len(q.oldHead)
  /\ Len(q.revHead) + Len(q.oldHead) + q.moved = q.started
  /\ Len(q.newHead) + Len(q.oldHead) = 1 + q.started + q.moved

InTransfer(q) == Progress(q, Steps(q)) /\ KeysKept(q) /\ q.moved < q.nhead

(* Queue q holds the items s: in the order TransferTarget gives, with the  *)
(* head in use at their front, and counts its keys right.                  *)
Held(q, s) ==
  /\ s = TransferTarget(q) \o Reverse(q.tail)
  /\ q.nhead = Len(q.head) /\ q.ntail = Len(q.tail) /\ q.nhead > 0
  /\ IsPrefix(q.head, s)

GoodQueue(q, s) ==
  \/ q = QueueEmpty /\ s = <<>>
  \/ q \in PlainQueue /\ Held(q, s) /\ q.ntail <= q.nhead
  \/ q \in RevQueue /\ Held(q, s) /\ InTransfer(q)

QueueInv == queueItems \in Seq(Nat) /\ inserts \in Nat /\ GoodQueue(queue, queueItems)

--------------------------------------------------------------------------------
(* Sequences of numbers.                                                   *)

LEMMA ReverseSeq ==
  ASSUME NEW s \in Seq(Nat)
  PROVE  /\ Reverse(s) \in Seq(Nat) /\ Len(Reverse(s)) = Len(s)
         /\ \A i \in 1 .. Len(s) : Reverse(s)[i] = s[(Len(s) - i) + 1]
<1> DEFINE n == Len(s)
           r == Reverse(s)
<1>1. n \in Nat /\ r = [i \in 1 .. n |-> s[(n - i) + 1]]
  BY DEF Reverse
<1>2. \A i \in 1 .. n : s[(n - i) + 1] \in Nat
  OBVIOUS
<1>3. r \in [1 .. n -> Nat]
  BY <1>1, <1>2
<1> HIDE DEF n, r
<1>4. r \in Seq(Nat) /\ Len(r) = n
  BY <1>1, <1>3
<1>5. QED
  BY <1>1, <1>4 DEF n, r

LEMMA CatSeq ==
  ASSUME NEW s \in Seq(Nat), NEW t \in Seq(Nat)
  PROVE  /\ s \o t \in Seq(Nat) /\ Len(s \o t) = Len(s) + Len(t)
         /\ \A i \in 1 .. Len(s) + Len(t) : (s \o t)[i] = IF i <= Len(s) THEN s[i] ELSE t[i - Len(s)]
         /\ s \o <<>> = s /\ <<>> \o t = t
OBVIOUS

LEMMA SameSeq ==
  ASSUME NEW s \in Seq(Nat), NEW t \in Seq(Nat), Len(s) = Len(t),
         \A i \in 1 .. Len(s) : s[i] = t[i]
  PROVE  s = t
OBVIOUS

LEMMA CatAssoc ==
  ASSUME NEW r \in Seq(Nat), NEW s \in Seq(Nat), NEW t \in Seq(Nat)
  PROVE  (r \o s) \o t = r \o (s \o t)
OBVIOUS

LEMMA SubSeqSeq ==
  ASSUME NEW s \in Seq(Nat), NEW j \in Nat \ {0}, NEW k \in Nat, j <= k + 1, k <= Len(s)
  PROVE  /\ SubSeq(s, j, k) \in Seq(Nat) /\ Len(SubSeq(s, j, k)) = k + 1 - j
         /\ \A i \in 1 .. k + 1 - j : SubSeq(s, j, k)[i] = s[i + j - 1]
OBVIOUS

LEMMA FrontSeq ==
  ASSUME NEW s \in Seq(Nat), NEW k \in Nat, k <= Len(s)
  PROVE  /\ SubSeq(s, 1, k) \in Seq(Nat) /\ Len(SubSeq(s, 1, k)) = k
         /\ \A i \in 1 .. k : SubSeq(s, 1, k)[i] = s[i]
OBVIOUS

(* Cutting a sequence, or the front part of one, in two.                   *)
LEMMA CutSeq ==
  ASSUME NEW s \in Seq(Nat), NEW k \in Nat, NEW c \in Nat, k <= c, c <= Len(s)
  PROVE  SubSeq(s, 1, k) \o SubSeq(s, k + 1, c) = SubSeq(s, 1, c)
<1> DEFINE a == SubSeq(s, 1, k)
           b == SubSeq(s, k + 1, c)
           d == SubSeq(s, 1, c)
<1>1. /\ a \in Seq(Nat) /\ Len(a) = k /\ \A i \in 1 .. k : a[i] = s[i]
      /\ b \in Seq(Nat) /\ Len(b) = c - k /\ \A i \in 1 .. c - k : b[i] = s[i + k]
      /\ d \in Seq(Nat) /\ Len(d) = c /\ \A i \in 1 .. c : d[i] = s[i]
  <2>1. a \in Seq(Nat) /\ Len(a) = k /\ \A i \in 1 .. k : a[i] = s[i]
    OBVIOUS
  <2>2. b \in Seq(Nat) /\ Len(b) = c - k /\ \A i \in 1 .. c - k : b[i] = s[i + k]
    <3>1. k + 1 \in Nat \ {0} /\ k + 1 <= c + 1 /\ c + 1 - (k + 1) = c - k
          /\ \A i \in 1 .. c - k : i + (k + 1) - 1 = i + k
      OBVIOUS
    <3>2. /\ b \in Seq(Nat) /\ Len(b) = c + 1 - (k + 1)
          /\ \A i \in 1 .. c + 1 - (k + 1) : b[i] = s[i + (k + 1) - 1]
      BY <3>1, SubSeqSeq
    <3> HIDE DEF b
    <3>3. QED
      BY <3>1, <3>2
  <2>3. d \in Seq(Nat) /\ Len(d) = c /\ \A i \in 1 .. c : d[i] = s[i]
    OBVIOUS
  <2>4. QED
    BY <2>1, <2>2, <2>3
<1> HIDE DEF a, b, d
<1> DEFINE e == a \o b
<1>2. e \in Seq(Nat) /\ Len(e) = c /\ \A i \in 1 .. c : e[i] = IF i <= k THEN a[i] ELSE b[i - k]
  <2>1. Len(a) + Len(b) = c
    BY <1>1
  <2>2. /\ e \in Seq(Nat) /\ Len(e) = Len(a) + Len(b)
        /\ \A i \in 1 .. Len(a) + Len(b) : e[i] = IF i <= Len(a) THEN a[i] ELSE b[i - Len(a)]
    BY <1>1, CatSeq
  <2> HIDE DEF e
  <2>3. QED
    BY <1>1, <2>1, <2>2
<1> HIDE DEF e
<1>3. ASSUME NEW i \in 1 .. c PROVE e[i] = d[i]
  <2>1. CASE i <= k
    <3>1. i \in 1 .. k
      BY <2>1
    <3>2. e[i] = a[i]
      BY <1>2, <2>1
    <3>3. QED
      BY <1>1, <3>1, <3>2
  <2>2. CASE ~(i <= k)
    <3>1. i - k \in 1 .. c - k /\ (i - k) + k = i
      BY <2>2
    <3>2. b[i - k] = s[i]
      BY <1>1, <3>1
    <3>3. QED
      BY <1>1, <1>2, <2>2, <3>2
  <2>3. QED
    BY <2>1, <2>2
<1>4. QED
  BY <1>1, <1>2, <1>3, SameSeq DEF a, b, d, e

LEMMA WholeSeq ==
  ASSUME NEW s \in Seq(Nat)
  PROVE  SubSeq(s, 1, Len(s)) = s
OBVIOUS

LEMMA ReverseCat ==
  ASSUME NEW s \in Seq(Nat), NEW t \in Seq(Nat)
  PROVE  Reverse(s \o t) = Reverse(t) \o Reverse(s)
<1> DEFINE m == Len(s)
           n == Len(t)
           c == s \o t
           l == Reverse(c)
           rs == Reverse(s)
           rt == Reverse(t)
           r == rt \o rs
<1>1. /\ m \in Nat /\ n \in Nat
      /\ c \in Seq(Nat) /\ Len(c) = m + n
      /\ \A i \in 1 .. m + n : c[i] = IF i <= m THEN s[i] ELSE t[i - m]
  BY CatSeq
<1>2. /\ rs \in Seq(Nat) /\ Len(rs) = m /\ \A i \in 1 .. m : rs[i] = s[(m - i) + 1]
      /\ rt \in Seq(Nat) /\ Len(rt) = n /\ \A i \in 1 .. n : rt[i] = t[(n - i) + 1]
  BY ReverseSeq
<1> HIDE DEF m, n, c, rs, rt
<1>3. l \in Seq(Nat) /\ Len(l) = m + n /\ \A i \in 1 .. m + n : l[i] = c[((m + n) - i) + 1]
  <2>1. l \in Seq(Nat) /\ Len(l) = Len(c) /\ \A i \in 1 .. Len(c) : l[i] = c[(Len(c) - i) + 1]
    BY <1>1, ReverseSeq
  <2> HIDE DEF l
  <2>2. Len(c) = m + n /\ m + n \in Nat
    BY <1>1
  <2> DEFINE k == m + n
  <2> HIDE DEF k
  <2>3. l \in Seq(Nat) /\ Len(l) = k /\ \A i \in 1 .. k : l[i] = c[(k - i) + 1]
    BY <2>1, <2>2 DEF k
  <2>4. QED
    BY <2>3 DEF k
<1>4. r \in Seq(Nat) /\ Len(r) = m + n /\ \A i \in 1 .. m + n : r[i] = IF i <= n THEN rt[i] ELSE rs[i - n]
  <2>1. /\ r \in Seq(Nat) /\ Len(r) = Len(rt) + Len(rs)
        /\ \A i \in 1 .. Len(rt) + Len(rs) : r[i] = IF i <= Len(rt) THEN rt[i] ELSE rs[i - Len(rt)]
    BY <1>2, CatSeq
  <2>2. Len(rt) + Len(rs) = m + n
    BY <1>1, <1>2
  <2> HIDE DEF r
  <2>3. QED
    BY <1>2, <2>1, <2>2
<1> HIDE DEF l, r
<1>5. ASSUME NEW i \in 1 .. m + n PROVE l[i] = r[i]
  <2>1. (m + n - i) + 1 \in 1 .. m + n /\ ((m + n) - i) + 1 = (m + n - i) + 1
    BY <1>1
  <2>2. CASE i <= n
    <3>1. ~((m + n - i) + 1 <= m) /\ ((m + n - i) + 1) - m = (n - i) + 1 /\ i \in 1 .. n
      BY <1>1, <2>2
    <3>2. l[i] = t[(n - i) + 1]
      <4>1. l[i] = c[(m + n - i) + 1]
        BY <1>3, <2>1
      <4>2. c[(m + n - i) + 1] = t[((m + n - i) + 1) - m]
        BY <1>1, <2>1, <3>1
      <4>3. QED
        BY <3>1, <4>1, <4>2
    <3>3. QED
      BY <1>2, <1>4, <2>2, <3>1, <3>2
  <2>3. CASE ~(i <= n)
    <3>1. (m + n - i) + 1 <= m /\ i - n \in 1 .. m /\ (m - (i - n)) + 1 = (m + n - i) + 1
      BY <1>1, <2>3
    <3>2. l[i] = s[(m + n - i) + 1]
      <4>1. l[i] = c[(m + n - i) + 1]
        BY <1>3, <2>1
      <4>2. QED
        BY <1>1, <2>1, <3>1, <4>1
    <3>3. rs[i - n] = s[(m + n - i) + 1]
      BY <1>2, <3>1
    <3>4. QED
      BY <1>4, <2>3, <3>2, <3>3
  <2>4. QED
    BY <2>2, <2>3
<1>6. QED
  BY <1>3, <1>4, <1>5, SameSeq DEF m, n, c, l, rs, rt, r

LEMMA ReverseTwice ==
  ASSUME NEW s \in Seq(Nat)
  PROVE  Reverse(Reverse(s)) = s
<1> DEFINE n == Len(s)
           r == Reverse(s)
           t == Reverse(r)
<1>1. n \in Nat /\ r \in Seq(Nat) /\ Len(r) = n /\ \A i \in 1 .. n : r[i] = s[(n - i) + 1]
  <2>1. Len(s) \in Nat
    OBVIOUS
  <2>2. /\ Reverse(s) \in Seq(Nat) /\ Len(Reverse(s)) = Len(s)
        /\ \A i \in 1 .. Len(s) : Reverse(s)[i] = s[(Len(s) - i) + 1]
    BY ReverseSeq, Zenon
  <2>3. QED
    BY <2>1, <2>2, Zenon
<1> HIDE DEF n, r
<1>2. t \in Seq(Nat) /\ Len(t) = n /\ \A i \in 1 .. n : t[i] = r[(n - i) + 1]
  BY <1>1, ReverseSeq
<1> HIDE DEF t
<1>3. \A i \in 1 .. n : (n - i) + 1 \in 1 .. n /\ (n - ((n - i) + 1)) + 1 = i
  BY <1>1
<1>4. \A i \in 1 .. n : t[i] = s[i]
  BY <1>1, <1>2, <1>3
<1>5. QED
  BY <1>1, <1>2, <1>4, SameSeq DEF n, r, t

LEMMA ReverseSmall ==
  /\ Reverse(<<>>) = <<>>
  /\ \A x \in Nat : Reverse(<<x>>) = <<x>>
  /\ \A x, y \in Nat : Reverse(<<x, y>>) = <<y, x>>
BY DEF Reverse

(* The first k keys of s go to t, one after the other: read backwards, the *)
(* rest of s and then t, the keys are the same as before.                  *)
LEMMA MoveKeys ==
  ASSUME NEW s \in Seq(Nat), NEW t \in Seq(Nat), NEW k \in Nat, k <= Len(s)
  PROVE  /\ SubSeq(s, k + 1, Len(s)) \in Seq(Nat) /\ Len(SubSeq(s, k + 1, Len(s))) = Len(s) - k
         /\ Reverse(SubSeq(s, 1, k)) \o t \in Seq(Nat)
         /\ Len(Reverse(SubSeq(s, 1, k)) \o t) = k + Len(t)
         /\ Reverse(SubSeq(s, k + 1, Len(s))) \o (Reverse(SubSeq(s, 1, k)) \o t) = Reverse(s) \o t
<1> DEFINE a == SubSeq(s, 1, k)
           b == SubSeq(s, k + 1, Len(s))
           ra == Reverse(a)
           rb == Reverse(b)
<1>1. Len(s) \in Nat /\ k + 1 \in Nat \ {0} /\ k + 1 <= Len(s) + 1 /\ Len(s) + 1 - (k + 1) = Len(s) - k
      /\ k + 1 - 1 = k
  OBVIOUS
<1>2. a \in Seq(Nat) /\ Len(a) = k + 1 - 1
  BY <1>1, SubSeqSeq
<1>3. b \in Seq(Nat) /\ Len(b) = Len(s) + 1 - (k + 1)
  BY <1>1, SubSeqSeq, SMTT(40)
<1>4. a \o b = s
  <2>1. Len(s) \in Nat /\ Len(s) <= Len(s)
    BY <1>1
  <2>2. SubSeq(s, 1, k) \o SubSeq(s, k + 1, Len(s)) = SubSeq(s, 1, Len(s))
    BY <2>1, CutSeq
  <2>3. SubSeq(s, 1, Len(s)) = s
    BY WholeSeq
  <2>4. QED
    BY <2>2, <2>3
<1> HIDE DEF a, b
<1>5. Reverse(a \o b) = rb \o ra
  BY <1>2, <1>3, ReverseCat
<1>6. ra \in Seq(Nat) /\ Len(ra) = Len(a) /\ rb \in Seq(Nat)
  BY <1>2, <1>3, ReverseSeq
<1> HIDE DEF ra, rb
<1>7. rb \o (ra \o t) = (rb \o ra) \o t
  BY <1>6, CatAssoc, ZenonT(60)
<1>8. ra \o t \in Seq(Nat) /\ Len(ra \o t) = Len(ra) + Len(t)
  BY <1>6, CatSeq
<1>9. rb \o (ra \o t) = Reverse(s) \o t
  BY <1>4, <1>5, <1>7
<1>10. Len(b) = Len(s) - k /\ Len(ra \o t) = k + Len(t)
  BY <1>1, <1>2, <1>3, <1>6, <1>8
<1>11. QED
  BY <1>3, <1>8, <1>9, <1>10 DEF a, b, ra, rb

--------------------------------------------------------------------------------
(* The steps of a transfer.                                                *)

(* The first phase moves k keys of both lists.                             *)
LEMMA ReverseBothFields ==
  ASSUME NEW q \in RevQueue, NEW k \in Nat
  PROVE  /\ ReverseBoth(q, k).revHead = Reverse(SubSeq(q.oldHead, 1, k)) \o q.revHead
         /\ ReverseBoth(q, k).oldHead = SubSeq(q.oldHead, k + 1, Len(q.oldHead))
         /\ ReverseBoth(q, k).newHead = Reverse(SubSeq(q.oldTail, 1, k)) \o q.newHead
         /\ ReverseBoth(q, k).oldTail = SubSeq(q.oldTail, k + 1, Len(q.oldTail))
         /\ ReverseBoth(q, k).type = "CELL_queue_rev"
         /\ ReverseBoth(q, k).head = q.head /\ ReverseBoth(q, k).tail = q.tail
         /\ ReverseBoth(q, k).nhead = q.nhead /\ ReverseBoth(q, k).ntail = q.ntail
         /\ ReverseBoth(q, k).moved = q.moved /\ ReverseBoth(q, k).started = q.started
BY DEF ReverseBoth, RevQueue

LEMMA ReverseBothType ==
  ASSUME NEW q \in RevQueue, NEW k \in Nat, k <= Len(q.oldHead), k <= Len(q.oldTail)
  PROVE  ReverseBoth(q, k) \in RevQueue
<1> DEFINE rh == Reverse(SubSeq(q.oldHead, 1, k)) \o q.revHead
           oh == SubSeq(q.oldHead, k + 1, Len(q.oldHead))
           nh == Reverse(SubSeq(q.oldTail, 1, k)) \o q.newHead
           ot == SubSeq(q.oldTail, k + 1, Len(q.oldTail))
<1>1. q.oldHead \in Seq(Nat) /\ q.oldTail \in Seq(Nat) /\ q.revHead \in Seq(Nat) /\ q.newHead \in Seq(Nat)
  BY DEF RevQueue
<1>2. rh \in Seq(Nat) /\ oh \in Seq(Nat)
  BY <1>1, MoveKeys
<1>3. nh \in Seq(Nat) /\ ot \in Seq(Nat)
  BY <1>1, MoveKeys
<1>4. ReverseBoth(q, k) = [q EXCEPT !.revHead = rh, !.oldHead = oh, !.newHead = nh, !.oldTail = ot]
  BY DEF ReverseBoth
<1> HIDE DEF rh, oh, nh, ot
<1>5. QED
  BY <1>2, <1>3, <1>4, ZenonT(60) DEF RevQueue

LEMMA TargetOf ==
  ASSUME NEW q \in RevQueue
  PROVE  TransferTarget(q) =
           (Reverse(SubSeq(Reverse(q.oldHead) \o q.revHead, 1, q.nhead - q.moved)) \o Reverse(q.oldTail))
             \o q.newHead
BY DEF TransferTarget, RevQueue

LEMMA ReverseBothTarget ==
  ASSUME NEW q \in RevQueue, NEW k \in Nat, k <= Len(q.oldHead), k <= Len(q.oldTail),
         q.moved <= q.nhead, q.nhead <= Len(q.oldHead) + Len(q.revHead) + q.moved
  PROVE  TransferTarget(ReverseBoth(q, k)) = TransferTarget(q)
<1> DEFINE r == ReverseBoth(q, k)
           c == q.nhead - q.moved
           x == Reverse(q.oldHead) \o q.revHead
           n == Reverse(SubSeq(x, 1, c))
           ro == Reverse(q.oldTail)
           rb == Reverse(SubSeq(q.oldTail, k + 1, Len(q.oldTail)))
           nh == Reverse(SubSeq(q.oldTail, 1, k)) \o q.newHead
<1>1. /\ q.oldHead \in Seq(Nat) /\ q.oldTail \in Seq(Nat) /\ q.revHead \in Seq(Nat) /\ q.newHead \in Seq(Nat)
      /\ q.nhead \in Nat /\ q.moved \in Nat
  BY DEF RevQueue
<1>2. x \in Seq(Nat) /\ Len(x) = Len(q.oldHead) + Len(q.revHead)
  <2> DEFINE oh == Reverse(q.oldHead)
  <2>1. oh \in Seq(Nat) /\ Len(oh) = Len(q.oldHead)
    BY <1>1, ReverseSeq
  <2> HIDE DEF oh
  <2>2. oh \o q.revHead \in Seq(Nat) /\ Len(oh \o q.revHead) = Len(oh) + Len(q.revHead)
    BY <1>1, <2>1, CatSeq
  <2>3. QED
    BY <2>1, <2>2 DEF oh
<1> HIDE DEF x
<1>3. c \in Nat /\ c <= Len(x) /\ 1 \in Nat \ {0} /\ 1 <= c + 1
  <2>1. Len(q.oldHead) \in Nat /\ Len(q.revHead) \in Nat
    BY <1>1
  <2> DEFINE i == Len(q.oldHead)
             j == Len(q.revHead)
             h == q.nhead
             mv == q.moved
  <2>2. i \in Nat /\ j \in Nat /\ h \in Nat /\ mv \in Nat /\ mv <= h /\ h <= i + j + mv
    BY <1>1, <2>1
  <2> HIDE DEF i, j, h, mv
  <2>3. h - mv \in Nat /\ h - mv <= i + j /\ 1 <= h - mv + 1
    BY <2>2
  <2>4. c = h - mv /\ Len(x) = i + j
    BY <1>2 DEF i, j, h, mv
  <2> HIDE DEF c
  <2>5. QED
    BY <2>3, <2>4
<1>4. SubSeq(x, 1, c) \in Seq(Nat)
  BY <1>2, <1>3, SubSeqSeq
<1>5. n \in Seq(Nat)
  BY <1>4, ReverseSeq
<1>6. r \in RevQueue
  BY ReverseBothType
<1>7. Reverse(r.oldHead) \o r.revHead = x
  <2>1. Reverse(SubSeq(q.oldHead, k + 1, Len(q.oldHead))) \o (Reverse(SubSeq(q.oldHead, 1, k)) \o q.revHead) = x
    BY <1>1, MoveKeys DEF x
  <2>2. /\ r.oldHead = SubSeq(q.oldHead, k + 1, Len(q.oldHead))
        /\ r.revHead = Reverse(SubSeq(q.oldHead, 1, k)) \o q.revHead
    BY ReverseBothFields
  <2> HIDE DEF r
  <2>3. QED
    BY <2>1, <2>2
<1>8. rb \o nh = ro \o q.newHead /\ nh \in Seq(Nat)
  BY <1>1, MoveKeys
<1>9. rb \in Seq(Nat) /\ ro \in Seq(Nat)
  <2>1. SubSeq(q.oldTail, k + 1, Len(q.oldTail)) \in Seq(Nat)
    BY <1>1, MoveKeys
  <2>2. QED
    BY <1>1, <2>1, ReverseSeq
<1>10. TransferTarget(r) = (n \o rb) \o nh
  <2>1. TransferTarget(r) =
           (Reverse(SubSeq(Reverse(r.oldHead) \o r.revHead, 1, r.nhead - r.moved)) \o Reverse(r.oldTail))
             \o r.newHead
    BY <1>6, TargetOf
  <2>2. /\ r.nhead = q.nhead /\ r.moved = q.moved /\ r.newHead = nh
        /\ r.oldTail = SubSeq(q.oldTail, k + 1, Len(q.oldTail))
    BY ReverseBothFields
  <2> HIDE DEF r, nh
  <2>3. QED
    BY <1>7, <2>1, <2>2
<1>11. TransferTarget(q) = (n \o ro) \o q.newHead
  BY TargetOf DEF x
<1> HIDE DEF r, c, n, ro, rb, nh
<1>12. (n \o rb) \o nh = n \o (rb \o nh)
  BY <1>5, <1>8, <1>9, CatAssoc
<1>13. (n \o ro) \o q.newHead = n \o (ro \o q.newHead)
  BY <1>1, <1>5, <1>9, CatAssoc, ZenonT(60)
<1>14. QED
  BY <1>8, <1>10, <1>11, <1>12, <1>13 DEF r

(* The second phase moves k keys of the reversed head.                     *)
LEMMA MoveHeadFields ==
  ASSUME NEW q \in RevQueue, NEW k \in Nat
  PROVE  /\ MoveHead(q, k).newHead = Reverse(SubSeq(q.revHead, 1, k)) \o q.newHead
         /\ MoveHead(q, k).revHead = SubSeq(q.revHead, k + 1, Len(q.revHead))
         /\ MoveHead(q, k).moved = q.moved + k
         /\ MoveHead(q, k).type = "CELL_queue_rev"
         /\ MoveHead(q, k).head = q.head /\ MoveHead(q, k).tail = q.tail
         /\ MoveHead(q, k).nhead = q.nhead /\ MoveHead(q, k).ntail = q.ntail
         /\ MoveHead(q, k).oldHead = q.oldHead /\ MoveHead(q, k).oldTail = q.oldTail
         /\ MoveHead(q, k).started = q.started
BY DEF MoveHead, RevQueue

LEMMA MoveHeadType ==
  ASSUME NEW q \in RevQueue, NEW k \in Nat, k <= Len(q.revHead)
  PROVE  MoveHead(q, k) \in RevQueue
<1> DEFINE nh == Reverse(SubSeq(q.revHead, 1, k)) \o q.newHead
           rh == SubSeq(q.revHead, k + 1, Len(q.revHead))
<1>1. q.revHead \in Seq(Nat) /\ q.newHead \in Seq(Nat) /\ q.moved + k \in Nat
  BY DEF RevQueue
<1>2. nh \in Seq(Nat) /\ rh \in Seq(Nat)
  BY <1>1, MoveKeys
<1>3. MoveHead(q, k) = [q EXCEPT !.newHead = nh, !.revHead = rh, !.moved = q.moved + k]
  BY DEF MoveHead
<1> HIDE DEF nh, rh
<1>4. QED
  BY <1>1, <1>2, <1>3 DEF RevQueue

(* A part of a part.                                                       *)
LEMMA SubSubSeq ==
  ASSUME NEW s \in Seq(Nat), NEW k \in Nat, NEW c \in Nat, k <= c, c <= Len(s)
  PROVE  /\ SubSeq(SubSeq(s, k + 1, Len(s)), 1, c - k) = SubSeq(SubSeq(s, 1, c), k + 1, c)
         /\ SubSeq(SubSeq(s, 1, c), 1, k) = SubSeq(s, 1, k)
<1> DEFINE a == SubSeq(s, k + 1, Len(s))
           b == SubSeq(s, 1, c)
           d == SubSeq(a, 1, c - k)
           e == SubSeq(b, k + 1, c)
           f == SubSeq(b, 1, k)
           g == SubSeq(s, 1, k)
<1>1. /\ Len(s) \in Nat /\ k + 1 \in Nat \ {0} /\ 1 \in Nat \ {0} /\ k + 1 <= Len(s) + 1 /\ k + 1 <= c + 1
      /\ 1 <= c + 1 /\ 1 <= k + 1 /\ Len(s) + 1 - (k + 1) = Len(s) - k /\ c + 1 - 1 = c /\ k + 1 - 1 = k
      /\ c - k \in Nat /\ 1 <= (c - k) + 1 /\ c - k <= Len(s) - k /\ (c - k) + 1 - 1 = c - k
      /\ c + 1 - (k + 1) = c - k /\ k <= Len(s) /\ Len(s) <= Len(s)
      /\ \A i \in Nat : i + (k + 1) - 1 = i + k /\ i + 1 - 1 = i
  OBVIOUS
<1>2. /\ a \in Seq(Nat) /\ Len(a) = Len(s) + 1 - (k + 1)
      /\ \A i \in 1 .. Len(s) + 1 - (k + 1) : a[i] = s[i + (k + 1) - 1]
  BY <1>1, SubSeqSeq
<1>3. b \in Seq(Nat) /\ Len(b) = c /\ \A i \in 1 .. c : b[i] = s[i]
  BY FrontSeq
<1>4. g \in Seq(Nat) /\ Len(g) = k /\ \A i \in 1 .. k : g[i] = s[i]
  BY <1>1, FrontSeq
<1> HIDE DEF a, b, g
<1>5. Len(a) = Len(s) - k /\ \A i \in 1 .. Len(s) - k : a[i] = s[i + k]
  BY <1>1, <1>2
<1>6. d \in Seq(Nat) /\ Len(d) = c - k /\ \A i \in 1 .. c - k : d[i] = a[i]
  <2>1. c - k \in Nat /\ c - k <= Len(a)
    BY <1>1, <1>5
  <2>2. QED
    BY <1>2, <2>1, FrontSeq
<1>7. /\ e \in Seq(Nat) /\ Len(e) = c + 1 - (k + 1)
      /\ \A i \in 1 .. c + 1 - (k + 1) : e[i] = b[i + (k + 1) - 1]
  BY <1>1, <1>3, SubSeqSeq
<1>8. f \in Seq(Nat) /\ Len(f) = k /\ \A i \in 1 .. k : f[i] = b[i]
  BY <1>1, <1>3, FrontSeq
<1> HIDE DEF d, e, f
<1>9. Len(d) = c - k /\ Len(e) = c - k /\ \A i \in 1 .. c - k : d[i] = e[i]
  <2>1. Len(d) = c - k /\ Len(e) = c - k
    BY <1>1, <1>6, <1>7
  <2>2. ASSUME NEW i \in 1 .. c - k PROVE d[i] = e[i]
    <3>1. i \in 1 .. Len(s) - k /\ i + k \in 1 .. c /\ i \in Nat
      BY <1>1
    <3>2. d[i] = s[i + k]
      BY <1>1, <1>5, <1>6, <3>1
    <3>3. e[i] = b[i + k]
      BY <1>1, <1>7, <3>1
    <3>4. QED
      BY <1>3, <3>1, <3>2, <3>3
  <2>3. QED
    BY <2>1, <2>2
<1>10. ASSUME NEW i \in 1 .. k PROVE f[i] = g[i]
  <2>1. i \in 1 .. c
    BY <1>1
  <2>2. QED
    BY <1>3, <1>4, <1>8, <2>1
<1>11. d = e
  BY <1>6, <1>7, <1>9, SameSeq
<1>12. f = g
  BY <1>4, <1>8, <1>10, SameSeq
<1>13. QED
  BY <1>11, <1>12 DEF a, b, d, e, f, g

LEMMA MoveHeadTarget ==
  ASSUME NEW q \in RevQueue, NEW k \in Nat, q.oldHead = <<>>, q.oldTail = <<>>,
         k + q.moved <= q.nhead, q.nhead <= Len(q.revHead) + q.moved
  PROVE  TransferTarget(MoveHead(q, k)) = TransferTarget(q)
<1> DEFINE m == MoveHead(q, k)
           c == q.nhead - q.moved
           s == q.revHead
           u == SubSeq(s, 1, c)
           v == SubSeq(s, k + 1, Len(s))
           nh == Reverse(SubSeq(s, 1, k)) \o q.newHead
<1>1. s \in Seq(Nat) /\ q.newHead \in Seq(Nat) /\ q.nhead \in Nat /\ q.moved \in Nat
  BY DEF RevQueue
<1>2. c \in Nat /\ k <= c /\ c <= Len(s) /\ k <= Len(s) /\ 1 \in Nat \ {0} /\ 1 <= c + 1 /\ c + 1 - 1 = c
  <2>1. PICK n : n = Len(s)
    OBVIOUS
  <2>2. n \in Nat
    BY <1>1, <2>1
  <2>3. /\ k \in Nat /\ q.nhead \in Nat /\ q.moved \in Nat /\ n \in Nat
        /\ k + q.moved <= q.nhead /\ q.nhead <= n + q.moved
    BY <1>1, <2>1, <2>2
  <2>4. c \in Nat /\ k <= c /\ c <= n /\ k <= n /\ 1 <= c + 1 /\ c + 1 - 1 = c
    BY ONLY <2>3
  <2>5. QED
    BY <2>1, <2>4
<1>3. u \in Seq(Nat) /\ Len(u) = c + 1 - 1
  BY <1>1, <1>2, SubSeqSeq
<1>4. v \in Seq(Nat) /\ nh \in Seq(Nat)
  BY <1>1, <1>2, MoveKeys
<1>5. SubSeq(v, 1, c - k) = SubSeq(u, k + 1, c) /\ SubSeq(u, 1, k) = SubSeq(s, 1, k)
  BY <1>1, <1>2, SubSubSeq, ZenonT(60)
<1>6. TransferTarget(q) = Reverse(u) \o q.newHead
  <2>1. TransferTarget(q) = (Reverse(SubSeq(Reverse(<<>>) \o s, 1, c)) \o Reverse(<<>>)) \o q.newHead
    BY TargetOf
  <2>2. Reverse(<<>>) = <<>> /\ <<>> \o s = s
    BY <1>1, ReverseSmall, CatSeq
  <2>3. Reverse(u) \in Seq(Nat)
    BY <1>3, ReverseSeq
  <2>4. Reverse(u) \o <<>> = Reverse(u)
    BY <2>3, CatSeq
  <2>5. QED
    BY <2>1, <2>2, <2>4
<1>7. TransferTarget(m) = Reverse(SubSeq(v, 1, c - k)) \o nh
  <2>1. m \in RevQueue
    BY <1>2, MoveHeadType
  <2>2. /\ m.oldHead = <<>> /\ m.oldTail = <<>> /\ m.revHead = v /\ m.newHead = nh
        /\ m.nhead = q.nhead /\ m.moved = q.moved + k
    BY MoveHeadFields
  <2>3. TransferTarget(m) = (Reverse(SubSeq(Reverse(m.oldHead) \o m.revHead, 1, m.nhead - m.moved))
                               \o Reverse(m.oldTail)) \o m.newHead
    BY <2>1, TargetOf
  <2>4. m.nhead - m.moved = c - k
    BY <1>1, <2>2
  <2>5. Reverse(<<>>) = <<>> /\ <<>> \o v = v
    BY <1>4, ReverseSmall, CatSeq
  <2>6. SubSeq(v, 1, c - k) \in Seq(Nat)
    <3>1. c - k \in Nat /\ 1 <= (c - k) + 1 /\ c - k <= Len(v)
      <4>1. Len(v) = Len(s) - k
        BY <1>1, <1>2, MoveKeys
      <4>2. Len(s) \in Nat
        BY <1>1
      <4> HIDE DEF v
      <4>3. QED
        BY <1>2, <4>1, <4>2
    <3> HIDE DEF v
    <3>2. QED
      BY <1>2, <1>4, <3>1, SubSeqSeq
  <2> DEFINE w == SubSeq(v, 1, c - k)
  <2>7. Reverse(w) \in Seq(Nat)
    BY <2>6, ReverseSeq
  <2>8. Reverse(w) \o <<>> = Reverse(w)
    BY <2>7, CatSeq
  <2> HIDE DEF m, v, nh, c
  <2>9. QED
    BY <2>2, <2>3, <2>4, <2>5, <2>8
<1> HIDE DEF u, v
<1>8. Len(u) = c
  BY <1>2, <1>3
<1>9. Reverse(SubSeq(u, k + 1, Len(u))) \o (Reverse(SubSeq(u, 1, k)) \o q.newHead) = Reverse(u) \o q.newHead
  <2>1. k <= Len(u)
    BY <1>2, <1>8
  <2>2. QED
    BY <1>1, <1>3, <2>1, MoveKeys
<1>10. QED
  BY <1>5, <1>6, <1>7, <1>8, <1>9

(* The arithmetic of a transfer of lists of n keys: h keys are left in the *)
(* head in use, t were inserted, a are left in the old head, d were moved. *)
LEMMA FirstPhaseInTime ==
  ASSUME NEW n \in Nat, NEW h \in Nat, NEW t \in Nat, NEW a \in Nat,
         n >= 2, h <= n, a > 0, a + 2 * (t + n - h - 1) = n - (n % 2) - 2
  PROVE  a >= 2 /\ (a - 2) + 2 * (t + n - h) = n - (n % 2) - 2 /\ h > 0
<1>1. PICK e \in Nat, r \in {0, 1} : n = 2 * e + r /\ n % 2 = r
  <2>1. n % 2 \in {0, 1} /\ n = 2 * (n \div 2) + (n % 2) /\ n \div 2 \in Nat
    OBVIOUS
  <2>2. QED
    BY <2>1
<1> DEFINE k == t + n - h
<1>2. k \in Int /\ k >= n - h
  OBVIOUS
<1>3. a + 2 * (k - 1) = 2 * e - 2
  BY <1>1
<1> HIDE DEF k
<1>4. a = 2 * (e - k) /\ e - k > 0
  BY <1>2, <1>3
<1>5. a >= 2 /\ (a - 2) + 2 * k = 2 * e - 2 /\ h > 0
  BY <1>1, <1>2, <1>4
<1>6. QED
  BY <1>1, <1>5 DEF k

(* The second phase: p is what the first one took; c keys are moved now.   *)
LEMMA SecondPhaseInTime ==
  ASSUME NEW n \in Nat, NEW h \in Nat, NEW t \in Nat, NEW d \in Nat, NEW c \in Nat, NEW p \in Nat,
         n >= 2, p <= n - 2, h <= n, d <= h,
         d = 0 => 2 * (t + n - h - 1) = p,
         d > 0 => d + p >= 2 * (t + n - h - 1),
         c <= h - d, d + c = h \/ c >= 2
  PROVE  /\ d + c < h => d + c > 0 /\ (d + c) + p >= 2 * (t + n - h)
         /\ t <= n
OBVIOUS

(* A transfer is in time.                                                  *)
LEMMA InTime ==
  ASSUME NEW n \in Nat, NEW h \in Nat, NEW t \in Nat, NEW a \in Nat, NEW d \in Nat, NEW p \in Nat,
         p <= n - 2, h <= n, d < h,
         d = 0 => a + 2 * (t + n - h) = p,
         d > 0 => d + p >= 2 * (t + n - h)
  PROVE  t <= n
OBVIOUS

LEMMA PhaseBound ==
  ASSUME NEW n \in Nat, n >= 2
  PROVE  n - (n % 2) - 2 \in Nat /\ n - (n % 2) - 2 <= n - 2 /\ n % 2 \in {0, 1} /\ 2 + (n % 2) <= n
OBVIOUS

LEMMA StepsFacts ==
  ASSUME NEW q \in RevQueue, q.moved <= q.nhead
  PROVE  /\ StepsToMove(q) \in Nat /\ StepsToMove(q) <= q.nhead - q.moved
         /\ q.moved + StepsToMove(q) = q.nhead \/ StepsToMove(q) >= 2
<1> DEFINE h == q.nhead
           d == q.moved
           odd == IF d = 0 THEN h % 2 ELSE 0
           left == h - (d + odd)
<1>1. h \in Nat /\ d \in Nat /\ d <= h
  BY DEF RevQueue
<1>2. StepsToMove(q) = odd + (IF left < 0 THEN 0 ELSE IF left < 2 THEN left ELSE 2)
  BY DEF StepsToMove
<1> HIDE DEF h, d
<1>3. odd \in Nat /\ d + odd <= h
  BY <1>1
<1> HIDE DEF odd
<1>4. left \in Nat /\ odd + left = h - d
  BY <1>1, <1>3
<1> HIDE DEF left
<1>5. QED
  BY <1>1, <1>2, <1>3, <1>4 DEF h, d

(* What every operation does for a transfer: one step of it, of which the  *)
(* items held by the queue know nothing.                                   *)
LEMMA TransferStep ==
  ASSUME NEW q \in RevQueue, KeysKept(q), Progress(q, Steps(q) - 1), q.moved <= q.nhead
  PROVE  \/ /\ Transfer(q) \in RevQueue /\ InTransfer(Transfer(q))
            /\ Transfer(q).head = q.head /\ Transfer(q).tail = q.tail
            /\ Transfer(q).nhead = q.nhead /\ Transfer(q).ntail = q.ntail
            /\ TransferTarget(Transfer(q)) = TransferTarget(q)
         \/ /\ Transfer(q) \in PlainQueue
            /\ Transfer(q).head = TransferTarget(q) /\ Transfer(q).tail = q.tail
            /\ Transfer(q).nhead = Len(Transfer(q).head) /\ Transfer(q).nhead > 0
            /\ Transfer(q).ntail = q.ntail /\ Transfer(q).ntail <= Transfer(q).nhead
<1> DEFINE n == q.started
           h == q.nhead
           t == q.ntail
           d == q.moved
           a == Len(q.oldHead)
           lr == Len(q.revHead)
           ln == Len(q.newHead)
           p == n - (n % 2) - 2
<1>1. /\ n \in Nat /\ h \in Nat /\ t \in Nat /\ d \in Nat
      /\ q.oldHead \in Seq(Nat) /\ q.revHead \in Seq(Nat) /\ q.oldTail \in Seq(Nat) /\ q.newHead \in Seq(Nat)
  BY DEF RevQueue
<1>2. a \in Nat /\ lr \in Nat /\ ln \in Nat
  BY <1>1
<1>3. Len(q.oldTail) = a /\ lr + a + d = n /\ ln + a = 1 + n + d
  BY DEF KeysKept
<1>4. /\ n >= 2 /\ h <= n
      /\ d = 0 => a + 2 * (t + n - h - 1) = p
      /\ d > 0 => q.oldHead = <<>> /\ d + p >= 2 * (t + n - h - 1)
  <2>1. t + n - h - 1 = (t + n - h) - 1
    BY <1>1
  <2>2. n >= 2 /\ h <= n
    BY DEF Progress
  <2>3. d = 0 => a + 2 * ((t + n - h) - 1) = p
    BY DEF Progress, Steps, FirstPhase
  <2>4. d > 0 => q.oldHead = <<>> /\ d + p >= 2 * ((t + n - h) - 1)
    BY DEF Progress, Steps, FirstPhase
  <2> HIDE DEF n, h, t, d, a, p
  <2>5. QED
    BY <2>1, <2>2, <2>3, <2>4
<1>5. p \in Nat /\ p <= n - 2
  BY <1>1, <1>4, PhaseBound
<1>6. CASE q.oldHead # <<>>
  <2> DEFINE r == ReverseBoth(q, 2)
  <2>1. d = 0 /\ a > 0
    BY <1>1, <1>4, <1>6
  <2>2. a >= 2 /\ (a - 2) + 2 * (t + n - h) = p /\ h > 0
    <3> HIDE DEF n, h, t, a, d
    <3>1. QED
      BY <1>1, <1>2, <1>4, <2>1, FirstPhaseInTime
  <2>3. Transfer(q) = r
    BY <1>6 DEF Transfer
  <2>4. 2 \in Nat /\ 2 <= Len(q.oldHead) /\ 2 <= Len(q.oldTail)
    BY <1>3, <2>2
  <2>5. r \in RevQueue
    BY <2>4, ReverseBothType
  <2>6. h <= a + lr + d
    <3> HIDE DEF n, h, a, d, lr
    <3>1. QED
      BY <1>1, <1>2, <1>3, <1>4
  <2>7. TransferTarget(r) = TransferTarget(q)
    BY <2>4, <2>6, ReverseBothTarget
  <2>8. /\ r.head = q.head /\ r.tail = q.tail /\ r.nhead = h /\ r.ntail = t /\ r.moved = d /\ r.started = n
        /\ r.oldHead = SubSeq(q.oldHead, 2 + 1, Len(q.oldHead))
        /\ r.oldTail = SubSeq(q.oldTail, 2 + 1, Len(q.oldTail))
        /\ r.revHead = Reverse(SubSeq(q.oldHead, 1, 2)) \o q.revHead
        /\ r.newHead = Reverse(SubSeq(q.oldTail, 1, 2)) \o q.newHead
    BY ReverseBothFields
  <2>9. Len(r.oldHead) = a - 2 /\ Len(r.revHead) = 2 + lr
    <3>1. /\ Len(SubSeq(q.oldHead, 2 + 1, Len(q.oldHead))) = Len(q.oldHead) - 2
          /\ Len(Reverse(SubSeq(q.oldHead, 1, 2)) \o q.revHead) = 2 + Len(q.revHead)
      BY <1>1, <2>4, MoveKeys, ZenonT(60)
    <3> HIDE DEF r
    <3>2. QED
      BY <2>8, <3>1
  <2>10. Len(r.oldTail) = a - 2 /\ Len(r.newHead) = 2 + ln
    <3>1. /\ Len(SubSeq(q.oldTail, 2 + 1, Len(q.oldTail))) = Len(q.oldTail) - 2
          /\ Len(Reverse(SubSeq(q.oldTail, 1, 2)) \o q.newHead) = 2 + Len(q.newHead)
      BY <1>1, <2>4, MoveKeys
    <3> HIDE DEF r
    <3>2. QED
      BY <1>3, <2>8, <3>1
  <2> HIDE DEF r
  <2>11. KeysKept(r)
    <3>1. (2 + lr) + (a - 2) + d = n /\ (2 + ln) + (a - 2) = 1 + n + d
      <4> HIDE DEF n, h, a, d, lr, ln
      <4>1. QED
        BY <1>1, <1>2, <1>3
    <3> HIDE DEF n, a, d, lr, ln
    <3>2. Len(r.revHead) + Len(r.oldHead) + r.moved = r.started
      BY <2>8, <2>9, <3>1
    <3>3. Len(r.newHead) + Len(r.oldHead) = 1 + r.started + r.moved
      BY <2>8, <2>9, <2>10, <3>1
    <3>4. QED
      BY <2>9, <2>10, <3>2, <3>3 DEF KeysKept
  <2>12. Progress(r, Steps(r))
    <3>1. Steps(r) = t + n - h /\ FirstPhase(r) = p
      BY <2>8 DEF Steps, FirstPhase
    <3>2. Len(r.oldHead) + 2 * (t + n - h) = p
      BY <2>2, <2>9
    <3> HIDE DEF n, h, t, d, a, p
    <3>3. QED
      BY <1>4, <2>1, <2>8, <3>1, <3>2 DEF Progress
  <2>13. InTransfer(r)
    BY <2>1, <2>2, <2>8, <2>11, <2>12 DEF InTransfer
  <2>14. QED
    BY <2>3, <2>5, <2>7, <2>8, <2>13
<1>7. CASE q.oldHead = <<>>
  <2> DEFINE k == StepsToMove(q)
             m == MoveHead(q, k)
  <2>1. k \in Nat /\ k <= h - d /\ (d + k = h \/ k >= 2)
    BY StepsFacts
  <2> HIDE DEF k
  <2>2. a = 0 /\ q.oldTail = <<>>
    BY <1>1, <1>3, <1>7
  <2>3. k <= lr /\ k + d <= h /\ h <= lr + d
    <3> HIDE DEF n, h, d, a, lr
    <3>1. QED
      BY <1>1, <1>2, <1>3, <1>4, <2>1, <2>2
  <2>4. Transfer(q) = IF m.nhead = m.moved THEN Transferred(m) ELSE m
    BY <1>7 DEF Transfer, k
  <2>5. m \in RevQueue
    BY <2>1, <2>3, MoveHeadType
  <2>6. TransferTarget(m) = TransferTarget(q)
    BY <1>7, <2>1, <2>2, <2>3, MoveHeadTarget
  <2>7. /\ m.head = q.head /\ m.tail = q.tail /\ m.nhead = h /\ m.ntail = t /\ m.moved = d + k /\ m.started = n
        /\ m.oldHead = <<>> /\ m.oldTail = <<>>
        /\ m.revHead = SubSeq(q.revHead, k + 1, Len(q.revHead))
        /\ m.newHead = Reverse(SubSeq(q.revHead, 1, k)) \o q.newHead
    BY <1>7, <2>1, <2>2, MoveHeadFields
  <2>8. Len(m.revHead) = lr - k /\ Len(m.newHead) = k + ln
    <3>1. /\ Len(SubSeq(q.revHead, k + 1, Len(q.revHead))) = Len(q.revHead) - k
          /\ Len(Reverse(SubSeq(q.revHead, 1, k)) \o q.newHead) = k + Len(q.newHead)
      BY <1>1, <2>1, <2>3, MoveKeys, ZenonT(60)
    <3> HIDE DEF m
    <3>2. QED
      BY <2>7, <3>1
  <2> HIDE DEF m
  <2>9. /\ d + k < h => d + k > 0 /\ (d + k) + p >= 2 * (t + n - h)
        /\ t <= n
    <3>1. d = 0 => 2 * (t + n - h - 1) = p
      <4> HIDE DEF n, h, t, d, a, p
      <4>1. QED
        BY <1>1, <1>4, <2>2
    <3> HIDE DEF n, h, t, d, p
    <3>2. d <= h
      BY <1>1, <2>1, <2>3
    <3>3. QED
      BY <1>1, <1>4, <1>5, <2>1, <3>1, <3>2, SecondPhaseInTime
  <2>10. Len(m.newHead) = d + k + n + 1 /\ Len(m.revHead) + 0 + (d + k) = n
    <3> HIDE DEF n, h, d, a, lr, ln
    <3>1. QED
      BY <1>1, <1>2, <1>3, <2>1, <2>2, <2>8
  <2>11. CASE m.nhead = m.moved
    <3> DEFINE r == Transferred(m)
    <3>1. Transfer(q) = r /\ h = d + k
      BY <2>4, <2>7, <2>11
    <3>2. r = CellQueue(m.newHead, m.tail, h + n + 1, t)
      BY <2>7 DEF Transferred
    <3>3. m.newHead \in Seq(Nat) /\ m.tail \in Seq(Nat)
      BY <2>5 DEF RevQueue
    <3>4. TransferTarget(m) = m.newHead
      <4>1. TransferTarget(m) = (Reverse(SubSeq(Reverse(<<>>) \o m.revHead, 1, m.nhead - m.moved))
                                   \o Reverse(<<>>)) \o m.newHead
        BY <2>5, <2>7, TargetOf
      <4>2. m.nhead - m.moved = 0 /\ m.revHead \in Seq(Nat)
        BY <2>5, <2>11 DEF RevQueue
      <4>3. Reverse(<<>>) = <<>> /\ <<>> \o m.revHead = m.revHead
        BY <4>2, ReverseSmall, CatSeq
      <4>4. SubSeq(m.revHead, 1, 0) = <<>>
        BY <4>2
      <4>5. <<>> \o <<>> = <<>> /\ <<>> \o m.newHead = m.newHead
        BY <3>3, CatSeq
      <4>6. QED
        BY <4>1, <4>2, <4>3, <4>4, <4>5
    <3>5. h + n + 1 \in Nat /\ h + n + 1 > 0 /\ t <= h + n + 1 /\ Len(m.newHead) = h + n + 1
      <4> HIDE DEF n, h, t, d
      <4>1. QED
        BY <1>1, <2>9, <2>10, <3>1
    <3>6. r \in PlainQueue
      BY <1>1, <3>2, <3>3, <3>5 DEF CellQueue, PlainQueue
    <3>7. r.head = m.newHead /\ r.tail = q.tail /\ r.nhead = h + n + 1 /\ r.ntail = t
      <4> HIDE DEF n, h, t, r
      <4>1. QED
        BY <2>7, <3>2 DEF CellQueue
    <3> HIDE DEF r
    <3>8. QED
      BY <2>6, <3>1, <3>4, <3>5, <3>6, <3>7
  <2>12. CASE m.nhead # m.moved
    <3>1. Transfer(q) = m
      BY <2>4, <2>12
    <3>2. d + k < h
      <4>1. d + k # h
        BY <2>7, <2>12
      <4> HIDE DEF h, d
      <4>2. QED
        BY <1>1, <2>1, <2>3, <4>1
    <3>3. KeysKept(m)
      <4>1. Len(m.oldHead) = 0 /\ Len(m.oldTail) = 0
        BY <2>7
      <4>2. Len(m.newHead) + 0 = 1 + n + (d + k)
        <5> HIDE DEF n, d
        <5>1. QED
          BY <1>1, <2>1, <2>10
      <4> HIDE DEF n, d
      <4>3. QED
        BY <2>7, <2>10, <4>1, <4>2 DEF KeysKept
    <3>4. Progress(m, Steps(m))
      <4>1. Steps(m) = t + n - h /\ FirstPhase(m) = p
        BY <2>7 DEF Steps, FirstPhase
      <4> HIDE DEF n, h, t, d, p
      <4>2. m.moved # 0
        BY <1>1, <2>1, <2>7, <2>9, <3>2
      <4>3. QED
        BY <1>4, <2>7, <2>9, <3>2, <4>1, <4>2 DEF Progress
    <3>5. InTransfer(m)
      BY <2>7, <3>2, <3>3, <3>4 DEF InTransfer
    <3>6. QED
      BY <2>5, <2>6, <2>7, <3>1, <3>5
  <2>13. QED
    BY <2>11, <2>12
<1>8. QED
  BY <1>6, <1>7

--------------------------------------------------------------------------------
(* The prefix of a sequence, by its keys.                                  *)
LEMMA PrefixKeys ==
  ASSUME NEW h \in Seq(Nat), NEW s \in Seq(Nat)
  PROVE  IsPrefix(h, s) <=> Len(h) <= Len(s) /\ \A i \in 1 .. Len(h) : h[i] = s[i]
<1> DEFINE n == Len(h)
           a == SubSeq(s, 1, n)
<1>1. n \in Nat /\ Len(s) \in Nat /\ SubSeq(h, 1, n) = h
  BY WholeSeq
<1>2. CASE n <= Len(s)
  <2>1. a \in Seq(Nat) /\ Len(a) = n /\ \A i \in 1 .. n : a[i] = s[i]
    BY <1>1, <1>2, FrontSeq
  <2>2. IsPrefix(h, s) <=> h = a
    BY <1>1, <1>2 DEF IsPrefix
  <2> HIDE DEF a
  <2>3. h = a <=> \A i \in 1 .. n : h[i] = a[i]
    BY <1>1, <2>1, SameSeq
  <2>4. QED
    BY <1>2, <2>1, <2>2, <2>3
<1>3. CASE ~(n <= Len(s))
  BY <1>1, <1>3 DEF IsPrefix
<1>4. QED
  BY <1>2, <1>3

(* A list is a prefix of itself with more behind it.                       *)
LEMMA PrefixCat ==
  ASSUME NEW h \in Seq(Nat), NEW s \in Seq(Nat)
  PROVE  IsPrefix(h, h \o s)
<1> DEFINE c == h \o s
<1>1. /\ c \in Seq(Nat) /\ Len(c) = Len(h) + Len(s)
      /\ \A i \in 1 .. Len(h) + Len(s) : c[i] = IF i <= Len(h) THEN h[i] ELSE s[i - Len(h)]
  BY CatSeq
<1>2. Len(h) \in Nat /\ Len(s) \in Nat
  OBVIOUS
<1> HIDE DEF c
<1>3. Len(h) <= Len(c) /\ \A i \in 1 .. Len(h) : h[i] = c[i]
  <2> DEFINE m == Len(h)
             n == Len(s)
  <2>1. \A i \in 1 .. m + n : c[i] = IF i <= m THEN h[i] ELSE s[i - m]
    BY <1>1
  <2>2. m \in Nat /\ n \in Nat /\ Len(c) = m + n
    BY <1>1, <1>2
  <2> HIDE DEF m, n
  <2>3. ASSUME NEW i \in 1 .. m PROVE h[i] = c[i]
    <3>1. i \in 1 .. m + n /\ i <= m
      BY <2>2
    <3>2. QED
      BY <2>1, <3>1
  <2>4. m <= Len(c)
    BY <2>2
  <2>5. QED
    BY <2>3, <2>4 DEF m
<1>4. IsPrefix(h, c)
  BY <1>1, <1>3, PrefixKeys
<1>5. QED
  BY <1>4 DEF c

(* It stays one when an item is appended, and when both lose the first.    *)
LEMMA PrefixAppend ==
  ASSUME NEW h \in Seq(Nat), NEW s \in Seq(Nat), NEW d \in Nat, IsPrefix(h, s)
  PROVE  IsPrefix(h, s \o <<d>>)
<1> DEFINE c == s \o <<d>>
           o == <<d>>
<1>1. o \in Seq(Nat) /\ Len(o) = 1
  OBVIOUS
<1>2. /\ c \in Seq(Nat) /\ Len(c) = Len(s) + Len(o)
      /\ \A i \in 1 .. Len(s) + Len(o) : c[i] = IF i <= Len(s) THEN s[i] ELSE o[i - Len(s)]
  BY <1>1, CatSeq
<1> HIDE DEF o
<1>3. Len(h) <= Len(s) /\ \A i \in 1 .. Len(h) : h[i] = s[i]
  BY PrefixKeys
<1>4. Len(h) \in Nat /\ Len(s) \in Nat
  OBVIOUS
<1> HIDE DEF c
<1>5. Len(h) <= Len(c) /\ \A i \in 1 .. Len(h) : h[i] = c[i]
  <2> DEFINE m == Len(h)
             n == Len(s)
  <2>1. \A i \in 1 .. n + 1 : c[i] = IF i <= n THEN s[i] ELSE o[i - n]
    BY <1>1, <1>2
  <2>2. m \in Nat /\ n \in Nat /\ Len(c) = n + 1 /\ m <= n
    BY <1>1, <1>2, <1>3, <1>4
  <2>3. \A i \in 1 .. m : h[i] = s[i]
    BY <1>3
  <2> HIDE DEF m, n
  <2>4. ASSUME NEW i \in 1 .. m PROVE h[i] = c[i]
    <3>1. i \in 1 .. n + 1 /\ i <= n
      BY <2>2
    <3>2. QED
      BY <2>1, <2>3, <3>1
  <2>5. m <= Len(c)
    BY <2>2
  <2>6. QED
    BY <2>4, <2>5 DEF m
<1>6. IsPrefix(h, c)
  BY <1>2, <1>5, PrefixKeys
<1>7. QED
  BY <1>6 DEF c, o

LEMMA TailSeq ==
  ASSUME NEW s \in Seq(Nat), Len(s) > 0
  PROVE  /\ Tail(s) \in Seq(Nat) /\ Len(Tail(s)) = Len(s) - 1
         /\ \A i \in 1 .. Len(s) - 1 : Tail(s)[i] = s[i + 1]
         /\ Head(s) \in Nat /\ Head(s) = s[1] /\ s = <<Head(s)>> \o Tail(s)
OBVIOUS

LEMMA PrefixTail ==
  ASSUME NEW h \in Seq(Nat), NEW s \in Seq(Nat), IsPrefix(h, s), Len(h) > 0
  PROVE  IsPrefix(Tail(h), Tail(s)) /\ s # <<>> /\ Head(h) = Head(s)
<1>1. Len(h) <= Len(s) /\ \A i \in 1 .. Len(h) : h[i] = s[i]
  BY PrefixKeys
<1>2. Len(h) \in Nat /\ Len(s) \in Nat /\ Len(s) > 0
  BY <1>1
<1> DEFINE th == Tail(h)
           ts == Tail(s)
<1>3. th \in Seq(Nat) /\ Len(th) = Len(h) - 1 /\ (\A i \in 1 .. Len(h) - 1 : th[i] = h[i + 1]) /\ Head(h) = h[1]
  BY TailSeq
<1>4. ts \in Seq(Nat) /\ Len(ts) = Len(s) - 1 /\ (\A i \in 1 .. Len(s) - 1 : ts[i] = s[i + 1]) /\ Head(s) = s[1]
  BY <1>2, TailSeq
<1> HIDE DEF th, ts
<1>5. Len(th) <= Len(ts)
  BY <1>1, <1>2, <1>3, <1>4
<1>6. ASSUME NEW i \in 1 .. Len(th) PROVE th[i] = ts[i]
  <2>1. i \in 1 .. Len(h) - 1 /\ i \in 1 .. Len(s) - 1 /\ i + 1 \in 1 .. Len(h)
    BY <1>1, <1>2, <1>3
  <2>2. QED
    BY <1>1, <1>3, <1>4, <2>1
<1>7. IsPrefix(th, ts)
  BY <1>3, <1>4, <1>5, <1>6, PrefixKeys
<1>8. h[1] = s[1]
  BY <1>1, <1>2
<1>9. QED
  BY <1>2, <1>3, <1>4, <1>7, <1>8 DEF th, ts

(* The first step of a transfer.                                           *)
Started(head, n, tail, new) == StartTransfer(CellQueueRev(head, n, tail, new))

LEMMA StartStep ==
  ASSUME NEW head \in Seq(Nat), NEW tail \in Seq(Nat), NEW new \in Seq(Nat), NEW n \in Nat,
         n >= 2, Len(head) = n, Len(tail) = n, Len(new) = 1
  PROVE  /\ Started(head, n, tail, new) \in RevQueue /\ InTransfer(Started(head, n, tail, new))
         /\ Started(head, n, tail, new).head = head /\ Started(head, n, tail, new).tail = <<>>
         /\ Started(head, n, tail, new).nhead = n /\ Started(head, n, tail, new).ntail = 0
         /\ TransferTarget(Started(head, n, tail, new)) = (head \o Reverse(tail)) \o new
<1>0. PICK r : r = Started(head, n, tail, new)
  OBVIOUS
<1>1. PICK q : q = CellQueueRev(head, n, tail, new)
  OBVIOUS
<1>2. q \in RevQueue
  <2>1. <<>> \in Seq(Nat) /\ 0 \in Nat
    OBVIOUS
  <2>2. QED
    BY <1>1, <2>1 DEF CellQueueRev, RevQueue
<1>3. /\ q.type = "CELL_queue_rev" /\ q.head = head /\ q.tail = <<>> /\ q.nhead = n /\ q.ntail = 0
      /\ q.oldHead = head /\ q.revHead = <<>> /\ q.oldTail = tail /\ q.newHead = new
      /\ q.moved = 0 /\ q.started = n
  BY <1>1 DEF CellQueueRev
<1> DEFINE k == 2 + (n % 2)
<1>4. k \in Nat /\ k <= n /\ n - (n % 2) - 2 = n - k
  BY PhaseBound
<1>5. r = ReverseBoth(q, k)
  BY <1>0, <1>1, <1>3 DEF StartTransfer, Started
<1> HIDE DEF k
<1>6. k <= Len(q.oldHead) /\ k <= Len(q.oldTail)
  BY <1>3, <1>4
<1>7. r \in RevQueue
  BY <1>2, <1>4, <1>5, <1>6, ReverseBothType
<1>8. /\ r.head = head /\ r.tail = <<>> /\ r.nhead = n /\ r.ntail = 0 /\ r.moved = 0 /\ r.started = n
      /\ r.oldHead = SubSeq(head, k + 1, Len(head)) /\ r.revHead = Reverse(SubSeq(head, 1, k)) \o <<>>
      /\ r.oldTail = SubSeq(tail, k + 1, Len(tail)) /\ r.newHead = Reverse(SubSeq(tail, 1, k)) \o new
  <2>1. /\ r.head = q.head /\ r.tail = q.tail /\ r.nhead = q.nhead /\ r.ntail = q.ntail
        /\ r.moved = q.moved /\ r.started = q.started
        /\ r.oldHead = SubSeq(q.oldHead, k + 1, Len(q.oldHead))
        /\ r.revHead = Reverse(SubSeq(q.oldHead, 1, k)) \o q.revHead
        /\ r.oldTail = SubSeq(q.oldTail, k + 1, Len(q.oldTail))
        /\ r.newHead = Reverse(SubSeq(q.oldTail, 1, k)) \o q.newHead
    <3>1. q \in RevQueue /\ k \in Nat
      BY <1>2, <1>4
    <3> DEFINE b == ReverseBoth(q, k)
    <3>2. /\ b.head = q.head /\ b.tail = q.tail /\ b.nhead = q.nhead /\ b.ntail = q.ntail
          /\ b.moved = q.moved /\ b.started = q.started
          /\ b.oldHead = SubSeq(q.oldHead, k + 1, Len(q.oldHead))
          /\ b.revHead = Reverse(SubSeq(q.oldHead, 1, k)) \o q.revHead
          /\ b.oldTail = SubSeq(q.oldTail, k + 1, Len(q.oldTail))
          /\ b.newHead = Reverse(SubSeq(q.oldTail, 1, k)) \o q.newHead
      BY <3>1, ReverseBothFields
    <3>3. r = b
      BY <1>5
    <3> HIDE DEF b
    <3>4. QED
      BY <3>2, <3>3
  <2>2. QED
    BY <1>3, <2>1, Zenon
<1>9. Len(r.oldHead) = n - k /\ Len(r.revHead) = k
  <2>1. <<>> \in Seq(Nat) /\ Len(<<>>) = 0
    OBVIOUS
  <2>2. /\ Len(SubSeq(head, k + 1, Len(head))) = Len(head) - k
        /\ Len(Reverse(SubSeq(head, 1, k)) \o <<>>) = k + Len(<<>>)
    <3>1. PICK e \in Seq(Nat) : e = <<>>
      BY <2>1
    <3>2. /\ Len(SubSeq(head, k + 1, Len(head))) = Len(head) - k
          /\ Len(Reverse(SubSeq(head, 1, k)) \o e) = k + Len(e)
      BY <1>4, MoveKeys
    <3>3. QED
      BY <3>1, <3>2
  <2>3. k + Len(<<>>) = k
    BY <1>4, <2>1
  <2>4. QED
    BY <1>8, <2>2, <2>3
<1>10. Len(r.oldTail) = n - k /\ Len(r.newHead) = k + 1
  <2>1. /\ Len(SubSeq(tail, k + 1, Len(tail))) = Len(tail) - k
        /\ Len(Reverse(SubSeq(tail, 1, k)) \o new) = k + Len(new)
    BY <1>4, MoveKeys, ZenonT(60)
  <2>2. QED
    BY <1>8, <2>1
<1>11. KeysKept(r)
  <2>1. k + (n - k) + 0 = n /\ (k + 1) + (n - k) = 1 + n + 0
    BY <1>4
  <2>2. QED
    BY <1>8, <1>9, <1>10, <2>1 DEF KeysKept
<1>12. Progress(r, Steps(r))
  <2>1. Steps(r) = 0 /\ FirstPhase(r) = n - k
    BY <1>4, <1>8 DEF Steps, FirstPhase
  <2>2. Len(r.oldHead) + 2 * 0 = n - k
    BY <1>4, <1>9
  <2>3. r.started >= 2 /\ r.nhead <= r.started /\ r.moved = 0 /\ ~(r.moved > 0)
    BY <1>8
  <2>4. QED
    BY <2>1, <2>2, <2>3 DEF Progress
<1>13. InTransfer(r)
  BY <1>8, <1>11, <1>12 DEF InTransfer
<1>14. TransferTarget(q) = (head \o Reverse(tail)) \o new
  <2> DEFINE rh == Reverse(head)
  <2>1. rh \in Seq(Nat) /\ Len(rh) = n /\ Reverse(rh) = head
    BY ReverseSeq, ReverseTwice
  <2> HIDE DEF rh
  <2>2. rh \o <<>> = rh /\ SubSeq(rh, 1, Len(rh)) = rh
    BY <2>1, CatSeq, WholeSeq
  <2>3. TransferTarget(q) = (Reverse(SubSeq(rh \o <<>>, 1, n - 0)) \o Reverse(tail)) \o new
    BY <1>2, <1>3, TargetOf DEF rh
  <2>4. n - 0 = Len(rh)
    BY <2>1
  <2>5. QED
    BY <2>1, <2>2, <2>3, <2>4
<1>15. TransferTarget(r) = TransferTarget(q)
  <2>1. q.moved <= q.nhead /\ q.nhead <= Len(q.oldHead) + Len(q.revHead) + q.moved
    BY <1>3
  <2>2. QED
    BY <1>2, <1>4, <1>5, <1>6, <2>1, ReverseBothTarget
<1>16. QED
  BY <1>0, <1>7, <1>8, <1>13, <1>14, <1>15

(* An insertion and a removal during a transfer, before its next step.     *)
LEMMA RevInsert ==
  ASSUME NEW q \in RevQueue, InTransfer(q), NEW d \in Nat,
         NEW r, r = [q EXCEPT !.tail = <<d>> \o @, !.ntail = @ + 1]
  PROVE  /\ r \in RevQueue /\ KeysKept(r) /\ Progress(r, Steps(r) - 1) /\ r.moved <= r.nhead
         /\ r.tail = <<d>> \o q.tail /\ r.ntail = q.ntail + 1 /\ r.head = q.head /\ r.nhead = q.nhead
         /\ TransferTarget(r) = TransferTarget(q)
<1>1. /\ r.tail = <<d>> \o q.tail /\ r.ntail = q.ntail + 1 /\ r.head = q.head /\ r.nhead = q.nhead
      /\ r.oldHead = q.oldHead /\ r.revHead = q.revHead /\ r.oldTail = q.oldTail /\ r.newHead = q.newHead
      /\ r.moved = q.moved /\ r.started = q.started
  BY DEF RevQueue
<1>2. r \in RevQueue
  <2> DEFINE tl == <<d>> \o q.tail
  <2>1. <<d>> \in Seq(Nat) /\ q.tail \in Seq(Nat) /\ q.ntail + 1 \in Nat
    BY DEF RevQueue
  <2>2. tl \in Seq(Nat)
    BY <2>1, CatSeq
  <2>3. r = [q EXCEPT !.tail = tl, !.ntail = q.ntail + 1]
    BY DEF RevQueue
  <2> HIDE DEF tl
  <2>4. QED
    BY <2>1, <2>2, <2>3 DEF RevQueue
<1>3. q.ntail \in Nat /\ q.nhead \in Nat /\ q.started \in Nat /\ q.moved \in Nat
  BY DEF RevQueue
<1>4. Steps(r) - 1 = Steps(q) /\ FirstPhase(r) = FirstPhase(q)
  BY <1>1, <1>3 DEF Steps, FirstPhase
<1>5. KeysKept(r)
  BY <1>1 DEF InTransfer, KeysKept
<1>6. Progress(r, Steps(r) - 1)
  BY <1>1, <1>4 DEF InTransfer, Progress
<1>7. r.moved <= r.nhead
  BY <1>1, <1>3 DEF InTransfer
<1>8. TransferTarget(r) = TransferTarget(q)
  BY <1>1, <1>2, TargetOf
<1>9. QED
  BY <1>1, <1>2, <1>5, <1>6, <1>7, <1>8

(* The last key of a front part is the first one in reverse.               *)
LEMMA ReverseFront ==
  ASSUME NEW s \in Seq(Nat), NEW c \in Nat, c > 0, c <= Len(s)
  PROVE  /\ s[c] \in Nat /\ Reverse(SubSeq(s, 1, c - 1)) \in Seq(Nat)
         /\ Reverse(SubSeq(s, 1, c)) = <<s[c]>> \o Reverse(SubSeq(s, 1, c - 1))
<1> DEFINE k == c - 1
           a == SubSeq(s, 1, k)
           b == SubSeq(s, k + 1, c)
<1>1. k \in Nat /\ k <= c /\ k <= Len(s) /\ k + 1 = c
  OBVIOUS
<1> HIDE DEF k
<1>2. a \in Seq(Nat) /\ a \o b = SubSeq(s, 1, c)
  BY <1>1, FrontSeq, CutSeq
<1>3. b = <<s[c]>> /\ s[c] \in Nat /\ b \in Seq(Nat)
  <2>1. SubSeq(s, c, c) = <<s[c]>> /\ s[c] \in Nat
    <3> DEFINE e == SubSeq(s, c, c)
    <3>1. c \in Nat \ {0} /\ c <= c + 1 /\ c + 1 - c = 1 /\ 1 + c - 1 = c /\ c \in 1 .. Len(s)
      OBVIOUS
    <3>2. e \in Seq(Nat) /\ Len(e) = c + 1 - c /\ \A i \in 1 .. c + 1 - c : e[i] = s[i + c - 1]
      BY <3>1, SubSeqSeq
    <3>3. s[c] \in Nat
      BY <3>1
    <3> HIDE DEF e
    <3>4. Len(e) = 1 /\ e[1] = s[c]
      BY <3>1, <3>2
    <3>5. \A i \in 1 .. Len(e) : e[i] = <<s[c]>>[i]
      BY <3>4
    <3>6. <<s[c]>> \in Seq(Nat) /\ Len(<<s[c]>>) = 1
      BY <3>3
    <3>7. e = <<s[c]>>
      BY <3>2, <3>4, <3>5, <3>6, SameSeq
    <3>8. QED
      BY <3>3, <3>7 DEF e
  <2>2. QED
    BY <1>1, <2>1
<1>4. Reverse(b) = <<s[c]>>
  BY <1>3, ReverseSmall
<1> HIDE DEF a, b
<1>5. Reverse(a \o b) = Reverse(b) \o Reverse(a) /\ Reverse(a) \in Seq(Nat)
  BY <1>2, <1>3, ReverseCat, ReverseSeq
<1>6. QED
  BY <1>2, <1>3, <1>4, <1>5 DEF a, k

LEMMA RevRemove ==
  ASSUME NEW q \in RevQueue, InTransfer(q), Len(q.head) > 0,
         NEW r, r = [q EXCEPT !.head = Tail(@), !.nhead = @ - 1]
  PROVE  /\ r \in RevQueue /\ KeysKept(r) /\ Progress(r, Steps(r) - 1) /\ r.moved <= r.nhead
         /\ r.tail = q.tail /\ r.ntail = q.ntail /\ r.head = Tail(q.head) /\ r.nhead = q.nhead - 1
         /\ TransferTarget(r) \in Seq(Nat)
         /\ \E x \in Nat : TransferTarget(q) = <<x>> \o TransferTarget(r)
<1>1. /\ r.tail = q.tail /\ r.ntail = q.ntail /\ r.head = Tail(q.head) /\ r.nhead = q.nhead - 1
      /\ r.oldHead = q.oldHead /\ r.revHead = q.revHead /\ r.oldTail = q.oldTail /\ r.newHead = q.newHead
      /\ r.moved = q.moved /\ r.started = q.started
  BY DEF RevQueue
<1>2. /\ q.ntail \in Nat /\ q.nhead \in Nat /\ q.started \in Nat /\ q.moved \in Nat /\ q.moved < q.nhead
      /\ q.oldHead \in Seq(Nat) /\ q.revHead \in Seq(Nat) /\ q.oldTail \in Seq(Nat) /\ q.newHead \in Seq(Nat)
      /\ q.head \in Seq(Nat)
  BY DEF RevQueue, InTransfer
<1>3. r \in RevQueue
  <2>1. Tail(q.head) \in Seq(Nat) /\ q.nhead - 1 \in Nat
    BY <1>2, TailSeq
  <2>2. QED
    BY <2>1 DEF RevQueue
<1>4. Steps(r) - 1 = Steps(q) /\ FirstPhase(r) = FirstPhase(q)
  <2> DEFINE a == q.ntail
             b == q.started
             h == q.nhead
  <2>1. Steps(q) = a + b - h /\ Steps(r) = a + b - (h - 1)
    BY <1>1 DEF Steps
  <2>2. a \in Nat /\ b \in Nat /\ h \in Nat
    BY <1>2
  <2> HIDE DEF a, b, h
  <2>3. Steps(r) - 1 = Steps(q)
    BY <2>1, <2>2
  <2>4. QED
    BY <1>1, <2>3 DEF FirstPhase
<1>5. KeysKept(r)
  BY <1>1 DEF InTransfer, KeysKept
<1>6. Progress(r, Steps(r) - 1)
  <2>1. r.nhead <= r.started
    BY <1>1, <1>2 DEF InTransfer, Progress
  <2>2. QED
    BY <1>1, <1>4, <2>1 DEF InTransfer, Progress
<1>7. r.moved <= r.nhead
  BY <1>1, <1>2
<1> DEFINE x == Reverse(q.oldHead) \o q.revHead
           c == q.nhead - q.moved
           ro == Reverse(q.oldTail)
<1>8. x \in Seq(Nat) /\ Len(x) = Len(q.oldHead) + Len(q.revHead) /\ ro \in Seq(Nat)
  <2> DEFINE oh == Reverse(q.oldHead)
  <2>1. oh \in Seq(Nat) /\ Len(oh) = Len(q.oldHead) /\ ro \in Seq(Nat)
    BY <1>2, ReverseSeq
  <2> HIDE DEF oh
  <2>2. oh \o q.revHead \in Seq(Nat) /\ Len(oh \o q.revHead) = Len(oh) + Len(q.revHead)
    BY <1>2, <2>1, CatSeq
  <2>3. QED
    BY <2>1, <2>2 DEF oh
<1>9. c \in Nat /\ c > 0 /\ c <= Len(x)
  <2> DEFINE i == Len(q.oldHead)
             j == Len(q.revHead)
             h == q.nhead
             mv == q.moved
             st == q.started
  <2>1. i \in Nat /\ j \in Nat /\ h \in Nat /\ mv \in Nat /\ st \in Nat /\ mv < h
    BY <1>2
  <2>2. j + i + mv = st /\ h <= st
    BY DEF InTransfer, KeysKept, Progress
  <2>3. Len(x) = i + j /\ c = h - mv
    BY <1>8
  <2> HIDE DEF i, j, h, mv, st, c, x
  <2>4. QED
    BY <2>1, <2>2, <2>3
<1>10. r.nhead - r.moved = c - 1
  BY <1>1, <1>2
<1> DEFINE f == Reverse(SubSeq(x, 1, c - 1))
<1>11. TransferTarget(q) = (Reverse(SubSeq(x, 1, c)) \o ro) \o q.newHead
  BY TargetOf
<1>12. TransferTarget(r) = (f \o ro) \o q.newHead
  BY <1>1, <1>3, <1>10, TargetOf
<1> HIDE DEF x, c, ro
<1>13. x[c] \in Nat /\ f \in Seq(Nat) /\ Reverse(SubSeq(x, 1, c)) = <<x[c]>> \o f
  BY <1>8, <1>9, ReverseFront
<1> HIDE DEF f
<1> DEFINE o == <<x[c]>>
<1>14. o \in Seq(Nat) /\ f \o ro \in Seq(Nat) /\ (f \o ro) \o q.newHead \in Seq(Nat)
  <2>1. o \in Seq(Nat)
    BY <1>13
  <2>2. f \o ro \in Seq(Nat)
    BY <1>8, <1>13, CatSeq
  <2>3. QED
    BY <1>2, <2>1, <2>2, CatSeq
<1> HIDE DEF o
<1>15. ((o \o f) \o ro) \o q.newHead = o \o ((f \o ro) \o q.newHead)
  <2>1. (o \o f) \o ro = o \o (f \o ro)
    BY <1>8, <1>13, <1>14, CatAssoc, ZenonT(60)
  <2> DEFINE g == f \o ro
  <2>2. (o \o g) \o q.newHead = o \o (g \o q.newHead)
    <3>1. g \in Seq(Nat) /\ o \in Seq(Nat) /\ q.newHead \in Seq(Nat)
      BY <1>2, <1>14
    <3> HIDE DEF g
    <3>2. QED
      BY <3>1, CatAssoc
  <2>3. QED
    BY <2>1, <2>2
<1>16. TransferTarget(q) = <<x[c]>> \o TransferTarget(r)
  BY <1>11, <1>12, <1>13, <1>15 DEF o
<1>17. QED
  BY <1>1, <1>3, <1>5, <1>6, <1>7, <1>12, <1>13, <1>14, <1>16

--------------------------------------------------------------------------------
(* The operations.                                                         *)

LEMMA PlainFacts ==
  ASSUME NEW q \in PlainQueue, NEW s, Held(q, s)
  PROVE  /\ q.head \in Seq(Nat) /\ q.tail \in Seq(Nat) /\ Reverse(q.tail) \in Seq(Nat)
         /\ s = q.head \o Reverse(q.tail) /\ s \in Seq(Nat)
         /\ q.nhead \in Nat /\ q.ntail \in Nat /\ q.nhead > 0
         /\ q.nhead = Len(q.head) /\ q.ntail = Len(q.tail)
         /\ q # QueueEmpty /\ q.type = "CELL_queue"
<1>1. q.head \in Seq(Nat) /\ q.tail \in Seq(Nat) /\ q.type = "CELL_queue" /\ q.nhead \in Nat /\ q.ntail \in Nat
  BY DEF PlainQueue
<1>2. q # QueueEmpty
  BY <1>1 DEF QueueEmpty
<1>3. TransferTarget(q) = q.head
  BY <1>1 DEF TransferTarget
<1>4. s = q.head \o Reverse(q.tail) /\ q.nhead > 0 /\ q.nhead = Len(q.head) /\ q.ntail = Len(q.tail)
  BY <1>3 DEF Held
<1>5. Reverse(q.tail) \in Seq(Nat)
  BY <1>1, ReverseSeq
<1>6. s \in Seq(Nat)
  BY <1>1, <1>4, <1>5, CatSeq
<1>7. QED
  BY <1>1, <1>2, <1>4, <1>5, <1>6

(* A queue cell of the two lists holds them.                               *)
LEMMA PlainHolds ==
  ASSUME NEW h \in Seq(Nat), NEW t \in Seq(Nat), NEW m \in Nat, NEW n \in Nat,
         m = Len(h), n = Len(t), m > 0, n <= m
  PROVE  GoodQueue(CellQueue(h, t, m, n), h \o Reverse(t))
<1>1. PICK q : q = CellQueue(h, t, m, n)
  OBVIOUS
<1>2. q \in PlainQueue
  BY <1>1 DEF CellQueue, PlainQueue
<1>3. q.type = "CELL_queue" /\ q.head = h /\ q.tail = t /\ q.nhead = m /\ q.ntail = n
  BY <1>1 DEF CellQueue
<1>4. TransferTarget(q) = h
  BY <1>3 DEF TransferTarget
<1>5. Reverse(t) \in Seq(Nat)
  BY ReverseSeq
<1>6. IsPrefix(h, h \o Reverse(t))
  BY <1>5, PrefixCat
<1>7. Held(q, h \o Reverse(t))
  BY <1>3, <1>4, <1>6 DEF Held
<1>8. q.ntail <= q.nhead
  BY <1>3
<1>9. QED
  BY <1>1, <1>2, <1>7, <1>8 DEF GoodQueue

(* So does one in its first step of a transfer.                            *)
LEMMA StartHolds ==
  ASSUME NEW head \in Seq(Nat), NEW tail \in Seq(Nat), NEW d \in Nat, NEW n \in Nat,
         n >= 2, Len(head) = n, Len(tail) = n
  PROVE  GoodQueue(StartTransfer(CellQueueRev(head, n, tail, <<d>>)), (head \o Reverse(tail)) \o <<d>>)
<1>1. PICK new \in Seq(Nat) : new = <<d>> /\ Len(new) = 1
  <2>1. <<d>> \in Seq(Nat) /\ Len(<<d>>) = 1
    OBVIOUS
  <2>2. QED
    BY <2>1, Zenon
<1>2. PICK r : r = StartTransfer(CellQueueRev(head, n, tail, new))
  OBVIOUS
<1>3. /\ r \in RevQueue /\ InTransfer(r)
      /\ r.head = head /\ r.tail = <<>> /\ r.nhead = n /\ r.ntail = 0
      /\ TransferTarget(r) = (head \o Reverse(tail)) \o new
  <2>1. Len(new) = 1
    BY <1>1
  <2> DEFINE b == Started(head, n, tail, new)
  <2>2. /\ b \in RevQueue /\ InTransfer(b)
        /\ b.head = head /\ b.tail = <<>> /\ b.nhead = n /\ b.ntail = 0
        /\ TransferTarget(b) = (head \o Reverse(tail)) \o new
    <3>1. b \in RevQueue
      BY <2>1, StartStep
    <3>2. InTransfer(b)
      BY <2>1, StartStep
    <3>3. b.head = head /\ b.nhead = n
      BY <2>1, StartStep
    <3>4. b.tail = <<>> /\ b.ntail = 0
      BY <2>1, StartStep
    <3>5. TransferTarget(b) = (head \o Reverse(tail)) \o new
      BY <2>1, StartStep, ZenonT(60)
    <3>6. QED
      BY <3>1, <3>2, <3>3, <3>4, <3>5
  <2>3. r = b
    BY <1>2 DEF Started
  <2> HIDE DEF b
  <2>4. QED
    BY <2>2, <2>3
<1> DEFINE rt == Reverse(tail)
           s == (head \o rt) \o new
<1>4. rt \in Seq(Nat)
  BY ReverseSeq
<1> HIDE DEF rt
<1>5. head \o rt \in Seq(Nat) /\ rt \o new \in Seq(Nat)
  BY <1>4, CatSeq
<1>6. s \in Seq(Nat) /\ s = head \o (rt \o new)
  <2>1. (head \o rt) \o new = head \o (rt \o new)
    BY <1>4, CatAssoc, ZenonT(60)
  <2>2. (head \o rt) \o new \in Seq(Nat)
    BY <1>5, CatSeq
  <2>3. QED
    BY <2>1, <2>2
<1>7. IsPrefix(head, s)
  <2>1. IsPrefix(head, head \o (rt \o new))
    BY <1>5, PrefixCat
  <2>2. QED
    BY <1>6, <2>1
<1> HIDE DEF s
<1>8. s \o Reverse(<<>>) = s
  BY <1>6, ReverseSmall, CatSeq
<1>9. r.nhead = Len(r.head) /\ r.ntail = Len(r.tail) /\ r.nhead > 0
  <2>1. Len(<<>>) = 0
    OBVIOUS
  <2>2. QED
    BY <1>3, <2>1
<1>10. TransferTarget(r) = s
  BY <1>3 DEF s, rt
<1>11. Held(r, s)
  BY <1>3, <1>7, <1>8, <1>9, <1>10 DEF Held
<1>12. GoodQueue(r, s)
  BY <1>3, <1>11 DEF GoodQueue
<1>13. QED
  BY <1>1, <1>2, <1>12 DEF s, rt

(* A step of a transfer leaves the items alone.                            *)
LEMMA TransferHolds ==
  ASSUME NEW q \in RevQueue, KeysKept(q), Progress(q, Steps(q) - 1), q.moved <= q.nhead,
         NEW s, s = TransferTarget(q) \o Reverse(q.tail), TransferTarget(q) \in Seq(Nat),
         q.nhead = Len(q.head), q.ntail = Len(q.tail), IsPrefix(q.head, s)
  PROVE  GoodQueue(Transfer(q), s)
<1>1. PICK r : r = Transfer(q)
  OBVIOUS
<1> DEFINE Stays == /\ r \in RevQueue /\ InTransfer(r)
                    /\ r.head = q.head /\ r.tail = q.tail
                    /\ r.nhead = q.nhead /\ r.ntail = q.ntail
                    /\ TransferTarget(r) = TransferTarget(q)
           Ends == /\ r \in PlainQueue
                   /\ r.head = TransferTarget(q) /\ r.tail = q.tail
                   /\ r.nhead = Len(r.head) /\ r.nhead > 0
                   /\ r.ntail = q.ntail /\ r.ntail <= r.nhead
<1>2. Stays \/ Ends
  BY <1>1, TransferStep
<1>3. CASE Stays
  <2>1. r.nhead > 0
    <3>1. r.nhead \in Nat /\ r.moved \in Nat
      BY <1>3 DEF RevQueue
    <3>2. r.moved < r.nhead
      BY <1>3 DEF InTransfer
    <3> HIDE DEF Stays
    <3>3. QED
      BY <3>1, <3>2
  <2>2. Held(r, s)
    <3>1. s = TransferTarget(r) \o Reverse(r.tail)
      BY <1>3
    <3>2. r.nhead = Len(r.head) /\ r.ntail = Len(r.tail) /\ IsPrefix(r.head, s)
      BY <1>3
    <3>3. QED
      BY <2>1, <3>1, <3>2 DEF Held
  <2>3. QED
    BY <1>1, <1>3, <2>2 DEF GoodQueue
<1>4. CASE Ends
  <2>1. TransferTarget(r) = r.head
    BY <1>4 DEF TransferTarget, PlainQueue
  <2>2. Reverse(q.tail) \in Seq(Nat)
    BY ReverseSeq DEF RevQueue
  <2>3. IsPrefix(r.head, s)
    <3>1. IsPrefix(TransferTarget(q), TransferTarget(q) \o Reverse(q.tail))
      BY <2>2, PrefixCat
    <3>2. QED
      BY <1>4, <3>1
  <2>4. Held(r, s)
    BY <1>4, <2>1, <2>3 DEF Held
  <2>5. QED
    BY <1>1, <1>4, <2>4 DEF GoodQueue
<1>5. QED
  BY <1>2, <1>3, <1>4

LEMMA RevTarget ==
  ASSUME NEW q \in RevQueue, InTransfer(q)
  PROVE  TransferTarget(q) \in Seq(Nat)
<1>1. /\ q.oldHead \in Seq(Nat) /\ q.revHead \in Seq(Nat) /\ q.oldTail \in Seq(Nat) /\ q.newHead \in Seq(Nat)
      /\ q.nhead \in Nat /\ q.moved \in Nat /\ q.started \in Nat
  BY DEF RevQueue
<1> DEFINE oh == Reverse(q.oldHead)
           x == oh \o q.revHead
           c == q.nhead - q.moved
           ro == Reverse(q.oldTail)
<1>2. oh \in Seq(Nat) /\ Len(oh) = Len(q.oldHead) /\ ro \in Seq(Nat)
  BY <1>1, ReverseSeq
<1> HIDE DEF oh, ro
<1>3. x \in Seq(Nat) /\ Len(x) = Len(q.oldHead) + Len(q.revHead)
  <2>1. x \in Seq(Nat) /\ Len(x) = Len(oh) + Len(q.revHead)
    BY <1>1, <1>2, CatSeq
  <2>2. QED
    BY <1>2, <2>1
<1> HIDE DEF x
<1>4. c \in Nat /\ c <= Len(x)
  <2> DEFINE i == Len(q.oldHead)
             j == Len(q.revHead)
             h == q.nhead
             mv == q.moved
             st == q.started
  <2>1. i \in Nat /\ j \in Nat /\ h \in Nat /\ mv \in Nat /\ st \in Nat
    BY <1>1
  <2>2. j + i + mv = st /\ h <= st /\ mv < h
    BY DEF InTransfer, KeysKept, Progress
  <2>3. Len(x) = i + j /\ c = h - mv
    BY <1>3
  <2> HIDE DEF i, j, h, mv, st, c
  <2>4. QED
    BY <2>1, <2>2, <2>3
<1> HIDE DEF c
<1> DEFINE f == SubSeq(x, 1, c)
<1>5. f \in Seq(Nat)
  BY <1>3, <1>4, FrontSeq
<1>6. TransferTarget(q) = (Reverse(f) \o ro) \o q.newHead
  BY TargetOf DEF c, ro, x, oh
<1> HIDE DEF f
<1>7. Reverse(f) \in Seq(Nat)
  BY <1>5, ReverseSeq
<1>8. Reverse(f) \o ro \in Seq(Nat)
  BY <1>2, <1>7, CatSeq
<1>9. QED
  BY <1>1, <1>6, <1>8, CatSeq

(* Lists of one and of two keys.                                           *)
LEMMA ShortSeq ==
  ASSUME NEW s \in Seq(Nat)
  PROVE  /\ Len(s) = 1 => s[1] \in Nat /\ s = <<s[1]>> /\ Head(s) = s[1]
         /\ Len(s) = 2 => s[1] \in Nat /\ s[2] \in Nat /\ s = <<s[1], s[2]>>
OBVIOUS

LEMMA ShortCat ==
  ASSUME NEW a \in Nat, NEW b \in Nat, NEW c \in Nat
  PROVE  /\ <<a>> \o <<b>> = <<a, b>> /\ <<a, b>> \o <<c>> = <<a, b, c>>
         /\ Tail(<<a, b>>) = <<b>> /\ Tail(<<a>>) = <<>>
<1>1. PICK o \in Seq(Nat) : o = <<a>> /\ Len(o) = 1 /\ o[1] = a
  <2>1. <<a>> \in Seq(Nat) /\ Len(<<a>>) = 1 /\ <<a>>[1] = a
    OBVIOUS
  <2>2. QED
    BY <2>1, Zenon
<1>2. PICK p \in Seq(Nat) : p = <<b>> /\ Len(p) = 1 /\ p[1] = b
  <2>1. <<b>> \in Seq(Nat) /\ Len(<<b>>) = 1 /\ <<b>>[1] = b
    OBVIOUS
  <2>2. QED
    BY <2>1, Zenon
<1>3. PICK r \in Seq(Nat) : r = <<c>> /\ Len(r) = 1 /\ r[1] = c
  <2>1. <<c>> \in Seq(Nat) /\ Len(<<c>>) = 1 /\ <<c>>[1] = c
    OBVIOUS
  <2>2. QED
    BY <2>1, Zenon
<1>4. PICK w \in Seq(Nat) : w = <<a, b>> /\ Len(w) = 2 /\ w[1] = a /\ w[2] = b
  <2>1. <<a, b>> \in Seq(Nat) /\ Len(<<a, b>>) = 2 /\ <<a, b>>[1] = a /\ <<a, b>>[2] = b
    OBVIOUS
  <2>2. QED
    BY <2>1, Zenon
<1>5. PICK x \in Seq(Nat) : x = <<a, b, c>> /\ Len(x) = 3 /\ x[1] = a /\ x[2] = b /\ x[3] = c
  <2>1. /\ <<a, b, c>> \in Seq(Nat) /\ Len(<<a, b, c>>) = 3
        /\ <<a, b, c>>[1] = a /\ <<a, b, c>>[2] = b /\ <<a, b, c>>[3] = c
    OBVIOUS
  <2>2. QED
    BY <2>1, Zenon
<1>6. o \o p = w
  <2> DEFINE z == o \o p
  <2>1. z \in Seq(Nat) /\ Len(z) = 2 /\ \A i \in 1 .. 2 : z[i] = IF i <= 1 THEN o[i] ELSE p[i - 1]
    BY <1>1, <1>2, CatSeq
  <2> HIDE DEF z
  <2>2. \A i \in 1 .. Len(z) : z[i] = w[i]
    BY <1>1, <1>2, <1>4, <2>1
  <2>3. z = w
    BY <1>4, <2>1, <2>2, SameSeq
  <2>4. QED
    BY <2>3 DEF z
<1>7. w \o r = x
  <2> DEFINE z == w \o r
  <2>1. z \in Seq(Nat) /\ Len(z) = 3 /\ \A i \in 1 .. 3 : z[i] = IF i <= 2 THEN w[i] ELSE r[i - 2]
    BY <1>3, <1>4, CatSeq
  <2> HIDE DEF z
  <2>2. \A i \in 1 .. Len(z) : z[i] = x[i]
    BY <1>3, <1>4, <1>5, <2>1
  <2>3. z = x
    BY <1>5, <2>1, <2>2, SameSeq
  <2>4. QED
    BY <2>3 DEF z
<1>8. Tail(<<a, b>>) = <<b>> /\ Tail(<<a>>) = <<>>
  OBVIOUS
<1>9. QED
  BY <1>1, <1>2, <1>3, <1>4, <1>5, <1>6, <1>7, <1>8

LEMMA TwoAndTwo ==
  ASSUME NEW a \in Nat, NEW b \in Nat, NEW c \in Nat, NEW d \in Nat
  PROVE  <<a, b>> \o <<c, d>> = <<a, b, c, d>>
<1>1. PICK w \in Seq(Nat) : w = <<a, b>> /\ Len(w) = 2 /\ w[1] = a /\ w[2] = b
  <2>1. <<a, b>> \in Seq(Nat) /\ Len(<<a, b>>) = 2 /\ <<a, b>>[1] = a /\ <<a, b>>[2] = b
    OBVIOUS
  <2>2. QED
    BY <2>1, Zenon
<1>2. PICK v \in Seq(Nat) : v = <<c, d>> /\ Len(v) = 2 /\ v[1] = c /\ v[2] = d
  <2>1. <<c, d>> \in Seq(Nat) /\ Len(<<c, d>>) = 2 /\ <<c, d>>[1] = c /\ <<c, d>>[2] = d
    OBVIOUS
  <2>2. QED
    BY <2>1, Zenon
<1>3. PICK y \in Seq(Nat) : y = <<a, b, c, d>> /\ Len(y) = 4 /\ y[1] = a /\ y[2] = b /\ y[3] = c /\ y[4] = d
  <2>1. /\ <<a, b, c, d>> \in Seq(Nat) /\ Len(<<a, b, c, d>>) = 4
        /\ <<a, b, c, d>>[1] = a /\ <<a, b, c, d>>[2] = b /\ <<a, b, c, d>>[3] = c /\ <<a, b, c, d>>[4] = d
    OBVIOUS
  <2>2. QED
    BY <2>1, Zenon
<1>4. w \o v = y
  <2> DEFINE z == w \o v
  <2>1. z \in Seq(Nat) /\ Len(z) = 4 /\ \A i \in 1 .. 4 : z[i] = IF i <= 2 THEN w[i] ELSE v[i - 2]
    BY <1>1, <1>2, CatSeq
  <2> HIDE DEF z
  <2>2. \A i \in 1 .. Len(z) : z[i] = y[i]
    BY <1>1, <1>2, <1>3, <2>1
  <2>3. z = y
    BY <1>3, <2>1, <2>2, SameSeq
  <2>4. QED
    BY <2>3 DEF z
<1>5. QED
  BY <1>1, <1>2, <1>3, <1>4

LEMMA AppendCat ==
  ASSUME NEW s \in Seq(Nat), NEW d \in Nat
  PROVE  Append(s, d) = s \o <<d>>
OBVIOUS

LEMMA TailCat ==
  ASSUME NEW s \in Seq(Nat), NEW t \in Seq(Nat), Len(s) > 0
  PROVE  Tail(s \o t) = Tail(s) \o t
BY SMTT(60)

(* A key put at the front of a list is the last one in reverse.            *)
LEMMA ReverseCons ==
  ASSUME NEW s \in Seq(Nat), NEW d \in Nat
  PROVE  Reverse(<<d>> \o s) = Reverse(s) \o <<d>>
<1>1. <<d>> \in Seq(Nat)
  OBVIOUS
<1>2. Reverse(<<d>>) = <<d>>
  BY ReverseSmall
<1>3. PICK o \in Seq(Nat) : o = <<d>>
  BY <1>1
<1>4. Reverse(o \o s) = Reverse(s) \o Reverse(o)
  BY ReverseCat
<1>5. QED
  BY <1>2, <1>3, <1>4

(* queue_insert_last.                                                      *)
LEMMA InsertKeepsQueue ==
  ASSUME NEW q, NEW s \in Seq(Nat), GoodQueue(q, s), NEW d \in Nat
  PROVE  GoodQueue(queue_insert_last(q, d), s \o <<d>>)
<1>1. CASE q = QueueEmpty /\ s = <<>>
  <2>1. queue_insert_last(q, d) = CellQueue(<<d>>, <<>>, 1, 0)
    BY <1>1 DEF queue_insert_last, QueueEmpty
  <2>2. PICK o \in Seq(Nat) : o = <<d>> /\ Len(o) = 1
    <3>1. <<d>> \in Seq(Nat) /\ Len(<<d>>) = 1
      OBVIOUS
    <3>2. QED
      BY <3>1, Zenon
  <2>3. PICK e \in Seq(Nat) : e = <<>> /\ Len(e) = 0 /\ Reverse(e) = <<>>
    <3>1. <<>> \in Seq(Nat) /\ Len(<<>>) = 0
      OBVIOUS
    <3>2. QED
      BY <3>1, ReverseSmall, Zenon
  <2>4. 1 \in Nat /\ 0 \in Nat /\ 1 > 0 /\ 0 <= 1
    OBVIOUS
  <2>5. GoodQueue(CellQueue(o, e, 1, 0), o \o Reverse(e))
    BY <2>2, <2>3, <2>4, PlainHolds
  <2>6. o \o Reverse(e) = s \o <<d>>
    BY <1>1, <2>2, <2>3, CatSeq
  <2>7. QED
    BY <2>1, <2>2, <2>3, <2>5, <2>6
<1>2. CASE q \in PlainQueue /\ Held(q, s) /\ q.ntail <= q.nhead
  <2> DEFINE rt == Reverse(q.tail)
  <2>1. /\ q.head \in Seq(Nat) /\ q.tail \in Seq(Nat) /\ rt \in Seq(Nat)
        /\ s = q.head \o rt
        /\ q.nhead \in Nat /\ q.ntail \in Nat /\ q.nhead > 0
        /\ q.nhead = Len(q.head) /\ q.ntail = Len(q.tail)
        /\ q # QueueEmpty /\ q.type = "CELL_queue"
    BY <1>2, PlainFacts
  <2>2. CASE q.nhead = q.ntail /\ q.nhead = 1
    <3>1. PICK a \in Nat : q.head = <<a>> /\ Head(q.head) = a
      BY <2>1, <2>2, ShortSeq
    <3>2. PICK b \in Nat : q.tail = <<b>> /\ Head(q.tail) = b
      BY <2>1, <2>2, ShortSeq
    <3>3. queue_insert_last(q, d) = CellQueue(<<a, b, d>>, <<>>, 3, 0)
      BY <2>1, <2>2, <3>1, <3>2 DEF queue_insert_last
    <3>4. PICK o \in Seq(Nat) : o = <<a, b, d>> /\ Len(o) = 3
      <4>1. <<a, b, d>> \in Seq(Nat) /\ Len(<<a, b, d>>) = 3
        OBVIOUS
      <4>2. QED
        BY <4>1, Zenon
    <3>5. PICK e \in Seq(Nat) : e = <<>> /\ Len(e) = 0 /\ Reverse(e) = <<>>
      <4>1. <<>> \in Seq(Nat) /\ Len(<<>>) = 0
        OBVIOUS
      <4>2. QED
        BY <4>1, ReverseSmall, Zenon
    <3>6. 3 \in Nat /\ 0 \in Nat /\ 3 > 0 /\ 0 <= 3
      OBVIOUS
    <3>7. GoodQueue(CellQueue(o, e, 3, 0), o \o Reverse(e))
      BY <3>4, <3>5, <3>6, PlainHolds
    <3>8. o \o Reverse(e) = s \o <<d>>
      <4>1. rt = <<b>>
        BY <3>2, ReverseSmall
      <4> HIDE DEF rt
      <4>2. s = <<a, b>>
        <5>1. <<a>> \o <<b>> = <<a, b>>
          BY ShortCat
        <5>2. QED
          BY <2>1, <3>1, <4>1, <5>1
      <4>3. s \o <<d>> = <<a, b, d>>
        <5>1. <<a, b>> \o <<d>> = <<a, b, d>>
          BY ShortCat
        <5>2. QED
          BY <4>2, <5>1
      <4>4. o \o <<>> = o
        BY CatSeq
      <4>5. QED
        BY <3>4, <3>5, <4>3, <4>4
    <3>9. QED
      BY <3>3, <3>4, <3>5, <3>7, <3>8
  <2>3. CASE q.nhead = q.ntail /\ q.nhead # 1
    <3>1. queue_insert_last(q, d) = StartTransfer(CellQueueRev(q.head, q.nhead, q.tail, <<d>>))
      BY <2>1, <2>3 DEF queue_insert_last
    <3>2. q.nhead >= 2 /\ Len(q.head) = q.nhead /\ Len(q.tail) = q.nhead
      <4>1. q.nhead \in Nat /\ q.nhead > 0 /\ q.nhead # 1
        BY <2>1, <2>3
      <4>2. q.nhead >= 2
        BY <4>1
      <4> HIDE DEF rt
      <4>3. QED
        BY <2>1, <2>3, <4>2
    <3>3. GoodQueue(StartTransfer(CellQueueRev(q.head, q.nhead, q.tail, <<d>>)), (q.head \o rt) \o <<d>>)
      BY <2>1, <3>2, StartHolds
    <3>4. QED
      BY <2>1, <3>1, <3>3
  <2>4. CASE q.nhead # q.ntail
    <3>1. queue_insert_last(q, d) = CellQueue(q.head, <<d>> \o q.tail, q.nhead, q.ntail + 1)
      BY <2>1, <2>4 DEF queue_insert_last
    <3>2. PICK t \in Seq(Nat) : t = <<d>> \o q.tail /\ Len(t) = q.ntail + 1
      <4>1. <<d>> \in Seq(Nat) /\ Len(<<d>>) = 1
        OBVIOUS
      <4>2. PICK o \in Seq(Nat) : o = <<d>> /\ Len(o) = 1
        BY <4>1, Zenon
      <4>3. o \o q.tail \in Seq(Nat) /\ Len(o \o q.tail) = 1 + q.ntail
        BY <2>1, <4>2, CatSeq
      <4>4. 1 + q.ntail = q.ntail + 1
        BY <2>1
      <4>5. QED
        BY <4>2, <4>3, <4>4, Zenon
    <3>3. q.ntail + 1 \in Nat /\ q.ntail + 1 <= q.nhead
      BY <1>2, <2>1, <2>4
    <3>4. GoodQueue(CellQueue(q.head, t, q.nhead, q.ntail + 1), q.head \o Reverse(t))
      BY <2>1, <3>2, <3>3, PlainHolds
    <3>5. Reverse(t) = rt \o <<d>>
      BY <2>1, <3>2, ReverseCons
    <3>6. q.head \o (rt \o <<d>>) = s \o <<d>>
      <4>0. <<d>> \in Seq(Nat)
        OBVIOUS
      <4>1. PICK o \in Seq(Nat) : o = <<d>>
        BY <4>0, Zenon
      <4> HIDE DEF rt
      <4>2. (q.head \o rt) \o o = q.head \o (rt \o o)
        <5>1. q.head \in Seq(Nat) /\ rt \in Seq(Nat)
          BY <2>1
        <5>2. QED
          BY <5>1, CatAssoc, ZenonT(60)
      <4>3. QED
        BY <2>1, <4>1, <4>2
    <3>7. QED
      BY <3>1, <3>2, <3>4, <3>5, <3>6
  <2>5. QED
    BY <2>2, <2>3, <2>4
<1>3. CASE q \in RevQueue /\ Held(q, s) /\ InTransfer(q)
  <2> DEFINE e == [q EXCEPT !.tail = <<d>> \o @, !.ntail = @ + 1]
  <2>1. /\ q.type = "CELL_queue_rev" /\ q.head \in Seq(Nat) /\ q.tail \in Seq(Nat) /\ q.ntail \in Nat
        /\ q # QueueEmpty
    BY <1>3 DEF RevQueue, QueueEmpty
  <2>2. queue_insert_last(q, d) = Transfer(e)
    BY <2>1 DEF queue_insert_last
  <2>3. PICK r : r = e
    OBVIOUS
  <2> HIDE DEF e
  <2>4. /\ r \in RevQueue /\ KeysKept(r) /\ Progress(r, Steps(r) - 1) /\ r.moved <= r.nhead
        /\ r.tail = <<d>> \o q.tail /\ r.ntail = q.ntail + 1 /\ r.head = q.head /\ r.nhead = q.nhead
        /\ TransferTarget(r) = TransferTarget(q)
    BY <1>3, <2>3, RevInsert DEF e
  <2>5. TransferTarget(q) \in Seq(Nat)
    BY <1>3, RevTarget
  <2>6. /\ s = TransferTarget(q) \o Reverse(q.tail) /\ q.nhead = Len(q.head) /\ q.ntail = Len(q.tail)
        /\ IsPrefix(q.head, s)
    BY <1>3 DEF Held
  <2>7. PICK o \in Seq(Nat) : o = <<d>> /\ Len(o) = 1
    <3>1. <<d>> \in Seq(Nat) /\ Len(<<d>>) = 1
      OBVIOUS
    <3>2. QED
      BY <3>1, Zenon
  <2> DEFINE rt == Reverse(q.tail)
             tt == TransferTarget(q)
  <2>8. rt \in Seq(Nat)
    BY <2>1, ReverseSeq
  <2>9. Reverse(r.tail) = rt \o o
    <3>1. Reverse(<<d>> \o q.tail) = Reverse(q.tail) \o <<d>>
      BY <2>1, ReverseCons
    <3>2. QED
      BY <2>4, <2>7, <3>1
  <2> HIDE DEF rt, tt
  <2>10. (tt \o rt) \o o = tt \o (rt \o o)
    BY <2>5, <2>8, CatAssoc DEF tt
  <2>11. s \o o = TransferTarget(r) \o Reverse(r.tail)
    BY <2>4, <2>6, <2>9, <2>10 DEF rt, tt
  <2>12. IsPrefix(r.head, s \o o)
    <3>1. IsPrefix(q.head, s \o <<d>>)
      BY <2>1, <2>6, PrefixAppend
    <3>2. QED
      BY <2>4, <2>7, <3>1
  <2>13. r.nhead = Len(r.head) /\ r.ntail = Len(r.tail)
    <3>1. Len(o \o q.tail) = 1 + Len(q.tail)
      BY <2>1, <2>7, CatSeq
    <3>2. 1 + q.ntail = q.ntail + 1
      BY <2>1
    <3>3. QED
      BY <2>4, <2>6, <2>7, <3>1, <3>2
  <2>14. TransferTarget(r) \in Seq(Nat)
    BY <2>4, <2>5
  <2>15. GoodQueue(Transfer(r), s \o o)
    BY <2>4, <2>11, <2>12, <2>13, <2>14, TransferHolds
  <2>16. QED
    BY <2>2, <2>3, <2>7, <2>15
<1>4. QED
  BY <1>1, <1>2, <1>3 DEF GoodQueue

(* queue_remove_first.                                                     *)
LEMMA RemoveKeepsQueue ==
  ASSUME NEW q, NEW s \in Seq(Nat), GoodQueue(q, s), q # QueueEmpty
  PROVE  GoodQueue(queue_remove_first(q), Tail(s))
<1>0. PICK e \in Seq(Nat) : e = <<>> /\ Len(e) = 0 /\ Reverse(e) = <<>>
  <2>1. <<>> \in Seq(Nat) /\ Len(<<>>) = 0
    OBVIOUS
  <2>2. QED
    BY <2>1, ReverseSmall, Zenon
<1>1. CASE q \in PlainQueue /\ Held(q, s) /\ q.ntail <= q.nhead
  <2> DEFINE rt == Reverse(q.tail)
             h == q.nhead
             t == q.ntail
  <2>1. /\ q.head \in Seq(Nat) /\ q.tail \in Seq(Nat) /\ rt \in Seq(Nat)
        /\ s = q.head \o rt
        /\ h \in Nat /\ t \in Nat /\ h > 0
        /\ h = Len(q.head) /\ t = Len(q.tail)
        /\ q.type = "CELL_queue"
    BY <1>1, PlainFacts
  <2>2. t <= h /\ h \in Nat /\ t \in Nat /\ h > 0
    BY <1>1, <2>1
  <2>3. Tail(s) = Tail(q.head) \o rt /\ Tail(q.head) \in Seq(Nat) /\ Len(Tail(q.head)) = h - 1
    <3>1. Len(q.head) > 0
      BY <2>1
    <3> HIDE DEF rt
    <3>2. Tail(q.head \o rt) = Tail(q.head) \o rt
      BY <2>1, <3>1, TailCat
    <3>3. Tail(q.head) \in Seq(Nat) /\ Len(Tail(q.head)) = Len(q.head) - 1
      BY <2>1, <3>1, TailSeq
    <3> HIDE DEF h
    <3>4. QED
      BY <2>1, <3>2, <3>3
  <2>4. CASE h = t /\ h = 1
    <3>1. queue_remove_first(q) = CellQueue(q.tail, <<>>, 1, 0)
      BY <2>1, <2>4 DEF queue_remove_first
    <3>2. PICK a \in Nat : q.head = <<a>>
      BY <2>1, <2>4, ShortSeq
    <3>3. PICK b \in Nat : q.tail = <<b>>
      BY <2>1, <2>4, ShortSeq
    <3>4. rt = q.tail
      BY <3>3, ReverseSmall
    <3>5. Tail(q.head) = <<>>
      BY <3>2
    <3>6. Tail(s) = q.tail
      BY <2>1, <2>3, <3>4, <3>5, CatSeq, ZenonT(60)
    <3>7. 1 \in Nat /\ 0 \in Nat /\ 1 > 0 /\ 0 <= 1 /\ Len(q.tail) = 1
      BY <2>1, <2>4
    <3>8. GoodQueue(CellQueue(q.tail, e, 1, 0), q.tail \o Reverse(e))
      BY <1>0, <2>1, <3>7, PlainHolds
    <3>9. q.tail \o <<>> = q.tail
      BY <2>1, CatSeq
    <3>10. QED
      BY <1>0, <3>1, <3>6, <3>8, <3>9
  <2>5. CASE h = t /\ h = 2
    <3>1. PICK a \in Nat, b \in Nat : q.head = <<a, b>> /\ q.head[2] = b
      BY <2>1, <2>5, ShortSeq
    <3>2. PICK c \in Nat, d \in Nat : q.tail = <<c, d>> /\ q.tail[1] = c /\ q.tail[2] = d
      BY <2>1, <2>5, ShortSeq
    <3>3. queue_remove_first(q) = CellQueue(<<b, d, c>>, <<>>, 3, 0)
      BY <2>1, <2>5, <3>1, <3>2 DEF queue_remove_first
    <3>4. rt = <<d, c>>
      BY <3>2, ReverseSmall
    <3> HIDE DEF rt
    <3>5. Tail(s) = <<b, d, c>>
      <4>1. <<a, b>> \o <<d, c>> = <<a, b, d, c>>
        BY TwoAndTwo
      <4>2. Tail(<<a, b, d, c>>) = <<b, d, c>>
        OBVIOUS
      <4>3. QED
        BY <2>1, <3>1, <3>4, <4>1, <4>2
    <3>6. PICK o \in Seq(Nat) : o = <<b, d, c>> /\ Len(o) = 3
      <4>1. <<b, d, c>> \in Seq(Nat) /\ Len(<<b, d, c>>) = 3
        OBVIOUS
      <4>2. QED
        BY <4>1, Zenon
    <3>7. 3 \in Nat /\ 0 \in Nat /\ 3 > 0 /\ 0 <= 3
      OBVIOUS
    <3>8. GoodQueue(CellQueue(o, e, 3, 0), o \o Reverse(e))
      BY <1>0, <3>6, <3>7, PlainHolds
    <3>9. o \o <<>> = o
      BY CatSeq
    <3>10. QED
      BY <1>0, <3>3, <3>5, <3>6, <3>8, <3>9
  <2>6. CASE h = t /\ h > 2
    <3>1. queue_remove_first(q)
            = StartTransfer(CellQueueRev(Tail(q.head), h - 1, Tail(q.tail), <<Head(q.tail)>>))
      BY <2>1, <2>6 DEF queue_remove_first
    <3> DEFINE th == Tail(q.head)
               tt == Tail(q.tail)
               d == Head(q.tail)
               n == h - 1
    <3>2. Len(q.tail) > 0
      BY <2>1, <2>6
    <3>3. tt \in Seq(Nat) /\ Len(tt) = Len(q.tail) - 1 /\ d \in Nat /\ q.tail = <<d>> \o tt
      BY <2>1, <3>2, TailSeq
    <3>4. th \in Seq(Nat) /\ Len(th) = n
      BY <2>3
    <3> HIDE DEF th, tt, d, h, t
    <3>5. n \in Nat /\ n >= 2 /\ Len(tt) = n
      BY <2>1, <2>6, <3>3
    <3> HIDE DEF n
    <3>6. GoodQueue(StartTransfer(CellQueueRev(th, n, tt, <<d>>)), (th \o Reverse(tt)) \o <<d>>)
      BY <3>3, <3>4, <3>5, StartHolds
    <3>7. rt = Reverse(tt) \o <<d>>
      BY <3>3, ReverseCons
    <3>8. PICK o \in Seq(Nat) : o = <<d>>
      <4>1. <<d>> \in Seq(Nat)
        BY <3>3
      <4>2. QED
        BY <4>1, Zenon
    <3>9. (th \o Reverse(tt)) \o o = th \o (Reverse(tt) \o o)
      <4> DEFINE u == Reverse(tt)
      <4>1. u \in Seq(Nat)
        BY <3>3, ReverseSeq
      <4> HIDE DEF u
      <4>2. (th \o u) \o o = th \o (u \o o)
        BY <3>4, <4>1, CatAssoc, ZenonT(60)
      <4>3. QED
        BY <4>2 DEF u
    <3>10. Tail(s) = (th \o Reverse(tt)) \o <<d>>
      <4> HIDE DEF rt
      <4>1. Tail(s) = th \o rt
        BY <2>3 DEF th
      <4>2. QED
        BY <3>7, <3>8, <3>9, <4>1
    <3>11. QED
      BY <3>1, <3>6, <3>10 DEF th, tt, d, n
  <2>7. CASE h # t /\ h = 1 /\ t = 0
    <3>1. queue_remove_first(q) = QueueEmpty
      BY <2>1, <2>7 DEF queue_remove_first
    <3>2. PICK a \in Nat : q.head = <<a>>
      BY <2>1, <2>7, ShortSeq
    <3>3. q.tail = <<>>
      <4>1. q.tail \in Seq(Nat) /\ Len(q.tail) = 0
        BY <2>1, <2>7
      <4>2. QED
        BY <4>1
    <3>4. Tail(q.head) = <<>> /\ rt = <<>>
      BY <3>2, <3>3, ReverseSmall
    <3> HIDE DEF rt
    <3>5. <<>> \o <<>> = <<>>
      BY <1>0, CatSeq
    <3>6. Tail(s) = <<>>
      BY <2>3, <3>4, <3>5
    <3>7. QED
      BY <3>1, <3>6 DEF GoodQueue
  <2>8. CASE h # t /\ ~(h = 1 /\ t = 0)
    <3>1. queue_remove_first(q) = CellQueue(Tail(q.head), q.tail, h - 1, t)
      BY <2>1, <2>8 DEF queue_remove_first
    <3> DEFINE n == h - 1
               th == Tail(q.head)
    <3>2. n \in Nat /\ n > 0 /\ t <= n
      <4> HIDE DEF h, t
      <4>1. QED
        BY <2>2, <2>8
    <3>3. th \in Seq(Nat) /\ Len(th) = n
      BY <2>3
    <3> HIDE DEF n, th
    <3>4. GoodQueue(CellQueue(th, q.tail, n, t), th \o Reverse(q.tail))
      BY <2>1, <3>2, <3>3, PlainHolds
    <3>5. QED
      BY <2>3, <3>1, <3>4 DEF n, th
  <2>9. h = 1 \/ h = 2 \/ h > 2
    <3> HIDE DEF h, t
    <3>1. QED
      BY <2>2
  <2>10. QED
    BY <2>4, <2>5, <2>6, <2>7, <2>8, <2>9
<1>2. CASE q \in RevQueue /\ Held(q, s) /\ InTransfer(q)
  <2> DEFINE f == [q EXCEPT !.head = Tail(@), !.nhead = @ - 1]
  <2>1. q.type = "CELL_queue_rev" /\ q.head \in Seq(Nat) /\ q.tail \in Seq(Nat) /\ q.nhead \in Nat
    BY <1>2 DEF RevQueue
  <2>2. queue_remove_first(q) = Transfer(f)
    BY <2>1 DEF queue_remove_first
  <2>3. PICK r : r = f
    OBVIOUS
  <2>4. /\ s = TransferTarget(q) \o Reverse(q.tail) /\ q.nhead = Len(q.head) /\ q.ntail = Len(q.tail)
        /\ IsPrefix(q.head, s) /\ q.nhead > 0
    BY <1>2 DEF Held
  <2>5. Len(q.head) > 0
    BY <2>4
  <2>6. /\ r \in RevQueue /\ KeysKept(r) /\ Progress(r, Steps(r) - 1) /\ r.moved <= r.nhead
        /\ r.tail = q.tail /\ r.ntail = q.ntail /\ r.head = Tail(q.head) /\ r.nhead = q.nhead - 1
        /\ TransferTarget(r) \in Seq(Nat)
        /\ \E x \in Nat : TransferTarget(q) = <<x>> \o TransferTarget(r)
    BY <1>2, <2>3, <2>5, RevRemove
  <2> HIDE DEF f
  <2> DEFINE rt == Reverse(q.tail)
             tr == TransferTarget(r)
  <2>7. rt \in Seq(Nat)
    BY <2>1, ReverseSeq
  <2>8. PICK x \in Nat : TransferTarget(q) = <<x>> \o tr
    BY <2>6
  <2>9. tr \in Seq(Nat)
    BY <2>6
  <2> HIDE DEF tr, rt
  <2>10. Tail(s) = tr \o rt
    <3>1. s = (<<x>> \o tr) \o rt
      BY <2>4, <2>8 DEF rt
    <3>2. PICK o \in Seq(Nat) : o = <<x>> /\ Len(o) = 1 /\ Tail(o) = <<>>
      <4>1. <<x>> \in Seq(Nat) /\ Len(<<x>>) = 1 /\ Tail(<<x>>) = <<>>
        OBVIOUS
      <4>2. QED
        BY <4>1, Zenon
    <3>3. (o \o tr) \o rt = o \o (tr \o rt)
      BY <2>7, <2>9, CatAssoc, ZenonT(60)
    <3>4. PICK w \in Seq(Nat) : w = tr \o rt
      <4>1. tr \o rt \in Seq(Nat)
        BY <2>7, <2>9, CatSeq
      <4>2. QED
        BY <4>1, Zenon
    <3>5. Tail(o \o w) = Tail(o) \o w
      <4>1. Len(o) > 0
        BY <3>2
      <4>2. QED
        BY <4>1, TailCat
    <3>6. <<>> \o w = w
      BY CatSeq
    <3>7. QED
      BY <3>1, <3>2, <3>3, <3>4, <3>5, <3>6
  <2>11. IsPrefix(r.head, Tail(s))
    <3>1. IsPrefix(Tail(q.head), Tail(s))
      BY <2>1, <2>4, <2>5, PrefixTail
    <3>2. QED
      BY <2>6, <3>1
  <2>12. r.nhead = Len(r.head) /\ r.ntail = Len(r.tail)
    <3>1. Len(Tail(q.head)) = Len(q.head) - 1
      BY <2>1, <2>5, TailSeq
    <3>2. QED
      BY <2>4, <2>6, <3>1
  <2>13. Tail(s) = TransferTarget(r) \o Reverse(r.tail)
    BY <2>6, <2>10 DEF tr, rt
  <2>14. GoodQueue(Transfer(r), Tail(s))
    BY <2>6, <2>11, <2>12, <2>13, TransferHolds
  <2>15. QED
    BY <2>2, <2>3, <2>14
<1>3. QED
  BY <1>1, <1>2 DEF GoodQueue

(* What the invariant says of the items at hand and of the time left.      *)
LEMMA InvIsQueue == QueueInv => QueueIsQueue
<1> SUFFICES ASSUME QueueInv PROVE QueueIsQueue
  OBVIOUS
<1>1. queueItems \in Seq(Nat) /\ GoodQueue(queue, queueItems)
  BY DEF QueueInv
<1>2. CASE queue = QueueEmpty /\ queueItems = <<>>
  BY <1>2 DEF QueueIsQueue, TransferInTime
<1>3. ASSUME Held(queue, queueItems), queue.head \in Seq(Nat), queue # QueueEmpty, TransferInTime
      PROVE  QueueIsQueue
  <2>1. /\ queueItems = TransferTarget(queue) \o Reverse(queue.tail)
        /\ queue.nhead = Len(queue.head) /\ queue.ntail = Len(queue.tail) /\ queue.nhead > 0
        /\ IsPrefix(queue.head, queueItems)
    BY <1>3 DEF Held
  <2>2. Len(queue.head) > 0
    BY <2>1
  <2>3. queueItems # <<>> /\ Head(queue.head) = Head(queueItems)
    BY <1>1, <1>3, <2>1, <2>2, PrefixTail
  <2>4. queue.head # <<>>
    <3>1. Len(<<>>) = 0
      OBVIOUS
    <3>2. QED
      BY <2>2, <3>1
  <2>5. QED
    BY <1>3, <2>1, <2>3, <2>4 DEF QueueIsQueue, QUEUE_GET_FIRST
<1>4. CASE queue \in PlainQueue /\ Held(queue, queueItems) /\ queue.ntail <= queue.nhead
  <2>1. queue.type = "CELL_queue" /\ queue.head \in Seq(Nat) /\ queue # QueueEmpty
    BY <1>4 DEF PlainQueue, QueueEmpty
  <2>2. TransferInTime
    BY <1>4, <2>1 DEF TransferInTime
  <2>3. QED
    BY <1>3, <1>4, <2>1, <2>2
<1>5. CASE queue \in RevQueue /\ Held(queue, queueItems) /\ InTransfer(queue)
  <2> DEFINE n == queue.started
             h == queue.nhead
             t == queue.ntail
             d == queue.moved
             a == Len(queue.oldHead)
             p == n - (n % 2) - 2
  <2>1. /\ queue.type = "CELL_queue_rev" /\ queue.head \in Seq(Nat) /\ queue # QueueEmpty
        /\ n \in Nat /\ h \in Nat /\ t \in Nat /\ d \in Nat /\ queue.oldHead \in Seq(Nat)
    BY <1>5 DEF RevQueue, QueueEmpty
  <2>2. a \in Nat
    BY <2>1
  <2>3. /\ n >= 2 /\ h <= n /\ d < h
        /\ d = 0 => a + 2 * (t + n - h) = p
        /\ d > 0 => d + p >= 2 * (t + n - h)
    BY <1>5 DEF InTransfer, Progress, Steps, FirstPhase
  <2>4. p \in Nat /\ p <= n - 2
    BY <2>1, <2>3, PhaseBound
  <2>5. t <= n /\ h > 0
    <3> HIDE DEF n, h, t, d, a, p
    <3>1. t <= n
      BY <2>1, <2>2, <2>3, <2>4, InTime
    <3>2. h > 0
      BY <2>1, <2>3
    <3>3. QED
      BY <3>1, <3>2
  <2>6. TransferInTime
    BY <2>1, <2>5 DEF TransferInTime
  <2>7. QED
    BY <1>3, <1>5, <2>1, <2>6
<1>6. QED
  BY <1>1, <1>2, <1>4, <1>5 DEF GoodQueue

--------------------------------------------------------------------------------
(* QueueIsQueue for every number of operations: queue_insert_last and      *)
(* queue_remove_first keep the items in order in every phase of a          *)
(* transfer, and no transfer is late (the assertions of queue.c on the     *)
(* numbers of keys hold).                                                  *)
THEOREM QueueSafe == QueueSpec => []QueueIsQueue
<1>1. QueueInit => QueueInv
  <2>1. <<>> \in Seq(Nat) /\ 0 \in Nat
    OBVIOUS
  <2>2. QED
    BY <2>1 DEF QueueInit, QueueInv, GoodQueue
<1>2. QueueInv /\ [QueueNext]_queueVars => QueueInv'
  <2> SUFFICES ASSUME QueueInv, [QueueNext]_queueVars PROVE QueueInv'
    OBVIOUS
  <2>1. queueItems \in Seq(Nat) /\ inserts \in Nat /\ GoodQueue(queue, queueItems)
    BY DEF QueueInv
  <2>2. CASE QueueInsert(inserts + 1)
    <3>1. PICK d \in Nat : d = inserts + 1
      BY <2>1
    <3>2. queue' = queue_insert_last(queue, d) /\ queueItems' = Append(queueItems, d) /\ inserts' \in Nat
      BY <2>1, <2>2, <3>1 DEF QueueInsert
    <3>3. GoodQueue(queue_insert_last(queue, d), queueItems \o <<d>>)
      BY <2>1, InsertKeepsQueue
    <3>4. Append(queueItems, d) = queueItems \o <<d>> /\ Append(queueItems, d) \in Seq(Nat)
      BY <2>1, AppendCat
    <3>5. GoodQueue(queue', queueItems')
      BY <3>2, <3>3, <3>4
    <3>6. QED
      BY <3>2, <3>4, <3>5 DEF QueueInv
  <2>3. CASE QueueRemove
    <3>1. /\ queue # QueueEmpty /\ queue' = queue_remove_first(queue) /\ queueItems' = Tail(queueItems)
          /\ inserts' = inserts
      BY <2>3 DEF QueueRemove
    <3>2. GoodQueue(queue_remove_first(queue), Tail(queueItems))
      BY <2>1, <3>1, RemoveKeepsQueue
    <3>3. queueItems # <<>>
      BY InvIsQueue, <3>1 DEF QueueIsQueue
    <3>4. Tail(queueItems) \in Seq(Nat)
      BY <2>1, <3>3
    <3>5. GoodQueue(queue', queueItems')
      BY <3>1, <3>2
    <3>6. QED
      BY <2>1, <3>1, <3>4, <3>5 DEF QueueInv
  <2>4. CASE UNCHANGED queueVars
    <3>1. queue' = queue /\ queueItems' = queueItems /\ inserts' = inserts
      BY <2>4 DEF queueVars
    <3>2. GoodQueue(queue', queueItems')
      BY <2>1, <3>1
    <3>3. QED
      BY <2>1, <3>1, <3>2 DEF QueueInv
  <2>5. QED
    BY <2>2, <2>3, <2>4 DEF QueueNext
<1>3. QED
  BY <1>1, <1>2, InvIsQueue, PTL DEF QueueSpec

================================================================================
