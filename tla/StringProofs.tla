---------------------------- MODULE StringProofs ----------------------------
(***************************************************************************)
(* Two concurrent operations on a string are merged rightly, whatever the  *)
(* string, its length, the texts and the rights (PairsAreMerged). In this  *)
(* order:                                                                  *)
(*   - texts are cut and put together again: an insertion or a removal of  *)
(*     StringOt is a regrouping of words (Join), so that each case of the  *)
(*     merge is an equation between two ways to put words together;        *)
(*   - the loops of new_patch, of at most two turns for one operation      *)
(*     against one: refused, taken, or cut in two parts;                   *)
(*   - the four pairs of text operations, then those on the rights;        *)
(*   - what is registered of what a user tries, and the invariant.         *)
(***************************************************************************)
EXTENDS StringPairs, SequenceTheorems, WellFoundedInduction, TLAPS

LEMMA Lens ==
    ASSUME NEW T, NEW a \in Seq(T), NEW b \in Seq(T)
    PROVE  a \o b \in Seq(T) /\ Len(a) \in Nat /\ Len(b) \in Nat /\ Len(a \o b) = Len(a) + Len(b)
  BY ConcatProperties, LenProperties

(* Texts are cut and put together again.                                   *)
LEMMA UptoOf ==
    ASSUME NEW T, NEW a \in Seq(T), NEW b \in Seq(T)
    PROVE  Upto(a \o b, Len(a)) = a
<1>1. PICK l \in Nat, m \in Nat : l = Len(a) /\ m = Len(b)
  BY LenProperties
<1>2. PICK s \in Seq(T) : s = a \o b
  BY ConcatProperties
<1>3. Len(s) = l + m /\ \A i \in 1 .. l : s[i] = a[i]
  BY <1>1, <1>2, ConcatProperties
<1>4. Upto(s, l) = SubSeq(s, 1, l)
  BY <1>1, <1>3 DEF Upto, Lower
<1>5. \A i \in 1 .. l : s[i] \in T
  BY <1>1, <1>3, ElementOfSeq
<1>6. /\ SubSeq(s, 1, l) \in Seq(T)
      /\ Len(SubSeq(s, 1, l)) = IF 1 <= l THEN l - 1 + 1 ELSE 0
      /\ \A i \in 1 .. l - 1 + 1 : SubSeq(s, 1, l)[i] = s[1 + i - 1]
  BY <1>1, <1>5, SubSeqProperties, 1 \in Int, l \in Int
<1>7. Len(SubSeq(s, 1, l)) = l /\ \A i \in 1 .. l : SubSeq(s, 1, l)[i] = a[i]
  BY <1>1, <1>3, <1>6
<1>8. SubSeq(s, 1, l) = a
  BY <1>1, <1>6, <1>7, SeqEqual
<1> QED
  BY <1>1, <1>2, <1>4, <1>8

LEMMA FromOf ==
    ASSUME NEW T, NEW a \in Seq(T), NEW b \in Seq(T)
    PROVE  From(a \o b, Len(a)) = b
<1>1. PICK l \in Nat, m \in Nat : l = Len(a) /\ m = Len(b)
  BY LenProperties
<1>2. PICK s \in Seq(T) : s = a \o b
  BY ConcatProperties
<1>3. Len(s) = l + m /\ \A i \in 1 .. l + m : s[i] = IF i <= l THEN a[i] ELSE b[i - l]
  <2>1. /\ Len(a \o b) = Len(a) + Len(b)
        /\ \A i \in 1 .. Len(a) + Len(b) :
              (a \o b)[i] = IF i <= Len(a) THEN a[i] ELSE b[i - Len(a)]
    BY ConcatProperties
  <2> QED
    BY ONLY <2>1, <1>1, <1>2
<1>4. From(s, l) = SubSeq(s, 1 + l, l + m)
  BY <1>1, <1>3 DEF From
<1>5. \A i \in 1 + l .. l + m : s[i] \in T
  BY <1>1, <1>2, <1>3, ElementOfSeq
<1>6. /\ SubSeq(s, 1 + l, l + m) \in Seq(T)
      /\ Len(SubSeq(s, 1 + l, l + m)) = IF 1 + l <= l + m THEN l + m - (1 + l) + 1 ELSE 0
      /\ \A i \in 1 .. l + m - (1 + l) + 1 : SubSeq(s, 1 + l, l + m)[i] = s[1 + l + i - 1]
  BY <1>1, <1>5, SubSeqProperties, 1 + l \in Int, l + m \in Int
<1>7. l + m - (1 + l) + 1 = m /\ \A i \in Int : 1 + l + i - 1 = l + i
  BY <1>1
<1>8. Len(SubSeq(s, 1 + l, l + m)) = m
  BY <1>1, <1>6, <1>7
<1>11. ASSUME NEW i \in 1 .. m PROVE SubSeq(s, 1 + l, l + m)[i] = s[l + i]
  <2>1. i \in 1 .. l + m - (1 + l) + 1 /\ 1 + l + i - 1 = l + i
    BY <1>1, <1>7
  <2> QED
    BY <2>1, <1>6
<1>9. ASSUME NEW i \in 1 .. m PROVE SubSeq(s, 1 + l, l + m)[i] = b[i]
  <2>1. l + i \in 1 .. l + m /\ ~ (l + i <= l) /\ l + i - l = i
    BY <1>1
  <2>2. s[l + i] = b[i]
    BY <2>1, <1>3
  <2> QED
    BY <2>2, <1>11
<1>10. SubSeq(s, 1 + l, l + m) = b
  BY <1>1, <1>6, <1>8, <1>9, SeqEqual
<1> QED
  BY <1>1, <1>2, <1>4, <1>10

LEMMA SplitAt ==
    ASSUME NEW T, NEW s \in Seq(T), NEW p \in 0 .. Len(s)
    PROVE  \E a \in Seq(T), b \in Seq(T) : s = a \o b /\ Len(a) = p
<1>1. PICK l \in Nat : l = Len(s)
  BY LenProperties
<1>2. p \in Nat /\ p <= l /\ 1 \in 1 .. l + 1 /\ p \in 1 - 1 .. l /\ l \in p .. l
  BY <1>1
<1>3. SubSeq(s, 1, p) \o SubSeq(s, p + 1, l) = SubSeq(s, 1, l)
  BY <1>1, <1>2, ConcatAdjacentSubSeq
<1>4. SubSeq(s, 1, l) = s
  BY <1>1, SubSeqFull
<1>5. \A i \in 1 .. l : s[i] \in T
  BY <1>1, ElementOfSeq
<1>6. SubSeq(s, 1, p) \in Seq(T) /\ Len(SubSeq(s, 1, p)) = IF 1 <= p THEN p - 1 + 1 ELSE 0
  BY <1>2, <1>5, SubSeqProperties, 1 \in Int, p \in Int
<1>7. SubSeq(s, p + 1, l) \in Seq(T)
  BY <1>2, <1>5, SubSeqProperties, p + 1 \in Int, l \in Int
<1>8. Len(SubSeq(s, 1, p)) = p
  BY <1>2, <1>6
<1> QED
  BY <1>3, <1>4, <1>6, <1>7, <1>8

(* Texts put together, as words of which the provers know nothing else.    *)
Join(u, v) == u \o v
Words(T) ==
    /\ \A u \in Seq(T) : Len(u) \in Nat
    /\ \A u, v \in Seq(T) : Join(u, v) \in Seq(T)
    /\ \A u, v \in Seq(T) : Len(Join(u, v)) = Len(u) + Len(v)
    /\ \A u, v, w \in Seq(T) : Join(Join(u, v), w) = Join(u, Join(v, w))

LEMMA AreWords == ASSUME NEW T PROVE Words(T)
<1>1. ASSUME NEW u \in Seq(T) PROVE Len(u) \in Nat
  BY LenProperties
<1>2. ASSUME NEW u \in Seq(T), NEW v \in Seq(T)
      PROVE  u \o v \in Seq(T) /\ Len(u \o v) = Len(u) + Len(v)
  BY Lens
<1>3. ASSUME NEW u \in Seq(T), NEW v \in Seq(T), NEW w \in Seq(T)
      PROVE  (u \o v) \o w = u \o (v \o w)
  BY ConcatAssociative
<1> QED
  BY <1>1, <1>2, <1>3 DEF Words, Join

LEMMA Split ==
    ASSUME NEW T, NEW s \in Seq(T), NEW p \in 0 .. Len(s)
    PROVE  \E a \in Seq(T), b \in Seq(T) : s = Join(a, b) /\ Len(a) = p
  BY SplitAt DEF Join

LEMMA Parts ==
    ASSUME NEW T, NEW a \in Seq(T), NEW b \in Seq(T)
    PROVE  Upto(Join(a, b), Len(a)) = a /\ From(Join(a, b), Len(a)) = b
  BY UptoOf, FromOf DEF Join

(* One text cut at two places: what is between them.                       *)
LEMMA CutTwice ==
    ASSUME NEW T, NEW a \in Seq(T), NEW b \in Seq(T), NEW c \in Seq(T), NEW d \in Seq(T),
           Join(a, b) = Join(c, d), Len(a) <= Len(c)
    PROVE  \E e \in Seq(T) : c = Join(a, e) /\ b = Join(e, d)
<1>0. Words(T)
  BY AreWords
<1>1. PICK n \in 0 .. Len(c) : n = Len(a)
  BY <1>0 DEF Words
<1>2. \E f \in Seq(T), e \in Seq(T) : c = Join(f, e) /\ Len(f) = n
  BY ONLY Split, c \in Seq(T), n \in 0 .. Len(c)
<1>3. PICK f \in Seq(T), e \in Seq(T) : c = Join(f, e) /\ Len(f) = n
  BY <1>2
<1>4. Join(e, d) \in Seq(T) /\ Join(Join(f, e), d) = Join(f, Join(e, d))
  BY <1>0 DEF Words
<1>5. Join(f, Join(e, d)) = Join(a, b)
  BY <1>3, <1>4
<1>6. /\ Upto(Join(f, Join(e, d)), Len(f)) = f /\ From(Join(f, Join(e, d)), Len(f)) = Join(e, d)
      /\ Upto(Join(a, b), Len(a)) = a /\ From(Join(a, b), Len(a)) = b
  BY <1>4, Parts
<1>7. f = a /\ Join(e, d) = b
  BY ONLY <1>1, <1>3, <1>5, <1>6
<1> QED
  BY <1>3, <1>7

LEMMA InsertionAt ==
    ASSUME NEW T, NEW a \in Seq(T), NEW b \in Seq(T), NEW x
    PROVE  Insertion(Join(a, b), Len(a), x) = Join(Join(a, x), b)
  BY UptoOf, FromOf DEF Insertion, Join

LEMMA RemovalAt ==
    ASSUME NEW T, NEW a \in Seq(T), NEW b \in Seq(T), NEW x \in Seq(T)
    PROVE  Removal(Join(a, Join(x, b)), Len(a), Len(x)) = Join(a, b)
<1>1. a \o x \in Seq(T) /\ x \o b \in Seq(T) /\ Len(a \o x) = Len(a) + Len(x)
  BY Lens
<1>2. a \o (x \o b) = (a \o x) \o b
  BY ConcatAssociative
<1>3. Upto(a \o (x \o b), Len(a)) = a
  BY <1>1, UptoOf
<1>4. From((a \o x) \o b, Len(a \o x)) = b
  BY <1>1, FromOf
<1> QED
  BY <1>1, <1>2, <1>3, <1>4 DEF Removal, Join

LEMMA FourWords ==
    ASSUME NEW T, NEW a \in Seq(T), NEW b \in Seq(T), NEW c \in Seq(T), NEW d \in Seq(T)
    PROVE  /\ Join(Join(Join(a, b), c), d) = Join(a, Join(b, Join(c, d)))
           /\ Join(Join(a, b), Join(c, d)) = Join(a, Join(b, Join(c, d)))
           /\ Join(a, Join(Join(b, c), d)) = Join(a, Join(b, Join(c, d)))
           /\ Join(Join(a, Join(b, c)), d) = Join(a, Join(b, Join(c, d)))
<1>1. Words(T)
  BY AreWords
<1>2. Join(a, b) \in Seq(T) /\ Join(b, c) \in Seq(T) /\ Join(c, d) \in Seq(T)
  BY <1>1 DEF Words
<1>3. Join(Join(Join(a, b), c), d) = Join(Join(a, b), Join(c, d))
  BY <1>1, <1>2 DEF Words
<1>4. Join(Join(a, b), Join(c, d)) = Join(a, Join(b, Join(c, d)))
  BY <1>1, <1>2 DEF Words
<1>5. Join(Join(b, c), d) = Join(b, Join(c, d))
  BY <1>1 DEF Words
<1>6. Join(Join(a, Join(b, c)), d) = Join(a, Join(Join(b, c), d))
  BY <1>1, <1>2 DEF Words
<1> QED
  BY ONLY <1>3, <1>4, <1>5, <1>6

LEMMA LenOfThree ==
    ASSUME NEW T, NEW u \in Seq(T), NEW v \in Seq(T), NEW w \in Seq(T)
    PROVE  /\ Len(Join(Join(u, v), w)) = Len(u) + Len(v) + Len(w)
           /\ Len(Join(u, Join(v, w))) = Len(u) + Len(v) + Len(w)
<1>1. Words(T)
  BY AreWords
<1>2. PICK i \in Nat, j \in Nat, k \in Nat : i = Len(u) /\ j = Len(v) /\ k = Len(w)
  BY <1>1 DEF Words
<1>3. Join(u, v) \in Seq(T) /\ Join(v, w) \in Seq(T) /\ Len(Join(u, v)) = i + j /\ Len(Join(v, w)) = j + k
  BY <1>1, <1>2 DEF Words
<1>4. Len(Join(Join(u, v), w)) = Len(Join(u, v)) + Len(w)
  BY ONLY <1>1, <1>3, w \in Seq(T) DEF Words
<1>5. Len(Join(u, Join(v, w))) = Len(u) + Len(Join(v, w))
  BY ONLY <1>1, <1>3, u \in Seq(T) DEF Words
<1> QED
  BY ONLY <1>2, <1>3, <1>4, <1>5

LEMMA InsertionsCommute ==
    ASSUME NEW T, NEW s \in Seq(T), NEW x \in Seq(T), NEW y \in Seq(T),
           NEW p \in 0 .. Len(s), NEW q \in 0 .. Len(s), p <= q
    PROVE  Insertion(Insertion(s, p, x), q + Len(x), y) = Insertion(Insertion(s, q, y), p, x)
<1>0. Words(T)
  BY AreWords
<1>1. PICK d \in Seq(T), c \in Seq(T) : s = Join(d, c) /\ Len(d) = q
  BY Split
<1>2. p \in 0 .. Len(d)
  BY <1>1
<1>3. PICK a \in Seq(T), b \in Seq(T) : d = Join(a, b) /\ Len(a) = p
  BY <1>2, Split
<1>4. /\ Join(a, x) \in Seq(T) /\ Join(b, c) \in Seq(T) /\ Join(b, y) \in Seq(T)
      /\ Join(Join(a, x), b) \in Seq(T) /\ Join(Join(b, y), c) \in Seq(T)
  BY <1>0 DEF Words
<1>5. Len(Join(Join(a, x), b)) = q + Len(x)
  <2>1. PICK i \in Nat, j \in Nat, k \in Nat : i = Len(a) /\ j = Len(b) /\ k = Len(x)
    BY <1>0 DEF Words
  <2>2. Len(Join(Join(a, x), b)) = i + k + j
    BY <2>1, LenOfThree
  <2>3. q = i + j
    BY <2>1, <1>0, <1>1, <1>3 DEF Words
  <2> QED
    BY <2>1, <2>2, <2>3
<1>6. Insertion(Join(a, Join(b, c)), Len(a), x) = Join(Join(a, x), Join(b, c))
  BY <1>4, InsertionAt
<1>7. /\ Join(Join(a, b), c) = Join(a, Join(b, c))
      /\ Join(Join(a, x), Join(b, c)) = Join(Join(Join(a, x), b), c)
  BY <1>0, <1>4 DEF Words
<1>8. Insertion(Join(Join(Join(a, x), b), c), Len(Join(Join(a, x), b)), y)
         = Join(Join(Join(Join(a, x), b), y), c)
  BY <1>4, InsertionAt
<1>9. Insertion(Join(d, c), Len(d), y) = Join(Join(d, y), c)
  BY InsertionAt
<1>10. Join(Join(Join(a, b), y), c) = Join(a, Join(Join(b, y), c))
  BY <1>0, <1>4 DEF Words
<1>11. Insertion(Join(a, Join(Join(b, y), c)), Len(a), x) = Join(Join(a, x), Join(Join(b, y), c))
  BY <1>4, InsertionAt
<1>12. Join(Join(a, x), Join(Join(b, y), c)) = Join(Join(Join(Join(a, x), b), y), c)
  BY <1>0, <1>4 DEF Words
<1> QED
  BY <1>1, <1>3, <1>5, <1>6, <1>7, <1>8, <1>9, <1>10, <1>11, <1>12

(* x is in the text s, at the place p. *)
Shown(T, s, p, x) == \E a, b \in Seq(T) : s = Join(a, Join(x, b)) /\ p = Len(a)

(* The part of a text between two places.                                  *)
LEMMA PartIsShown ==
    ASSUME NEW T, NEW s \in Seq(T), NEW p \in 0 .. Len(s), NEW q \in 0 .. Len(s), p <= q,
           NEW k, k = p + 1, NEW x, x = SubSeq(s, k, q)
    PROVE  x \in Seq(T) /\ Shown(T, s, p, x)
<1>1. PICK l \in Nat : l = Len(s)
  BY LenProperties
<1>2. p \in Nat /\ q \in Nat /\ p <= l /\ q <= l /\ p + 1 \in 1 .. l + 1 /\ q \in p + 1 - 1 .. l
         /\ l \in q .. l /\ 1 \in 1 .. l + 1 /\ p \in 1 - 1 .. l /\ l \in p .. l
  BY <1>1
<1>3. SubSeq(s, 1, p) \o SubSeq(s, p + 1, l) = SubSeq(s, 1, l)
  BY <1>1, <1>2, ConcatAdjacentSubSeq
<1>4. SubSeq(s, p + 1, q) \o SubSeq(s, q + 1, l) = SubSeq(s, p + 1, l)
  <2>1. PICK m \in Nat : m = p + 1
    BY <1>2
  <2>2. m \in 1 .. Len(s) + 1 /\ q \in m - 1 .. Len(s) /\ l \in q .. Len(s)
    BY <1>1, <1>2, <2>1
  <2>3. SubSeq(s, m, q) \o SubSeq(s, q + 1, l) = SubSeq(s, m, l)
    BY ONLY <2>2, s \in Seq(T), ConcatAdjacentSubSeq
  <2> QED
    BY <2>1, <2>3
<1>5. SubSeq(s, 1, l) = s
  BY <1>1, SubSeqFull
<1>6. \A i \in 1 .. l : s[i] \in T
  BY <1>1, ElementOfSeq
<1>7. SubSeq(s, 1, p) \in Seq(T) /\ Len(SubSeq(s, 1, p)) = IF 1 <= p THEN p - 1 + 1 ELSE 0
  BY <1>2, <1>6, SubSeqProperties, 1 \in Int, p \in Int
<1>8. SubSeq(s, q + 1, l) \in Seq(T)
  BY <1>2, <1>6, SubSeqProperties, q + 1 \in Int, l \in Int
<1>9. SubSeq(s, p + 1, q) \in Seq(T)
  BY <1>2, <1>6, SubSeqProperties, p + 1 \in Int, q \in Int
<1>10. Len(SubSeq(s, 1, p)) = p
  BY <1>2, <1>7
<1>11. s = SubSeq(s, 1, p) \o (x \o SubSeq(s, q + 1, l)) /\ x \in Seq(T)
  BY ONLY <1>3, <1>4, <1>5, <1>9, k = p + 1, x = SubSeq(s, k, q)
<1> QED
  BY ONLY <1>7, <1>8, <1>10, <1>11 DEF Shown, Join

LEMMA UndoInsertion ==
    ASSUME NEW T, NEW s \in Seq(T), NEW x \in Seq(T), NEW p \in 0 .. Len(s)
    PROVE  Removal(Insertion(s, p, x), p, Len(x)) = s
<1>1. PICK a \in Seq(T), b \in Seq(T) : s = Join(a, b) /\ Len(a) = p
  BY Split
<1>2. Insertion(Join(a, b), Len(a), x) = Join(Join(a, x), b)
  BY InsertionAt
<1>3. Join(Join(a, x), b) = Join(a, Join(x, b))
  BY AreWords DEF Words
<1>4. Removal(Join(a, Join(x, b)), Len(a), Len(x)) = Join(a, b)
  BY RemovalAt
<1> QED
  BY <1>1, <1>2, <1>3, <1>4

LEMMA UndoRemoval ==
    ASSUME NEW T, NEW s, NEW x \in Seq(T), NEW p, Shown(T, s, p, x)
    PROVE  Insertion(Removal(s, p, Len(x)), p, x) = s
<1>1. PICK a \in Seq(T), b \in Seq(T) : s = Join(a, Join(x, b)) /\ p = Len(a)
  BY DEF Shown
<1>2. Removal(Join(a, Join(x, b)), Len(a), Len(x)) = Join(a, b)
  BY RemovalAt
<1>3. Insertion(Join(a, b), Len(a), x) = Join(Join(a, x), b)
  BY InsertionAt
<1>4. Join(Join(a, x), b) = Join(a, Join(x, b))
  BY AreWords DEF Words
<1> QED
  BY <1>1, <1>2, <1>3, <1>4

LEMMA InsertionLen ==
    ASSUME NEW T, NEW s \in Seq(T), NEW x \in Seq(T), NEW p \in 0 .. Len(s)
    PROVE  Insertion(s, p, x) \in Seq(T) /\ Len(Insertion(s, p, x)) = Len(s) + Len(x)
<1>0. Words(T)
  BY AreWords
<1>1. PICK a \in Seq(T), b \in Seq(T) : s = Join(a, b) /\ Len(a) = p
  BY Split
<1>2. PICK i \in Nat, j \in Nat, k \in Nat : i = Len(a) /\ j = Len(b) /\ k = Len(x)
  BY <1>0 DEF Words
<1>3. Insertion(Join(a, b), Len(a), x) = Join(Join(a, x), b)
  BY InsertionAt
<1>4. Len(Join(Join(a, x), b)) = i + k + j
  BY <1>2, LenOfThree
<1>5. Len(s) = i + j /\ Join(a, x) \in Seq(T)
  BY <1>0, <1>1, <1>2 DEF Words
<1>6. Join(Join(a, x), b) \in Seq(T)
  BY <1>0, <1>5 DEF Words
<1> QED
  BY ONLY <1>1, <1>2, <1>3, <1>4, <1>5, <1>6

LEMMA RemovalLen ==
    ASSUME NEW T, NEW s, NEW x \in Seq(T), NEW p, Shown(T, s, p, x)
    PROVE  /\ Removal(s, p, Len(x)) \in Seq(T) /\ Len(Removal(s, p, Len(x))) = Len(s) - Len(x)
           /\ s \in Seq(T) /\ p \in Nat /\ p + Len(x) <= Len(s)
<1>0. Words(T)
  BY AreWords
<1>1. PICK a \in Seq(T), b \in Seq(T) : s = Join(a, Join(x, b)) /\ p = Len(a)
  BY DEF Shown
<1>2. PICK i \in Nat, j \in Nat, k \in Nat : i = Len(a) /\ j = Len(b) /\ k = Len(x)
  BY <1>0 DEF Words
<1>3. Removal(Join(a, Join(x, b)), Len(a), Len(x)) = Join(a, b)
  BY RemovalAt
<1>4. Len(s) = i + k + j
  BY <1>1, <1>2, LenOfThree
<1>5. Join(a, b) \in Seq(T) /\ Len(Join(a, b)) = i + j /\ Join(x, b) \in Seq(T)
  BY <1>0, <1>2 DEF Words
<1>6. s \in Seq(T)
  BY <1>0, <1>1, <1>5 DEF Words
<1> QED
  BY ONLY <1>1, <1>2, <1>3, <1>4, <1>5, <1>6

(* A removal of x at p, an insertion of y behind it or before it.          *)
LEMMA InsertionBehind ==
    ASSUME NEW T, NEW a \in Seq(T), NEW x \in Seq(T), NEW b \in Seq(T), NEW y \in Seq(T),
           NEW s, s = Join(a, Join(x, b)), NEW q \in 0 .. Len(s), Len(a) + Len(x) <= q
    PROVE  /\ Insertion(Removal(s, Len(a), Len(x)), q - Len(x), y)
                 = Removal(Insertion(s, q, y), Len(a), Len(x))
           /\ Shown(T, Insertion(s, q, y), Len(a), x)
<1>0. Words(T)
  BY AreWords
<1>1. PICK k \in Nat, m \in Nat, l \in Nat : k = Len(a) /\ m = Len(x) /\ l = Len(b)
  BY <1>0 DEF Words
<1>2. Len(s) = k + m + l
  BY <1>1, LenOfThree
<1>3. q - (k + m) \in 0 .. Len(b)
  BY <1>1, <1>2
<1>4. PICK c \in Seq(T), d \in Seq(T) : b = Join(c, d) /\ Len(c) = q - (k + m)
  BY <1>3, Split
<1>5. /\ Join(a, c) \in Seq(T) /\ Join(x, Join(c, d)) \in Seq(T) /\ Join(c, d) \in Seq(T)
      /\ Join(Join(a, x), c) \in Seq(T) /\ Join(Join(c, y), d) \in Seq(T)
  BY <1>0 DEF Words
<1>6. Len(Join(a, c)) = Len(a) + Len(c) /\ Len(Join(Join(a, x), c)) = Len(a) + Len(x) + Len(c)
  BY <1>0, LenOfThree DEF Words
<1>7. Len(Join(a, c)) = q - m /\ Len(Join(Join(a, x), c)) = q
  BY ONLY <1>1, <1>4, <1>6, q \in 0 .. Len(s), <1>2
<1>16. Removal(s, Len(a), Len(x)) = Join(a, b)
  BY RemovalAt
<1>17. Join(a, Join(c, d)) = Join(Join(a, c), d)
  BY <1>0 DEF Words
<1>8. Removal(s, Len(a), Len(x)) = Join(a, Join(c, d)) /\ Join(a, Join(c, d)) = Join(Join(a, c), d)
  BY ONLY <1>4, <1>16, <1>17
<1>9. Insertion(Join(Join(a, c), d), Len(Join(a, c)), y) = Join(Join(Join(a, c), y), d)
  BY <1>5, InsertionAt
<1>10. Join(a, Join(x, Join(c, d))) = Join(Join(Join(a, x), c), d)
  BY FourWords
<1>11. Insertion(Join(Join(Join(a, x), c), d), Len(Join(Join(a, x), c)), y)
          = Join(Join(Join(Join(a, x), c), y), d)
  BY <1>5, InsertionAt
<1>12. /\ Join(Join(Join(Join(a, x), c), y), d) = Join(a, Join(x, Join(Join(c, y), d)))
       /\ Join(Join(Join(a, c), y), d) = Join(a, Join(Join(c, y), d))
  <2>1. Join(c, y) \in Seq(T)
    BY <1>0 DEF Words
  <2>2. Join(Join(Join(a, x), Join(c, y)), d) = Join(a, Join(x, Join(Join(c, y), d)))
    BY <2>1, FourWords
  <2>3. /\ Join(Join(Join(a, x), c), y) = Join(a, Join(x, Join(c, y)))
        /\ Join(Join(a, x), Join(c, y)) = Join(a, Join(x, Join(c, y)))
    BY FourWords
  <2>4. Join(Join(Join(a, c), y), d) = Join(a, Join(Join(c, y), d))
    BY FourWords
  <2> QED
    BY ONLY <2>2, <2>3, <2>4
<1>13. Removal(Join(a, Join(x, Join(Join(c, y), d))), Len(a), Len(x)) = Join(a, Join(Join(c, y), d))
  BY <1>5, RemovalAt
<1>14. Insertion(s, q, y) = Join(a, Join(x, Join(Join(c, y), d)))
  BY ONLY <1>4, <1>7, <1>10, <1>11, <1>12, s = Join(a, Join(x, b))
<1>15. Insertion(Removal(s, Len(a), Len(x)), q - Len(x), y) = Join(a, Join(Join(c, y), d))
  BY ONLY <1>1, <1>7, <1>8, <1>9, <1>12
<1> QED
  BY ONLY <1>5, <1>13, <1>14, <1>15, a \in Seq(T) DEF Shown

LEMMA InsertionAhead ==
    ASSUME NEW T, NEW a \in Seq(T), NEW x \in Seq(T), NEW b \in Seq(T), NEW y \in Seq(T),
           NEW s, s = Join(a, Join(x, b)), NEW q \in Nat, q <= Len(a)
    PROVE  /\ Insertion(Removal(s, Len(a), Len(x)), q, y)
                 = Removal(Insertion(s, q, y), Len(a) + Len(y), Len(x))
           /\ Shown(T, Insertion(s, q, y), Len(a) + Len(y), x)
<1>0. Words(T)
  BY AreWords
<1>1. q \in 0 .. Len(a)
  BY <1>0 DEF Words
<1>2. PICK c \in Seq(T), d \in Seq(T) : a = Join(c, d) /\ Len(c) = q
  BY <1>1, Split
<1>3. /\ Join(d, b) \in Seq(T) /\ Join(d, Join(x, b)) \in Seq(T) /\ Join(x, b) \in Seq(T)
      /\ Join(Join(c, y), d) \in Seq(T)
  BY <1>0 DEF Words
<1>4. Len(Join(Join(c, y), d)) = Len(a) + Len(y)
  <2>1. PICK i \in Nat, j \in Nat, k \in Nat : i = Len(c) /\ j = Len(d) /\ k = Len(y)
    BY <1>0 DEF Words
  <2>2. Len(Join(Join(c, y), d)) = i + k + j
    BY <2>1, LenOfThree
  <2>3. Len(a) = i + j
    BY <2>1, <1>0, <1>2 DEF Words
  <2> QED
    BY <2>1, <2>2, <2>3
<1>5. Removal(s, Len(a), Len(x)) = Join(Join(c, d), b)
  BY <1>2, RemovalAt
<1>6. /\ Join(Join(c, d), b) = Join(c, Join(d, b))
      /\ Join(Join(c, d), Join(x, b)) = Join(c, Join(d, Join(x, b)))
      /\ Join(Join(c, y), Join(d, Join(x, b))) = Join(Join(Join(c, y), d), Join(x, b))
      /\ Join(Join(c, y), Join(d, b)) = Join(Join(Join(c, y), d), b)
  <2>1. Join(Join(c, d), b) = Join(c, Join(d, b))
    BY <1>0 DEF Words
  <2>2. Join(Join(c, d), Join(x, b)) = Join(c, Join(d, Join(x, b)))
    BY FourWords
  <2>3. Join(Join(c, y), Join(d, Join(x, b))) = Join(Join(Join(c, y), d), Join(x, b))
    BY <1>3, FourWords
  <2>4. Join(Join(c, y), Join(d, b)) = Join(Join(Join(c, y), d), b)
    BY FourWords
  <2> QED
    BY ONLY <2>1, <2>2, <2>3, <2>4
<1>7. Insertion(Join(c, Join(d, b)), Len(c), y) = Join(Join(c, y), Join(d, b))
  BY <1>3, InsertionAt
<1>8. Insertion(Join(c, Join(d, Join(x, b))), Len(c), y) = Join(Join(c, y), Join(d, Join(x, b)))
  BY <1>3, InsertionAt
<1>9. Removal(Join(Join(Join(c, y), d), Join(x, b)), Len(Join(Join(c, y), d)), Len(x))
         = Join(Join(Join(c, y), d), b)
  BY <1>3, RemovalAt
<1>10. Insertion(s, q, y) = Join(Join(Join(c, y), d), Join(x, b))
  BY ONLY <1>2, <1>6, <1>8, s = Join(a, Join(x, b))
<1>11. Insertion(Removal(s, Len(a), Len(x)), q, y) = Join(Join(Join(c, y), d), b)
  BY ONLY <1>2, <1>5, <1>6, <1>7
<1> QED
  BY ONLY <1>3, <1>4, <1>9, <1>10, <1>11, b \in Seq(T) DEF Shown

(* A removal that an insertion cuts in two.                                *)
IsInside(T, s, a, v, w, b, y, p, q, m, i) ==
    /\ a \in Seq(T) /\ v \in Seq(T) /\ w \in Seq(T) /\ b \in Seq(T) /\ y \in Seq(T)
    /\ s = Join(a, Join(Join(v, w), b)) /\ p = Len(a) /\ q = p + Len(v)
    /\ m = p + Len(y) /\ i = Insertion(s, q, y)

LEMMA InsertionInside ==
    ASSUME NEW T, NEW s, NEW a, NEW v, NEW w, NEW b, NEW y, NEW p, NEW q, NEW m, NEW i,
           IsInside(T, s, a, v, w, b, y, p, q, m, i)
    PROVE  /\ Removal(Removal(i, p, Len(v)), m, Len(w)) = Insertion(Removal(s, p, Len(Join(v, w))), p, y)
           /\ Shown(T, i, p, v) /\ Shown(T, Removal(i, p, Len(v)), m, w)
<1>0. Words(T)
  BY AreWords
<1>10. /\ a \in Seq(T) /\ v \in Seq(T) /\ w \in Seq(T) /\ b \in Seq(T) /\ y \in Seq(T)
       /\ s = Join(a, Join(Join(v, w), b)) /\ p = Len(a) /\ q = p + Len(v)
       /\ m = p + Len(y) /\ i = Insertion(s, q, y)
  BY DEF IsInside
<1>1. /\ Join(a, v) \in Seq(T) /\ Join(w, b) \in Seq(T) /\ Join(y, Join(w, b)) \in Seq(T)
      /\ Join(a, y) \in Seq(T) /\ Join(v, w) \in Seq(T)
      /\ Len(Join(a, v)) = Len(a) + Len(v) /\ Len(Join(a, y)) = Len(a) + Len(y)
  BY <1>0, <1>10 DEF Words
<1>2. /\ Join(a, Join(Join(v, w), b)) = Join(Join(a, v), Join(w, b))
      /\ Join(Join(Join(a, v), y), Join(w, b)) = Join(a, Join(v, Join(y, Join(w, b))))
      /\ Join(a, Join(y, Join(w, b))) = Join(Join(a, y), Join(w, b))
  <2>1. Join(a, Join(Join(v, w), b)) = Join(Join(a, v), Join(w, b))
    BY <1>10, FourWords
  <2>2. Join(Join(Join(a, v), y), Join(w, b)) = Join(a, Join(v, Join(y, Join(w, b))))
    BY <1>1, <1>10, FourWords
  <2>3. Join(a, Join(y, Join(w, b))) = Join(Join(a, y), Join(w, b))
    BY <1>10, FourWords
  <2> QED
    BY ONLY <2>1, <2>2, <2>3
<1>3. Insertion(Join(Join(a, v), Join(w, b)), Len(Join(a, v)), y) = Join(Join(Join(a, v), y), Join(w, b))
  BY <1>1, <1>10, InsertionAt
<1>4. i = Join(a, Join(v, Join(y, Join(w, b))))
  BY ONLY <1>1, <1>2, <1>3, <1>10
<1>5. Removal(Join(a, Join(v, Join(y, Join(w, b)))), Len(a), Len(v)) = Join(a, Join(y, Join(w, b)))
  BY <1>1, <1>10, RemovalAt
<1>6. Removal(Join(Join(a, y), Join(w, b)), Len(Join(a, y)), Len(w)) = Join(Join(a, y), b)
  BY <1>1, <1>10, RemovalAt
<1>7. Removal(s, Len(a), Len(Join(v, w))) = Join(a, b)
  BY <1>1, <1>10, RemovalAt
<1>8. Insertion(Join(a, b), Len(a), y) = Join(Join(a, y), b)
  BY <1>10, InsertionAt
<1>9. Removal(i, Len(a), Len(v)) = Join(Join(a, y), Join(w, b))
  BY ONLY <1>2, <1>4, <1>5
<1> QED
  BY ONLY <1>1, <1>4, <1>6, <1>7, <1>8, <1>9, <1>10 DEF Shown

(* Two removals of different parts of a text.                              *)
LEMMA RemovalsApart ==
    ASSUME NEW T, NEW a \in Seq(T), NEW x \in Seq(T), NEW e \in Seq(T), NEW y \in Seq(T), NEW d \in Seq(T),
           NEW s, s = Join(Join(Join(a, x), e), Join(y, d)), NEW q, q = Len(a) + Len(x) + Len(e)
    PROVE  /\ Removal(Removal(s, Len(a), Len(x)), Len(a) + Len(e), Len(y))
                 = Removal(Removal(s, q, Len(y)), Len(a), Len(x))
           /\ Shown(T, Removal(s, Len(a), Len(x)), Len(a) + Len(e), y)
           /\ Shown(T, Removal(s, q, Len(y)), Len(a), x)
<1>0. Words(T)
  BY AreWords
<1>1. /\ Join(y, d) \in Seq(T) /\ Join(e, Join(y, d)) \in Seq(T) /\ Join(Join(a, x), e) \in Seq(T)
      /\ Join(a, e) \in Seq(T) /\ Join(e, d) \in Seq(T) /\ Len(Join(a, e)) = Len(a) + Len(e)
  BY <1>0 DEF Words
<1>2. Len(Join(Join(a, x), e)) = q
  BY LenOfThree
<1>3. s = Join(a, Join(x, Join(e, Join(y, d))))
  BY <1>1, FourWords
<1>4. Removal(Join(a, Join(x, Join(e, Join(y, d)))), Len(a), Len(x)) = Join(a, Join(e, Join(y, d)))
  BY <1>1, RemovalAt
<1>5. Join(a, Join(e, Join(y, d))) = Join(Join(a, e), Join(y, d))
  BY FourWords
<1>6. Removal(Join(Join(a, e), Join(y, d)), Len(Join(a, e)), Len(y)) = Join(Join(a, e), d)
  BY <1>1, RemovalAt
<1>7. Removal(Join(Join(Join(a, x), e), Join(y, d)), Len(Join(Join(a, x), e)), Len(y)) = Join(Join(Join(a, x), e), d)
  BY <1>1, RemovalAt
<1>8. Join(Join(Join(a, x), e), d) = Join(a, Join(x, Join(e, d)))
  BY FourWords
<1>9. Removal(Join(a, Join(x, Join(e, d))), Len(a), Len(x)) = Join(a, Join(e, d))
  BY <1>1, RemovalAt
<1>10. Join(a, Join(e, d)) = Join(Join(a, e), d)
  BY <1>0 DEF Words
<1>11. Removal(s, Len(a), Len(x)) = Join(Join(a, e), Join(y, d))
  BY ONLY <1>3, <1>4, <1>5
<1>12. Removal(s, q, Len(y)) = Join(a, Join(x, Join(e, d)))
  BY ONLY <1>2, <1>7, <1>8, s = Join(Join(Join(a, x), e), Join(y, d))
<1> QED
  BY ONLY <1>1, <1>6, <1>9, <1>10, <1>11, <1>12, a \in Seq(T), d \in Seq(T) DEF Shown

(* The second one starts first, they share g.                              *)
IsOverlap(T, s, c, e, g, h, b, x, y, p, q) ==
    /\ c \in Seq(T) /\ e \in Seq(T) /\ g \in Seq(T) /\ h \in Seq(T) /\ b \in Seq(T)
    /\ x = Join(g, h) /\ y = Join(e, g) /\ s = Join(c, Join(y, Join(h, b)))
    /\ q = Len(c) /\ p = Len(c) + Len(e)

LEMMA RemovalsOverlap ==
    ASSUME NEW T, NEW s, NEW c, NEW e, NEW g, NEW h, NEW b, NEW x, NEW y, NEW p, NEW q,
           IsOverlap(T, s, c, e, g, h, b, x, y, p, q)
    PROVE  /\ Removal(Removal(s, p, Len(x)), q, Len(e)) = Removal(Removal(s, q, Len(y)), q, Len(h))
           /\ Shown(T, Removal(s, p, Len(x)), q, e)
<1>0. Words(T)
  BY AreWords
<1>10. /\ c \in Seq(T) /\ e \in Seq(T) /\ g \in Seq(T) /\ h \in Seq(T) /\ b \in Seq(T)
       /\ x = Join(g, h) /\ y = Join(e, g) /\ s = Join(c, Join(y, Join(h, b)))
       /\ q = Len(c) /\ p = Len(c) + Len(e)
  BY DEF IsOverlap
<1>1. /\ Join(e, g) \in Seq(T) /\ Join(g, h) \in Seq(T) /\ Join(h, b) \in Seq(T) /\ Join(c, e) \in Seq(T)
      /\ Len(Join(c, e)) = Len(c) + Len(e)
  BY <1>10, <1>0 DEF Words
<1>2. s = Join(Join(c, e), Join(Join(g, h), b))
  <2>1. Join(c, Join(Join(e, g), Join(h, b))) = Join(c, Join(e, Join(g, Join(h, b))))
    BY <1>10, <1>1, FourWords
  <2>2. Join(Join(c, e), Join(g, Join(h, b))) = Join(c, Join(e, Join(g, Join(h, b))))
    BY <1>10, <1>1, FourWords
  <2>3. Join(Join(g, h), b) = Join(g, Join(h, b))
    BY <1>10, <1>0 DEF Words
  <2> QED
    BY ONLY <1>10, <2>1, <2>2, <2>3
<1>3. Removal(Join(Join(c, e), Join(Join(g, h), b)), Len(Join(c, e)), Len(Join(g, h))) = Join(Join(c, e), b)
  BY <1>10, <1>1, RemovalAt
<1>4. Join(Join(c, e), b) = Join(c, Join(e, b))
  BY <1>10, <1>0 DEF Words
<1>5. Removal(Join(c, Join(e, b)), Len(c), Len(e)) = Join(c, b)
  BY <1>10, RemovalAt
<1>6. Removal(Join(c, Join(Join(e, g), Join(h, b))), Len(c), Len(Join(e, g))) = Join(c, Join(h, b))
  BY <1>10, <1>1, RemovalAt
<1>7. Removal(Join(c, Join(h, b)), Len(c), Len(h)) = Join(c, b)
  BY <1>10, RemovalAt
<1>8. Removal(s, Len(c) + Len(e), Len(Join(g, h))) = Join(c, Join(e, b))
  BY ONLY <1>10, <1>1, <1>2, <1>3, <1>4
<1> QED
  BY ONLY <1>10, <1>5, <1>6, <1>7, <1>8 DEF Shown

(* The second one is around the first. *)
IsAround(T, s, c, e, h, d, x, y, p, q) ==
    /\ c \in Seq(T) /\ e \in Seq(T) /\ x \in Seq(T) /\ h \in Seq(T) /\ d \in Seq(T)
    /\ y = Join(e, Join(x, h)) /\ s = Join(c, Join(y, d)) /\ q = Len(c) /\ p = Len(c) + Len(e)

LEMMA RemovalAround ==
    ASSUME NEW T, NEW s, NEW c, NEW e, NEW h, NEW d, NEW x, NEW y, NEW p, NEW q,
           IsAround(T, s, c, e, h, d, x, y, p, q)
    PROVE  /\ Removal(Removal(s, p, Len(x)), q, Len(Join(e, h))) = Removal(s, q, Len(y))
           /\ Shown(T, Removal(s, p, Len(x)), q, Join(e, h))
<1>0. Words(T)
  BY AreWords
<1>10. /\ c \in Seq(T) /\ e \in Seq(T) /\ x \in Seq(T) /\ h \in Seq(T) /\ d \in Seq(T)
       /\ y = Join(e, Join(x, h)) /\ s = Join(c, Join(y, d)) /\ q = Len(c) /\ p = Len(c) + Len(e)
  BY DEF IsAround
<1>1. /\ Join(x, h) \in Seq(T) /\ Join(e, Join(x, h)) \in Seq(T) /\ Join(h, d) \in Seq(T) /\ Join(c, e) \in Seq(T)
      /\ Join(e, h) \in Seq(T) /\ Len(Join(c, e)) = Len(c) + Len(e)
  BY <1>10, <1>0 DEF Words
<1>2. s = Join(Join(c, e), Join(x, Join(h, d)))
  <2>1. Join(Join(e, Join(x, h)), d) = Join(e, Join(x, Join(h, d)))
    BY <1>10, FourWords
  <2>2. Join(Join(c, e), Join(x, Join(h, d))) = Join(c, Join(e, Join(x, Join(h, d))))
    BY <1>10, <1>1, FourWords
  <2> QED
    BY ONLY <1>10, <2>1, <2>2
<1>3. Removal(Join(Join(c, e), Join(x, Join(h, d))), Len(Join(c, e)), Len(x)) = Join(Join(c, e), Join(h, d))
  BY <1>10, <1>1, RemovalAt
<1>4. Join(Join(c, e), Join(h, d)) = Join(c, Join(Join(e, h), d))
  BY <1>10, FourWords
<1>5. Removal(Join(c, Join(Join(e, h), d)), Len(c), Len(Join(e, h))) = Join(c, d)
  BY <1>10, <1>1, RemovalAt
<1>6. Removal(Join(c, Join(Join(e, Join(x, h)), d)), Len(c), Len(Join(e, Join(x, h)))) = Join(c, d)
  BY <1>10, <1>1, RemovalAt
<1>8. Removal(s, Len(c) + Len(e), Len(x)) = Join(c, Join(Join(e, h), d))
  BY ONLY <1>10, <1>1, <1>2, <1>3, <1>4
<1> QED
  BY ONLY <1>10, <1>5, <1>6, <1>8 DEF Shown

(* Two parts of one text, one behind the other. *)
LEMMA ShownApart ==
    ASSUME NEW T, NEW x \in Seq(T), NEW y \in Seq(T), NEW s, NEW p, NEW q,
           Shown(T, s, p, x), Shown(T, s, q, y), p + Len(x) <= q
    PROVE  \E a, e, d \in Seq(T) :
              /\ s = Join(Join(Join(a, x), e), Join(y, d))
              /\ p = Len(a) /\ q = Len(a) + Len(x) + Len(e)
<1>0. Words(T)
  BY AreWords
<1>1. PICK a \in Seq(T), b \in Seq(T) : s = Join(a, Join(x, b)) /\ p = Len(a)
  BY DEF Shown
<1>2. PICK c \in Seq(T), d \in Seq(T) : s = Join(c, Join(y, d)) /\ q = Len(c)
  BY DEF Shown
<1>3. Join(a, x) \in Seq(T) /\ Join(y, d) \in Seq(T) /\ Len(Join(a, x)) = Len(a) + Len(x)
  BY <1>0 DEF Words
<1>4. Join(Join(a, x), b) = Join(a, Join(x, b))
  BY <1>0 DEF Words
<1>5. Join(Join(a, x), b) = Join(c, Join(y, d)) /\ Len(Join(a, x)) <= Len(c)
  BY <1>1, <1>2, <1>3, <1>4
<1>6. PICK e \in Seq(T) : c = Join(Join(a, x), e)
  BY <1>3, <1>5, CutTwice
<1>7. Len(c) = Len(a) + Len(x) + Len(e)
  BY <1>6, LenOfThree
<1> QED
  BY <1>1, <1>2, <1>6, <1>7

(* y starts first and goes on into x. *)
LEMMA ShownOverlap ==
    ASSUME NEW T, NEW x \in Seq(T), NEW y \in Seq(T), NEW s, NEW p, NEW q,
           Shown(T, s, p, x), Shown(T, s, q, y), q <= p, p <= q + Len(y)
    PROVE  \E c, e \in Seq(T) : q = Len(c) /\ p = Len(c) + Len(e) /\
              \/ /\ q + Len(y) <= p + Len(x)
                 /\ \E g, h, b \in Seq(T) : y = Join(e, g) /\ x = Join(g, h)
                                             /\ s = Join(c, Join(Join(e, g), Join(h, b)))
              \/ /\ p + Len(x) < q + Len(y)
                 /\ \E h, d \in Seq(T) : y = Join(e, Join(x, h)) /\ s = Join(c, Join(Join(e, Join(x, h)), d))
<1>0. Words(T)
  BY AreWords
<1>1. PICK a \in Seq(T), b \in Seq(T) : s = Join(a, Join(x, b)) /\ p = Len(a)
  BY DEF Shown
<1>2. PICK c \in Seq(T), d \in Seq(T) : s = Join(c, Join(y, d)) /\ q = Len(c)
  BY DEF Shown
<1>3. Join(x, b) \in Seq(T) /\ Join(y, d) \in Seq(T)
  BY <1>0 DEF Words
<1>12. Join(c, Join(y, d)) = Join(a, Join(x, b)) /\ Len(c) <= Len(a)
  BY <1>1, <1>2
<1>4. PICK e \in Seq(T) : a = Join(c, e) /\ Join(y, d) = Join(e, Join(x, b))
  BY <1>3, <1>12, CutTwice
<1>5. p = Len(c) + Len(e)
  BY <1>0, <1>1, <1>4 DEF Words
<1>6. Len(c) \in Nat /\ Len(e) \in Nat /\ Len(x) \in Nat /\ Len(y) \in Nat
  BY <1>0 DEF Words
<1>7. Len(e) <= Len(y)
  BY ONLY <1>2, <1>5, <1>6, p <= q + Len(y)
<1>8. PICK g \in Seq(T) : y = Join(e, g) /\ Join(x, b) = Join(g, d)
  BY <1>3, <1>4, <1>7, CutTwice
<1>9. Len(y) = Len(e) + Len(g) /\ Len(g) \in Nat
  BY <1>0, <1>8 DEF Words
<1>10. CASE Len(g) <= Len(x)
  <2>1. PICK h \in Seq(T) : x = Join(g, h) /\ d = Join(h, b)
    BY <1>8, <1>10, CutTwice
  <2>2. q + Len(y) <= p + Len(x)
    BY ONLY <1>2, <1>5, <1>6, <1>9, <1>10
  <2> QED
    BY <1>2, <1>5, <1>8, <2>1, <2>2
<1>11. CASE Len(x) < Len(g)
  <2>1. Len(x) <= Len(g)
    BY <1>6, <1>9, <1>11
  <2>2. PICK h \in Seq(T) : g = Join(x, h) /\ b = Join(h, d)
    BY <1>8, <2>1, CutTwice
  <2>3. p + Len(x) < q + Len(y)
    BY ONLY <1>2, <1>5, <1>6, <1>9, <1>11
  <2> QED
    BY <1>2, <1>5, <1>8, <2>2, <2>3
<1> QED
  BY <1>6, <1>9, <1>10, <1>11

-----------------------------------------------------------------------------
LEMMA UpTo ==
    ASSUME NEW n \in Nat, NEW S, 0 \in S, \A i \in 1..n : i - 1 \in S => i \in S
    PROVE  0..n \subseteq S
<1> SUFFICES ASSUME ~(0..n \subseteq S) PROVE FALSE
  OBVIOUS
<1> DEFINE T == (0..n) \ S
<1>1. T \subseteq Nat /\ T # {}
  OBVIOUS
<1>2. PICK x \in T : \A y \in T : ~ (<<y, x>> \in OpToRel(<, Nat))
  BY <1>1, NatLessThanWellFounded, WFMin
<1>3. x \in 1..n
  OBVIOUS
<1>4. x - 1 \in Nat /\ x \in Nat /\ x - 1 < x /\ x - 1 \in 0..n
  BY <1>3
<1>5. <<x - 1, x>> \in OpToRel(<, Nat)
  BY <1>4 DEF OpToRel
<1>6. x - 1 \in S
  BY <1>2, <1>4, <1>5
<1>7. x \in S
  BY <1>3, <1>6
<1> QED
  BY <1>7

(* The loops, of at most two turns.                                        *)
LEMMA SizeOfNone == Size(<<>>) = 0
<1> DEFINE f == CHOOSE f : f = [k \in 0 .. Len(<<>>) |-> IF k = 0 THEN 0 ELSE f[k - 1] + Bytes(<<>>[k])]
<1>1. Size(<<>>) = f[0]
  BY DEF Size
<1>2. f = [k \in 0 .. Len(<<>>) |-> IF k = 0 THEN 0 ELSE f[k - 1] + Bytes(<<>>[k])]
  <2>1. PICK g : g = [k \in 0 .. 0 |-> 0]
    OBVIOUS
  <2>2. g = [k \in 0 .. Len(<<>>) |-> IF k = 0 THEN 0 ELSE g[k - 1] + Bytes(<<>>[k])]
    BY <2>1
  <2> QED
    BY <2>2
<1> HIDE DEF f
<1> QED
  BY <1>1, <1>2

LEMMA SizeOfOne == ASSUME NEW o, Bytes(o) \in Nat PROVE Size(<<o>>) = Bytes(o)
<1> DEFINE f == CHOOSE f : f = [k \in 0 .. Len(<<o>>) |-> IF k = 0 THEN 0 ELSE f[k - 1] + Bytes(<<o>>[k])]
<1>1. Size(<<o>>) = f[1]
  BY DEF Size
<1>2. f = [k \in 0 .. Len(<<o>>) |-> IF k = 0 THEN 0 ELSE f[k - 1] + Bytes(<<o>>[k])]
  <2>1. PICK g : g = [k \in 0 .. 1 |-> IF k = 0 THEN 0 ELSE Bytes(o)]
    OBVIOUS
  <2>2. g = [k \in 0 .. Len(<<o>>) |-> IF k = 0 THEN 0 ELSE g[k - 1] + Bytes(<<o>>[k])]
    BY <2>1
  <2> QED
    BY <2>2
<1> HIDE DEF f
<1>3. f[0] = 0 /\ f[1] = f[0] + Bytes(<<o>>[1])
  BY <1>2
<1> QED
  BY <1>1, <1>3

LEMMA ApplyNone == ASSUME NEW doc PROVE ApplyOps(doc, <<>>) = doc
<1> DEFINE f == CHOOSE f : f = [k \in 0 .. Len(<<>>) |-> IF k = 0 THEN doc ELSE ApplyOp(f[k - 1], <<>>[k])]
<1>1. ApplyOps(doc, <<>>) = f[0]
  BY DEF ApplyOps
<1>2. f = [k \in 0 .. Len(<<>>) |-> IF k = 0 THEN doc ELSE ApplyOp(f[k - 1], <<>>[k])]
  <2>1. PICK g : g = [k \in 0 .. 0 |-> doc]
    OBVIOUS
  <2>2. g = [k \in 0 .. Len(<<>>) |-> IF k = 0 THEN doc ELSE ApplyOp(g[k - 1], <<>>[k])]
    BY <2>1
  <2> QED
    BY <2>2
<1> HIDE DEF f
<1> QED
  BY <1>1, <1>2

LEMMA ApplyOne == ASSUME NEW doc, NEW o PROVE ApplyOps(doc, <<o>>) = ApplyOp(doc, o)
<1> DEFINE f == CHOOSE f : f = [k \in 0 .. Len(<<o>>) |-> IF k = 0 THEN doc ELSE ApplyOp(f[k - 1], <<o>>[k])]
<1>1. ApplyOps(doc, <<o>>) = f[1]
  BY DEF ApplyOps
<1>2. f = [k \in 0 .. Len(<<o>>) |-> IF k = 0 THEN doc ELSE ApplyOp(f[k - 1], <<o>>[k])]
  <2>1. PICK g : g = [k \in 0 .. 1 |-> IF k = 0 THEN doc ELSE ApplyOp(doc, o)]
    OBVIOUS
  <2>2. g = [k \in 0 .. Len(<<o>>) |-> IF k = 0 THEN doc ELSE ApplyOp(g[k - 1], <<o>>[k])]
    BY <2>1
  <2> QED
    BY <2>2
<1> HIDE DEF f
<1>3. f[0] = doc /\ f[1] = ApplyOp(f[0], <<o>>[1])
  BY <1>2
<1> QED
  BY <1>1, <1>3

LEMMA UndoNone == ASSUME NEW doc PROVE UndoOps(doc, <<>>) = doc
<1> DEFINE f == CHOOSE f : f = [k \in 0 .. Len(<<>>) |->
                  IF k = 0 THEN doc ELSE UndoOp(f[k - 1], <<>>[Len(<<>>) + 1 - k])]
<1>1. UndoOps(doc, <<>>) = f[0]
  BY DEF UndoOps
<1>2. f = [k \in 0 .. Len(<<>>) |-> IF k = 0 THEN doc ELSE UndoOp(f[k - 1], <<>>[Len(<<>>) + 1 - k])]
  <2>1. PICK g : g = [k \in 0 .. 0 |-> doc]
    OBVIOUS
  <2>2. g = [k \in 0 .. Len(<<>>) |-> IF k = 0 THEN doc ELSE UndoOp(g[k - 1], <<>>[Len(<<>>) + 1 - k])]
    BY <2>1
  <2> QED
    BY <2>2
<1> HIDE DEF f
<1> QED
  BY <1>1, <1>2

LEMMA UndoOne == ASSUME NEW doc, NEW o PROVE UndoOps(doc, <<o>>) = UndoOp(doc, o)
<1> DEFINE f == CHOOSE f : f = [k \in 0 .. Len(<<o>>) |->
                  IF k = 0 THEN doc ELSE UndoOp(f[k - 1], <<o>>[Len(<<o>>) + 1 - k])]
<1>1. UndoOps(doc, <<o>>) = f[1]
  BY DEF UndoOps
<1>2. f = [k \in 0 .. Len(<<o>>) |-> IF k = 0 THEN doc ELSE UndoOp(f[k - 1], <<o>>[Len(<<o>>) + 1 - k])]
  <2>1. PICK g : g = [k \in 0 .. 1 |-> IF k = 0 THEN doc ELSE UndoOp(doc, o)]
    OBVIOUS
  <2>2. g = [k \in 0 .. Len(<<o>>) |-> IF k = 0 THEN doc ELSE UndoOp(g[k - 1], <<o>>[Len(<<o>>) + 1 - k])]
    BY <2>1
  <2> QED
    BY <2>2
<1> HIDE DEF f
<1>3. f[0] = doc /\ f[1] = UndoOp(f[0], <<o>>[1])
  BY <1>2
<1> QED
  BY <1>1, <1>3

LEMMA UndoTwo == ASSUME NEW doc, NEW o, NEW v PROVE UndoOps(doc, <<o, v>>) = UndoOp(UndoOp(doc, v), o)
<1> DEFINE f == CHOOSE f : f = [k \in 0 .. Len(<<o, v>>) |->
                  IF k = 0 THEN doc ELSE UndoOp(f[k - 1], <<o, v>>[Len(<<o, v>>) + 1 - k])]
<1>1. UndoOps(doc, <<o, v>>) = f[2]
  BY DEF UndoOps
<1>2. f = [k \in 0 .. Len(<<o, v>>) |-> IF k = 0 THEN doc ELSE UndoOp(f[k - 1], <<o, v>>[Len(<<o, v>>) + 1 - k])]
  <2>1. PICK g : g = [k \in 0 .. 2 |-> IF k = 0 THEN doc ELSE IF k = 1 THEN UndoOp(doc, v)
                                       ELSE UndoOp(UndoOp(doc, v), o)]
    OBVIOUS
  <2>2. g = [k \in 0 .. Len(<<o, v>>) |-> IF k = 0 THEN doc ELSE UndoOp(g[k - 1], <<o, v>>[Len(<<o, v>>) + 1 - k])]
    BY <2>1
  <2> QED
    BY <2>2
<1> HIDE DEF f
<1>3. f[0] = doc /\ f[1] = UndoOp(f[0], <<o, v>>[2]) /\ f[2] = UndoOp(f[1], <<o, v>>[1])
  BY <1>2
<1> QED
  BY <1>1, <1>3

LEMMA AgainstNone ==
    ASSUME NEW n, NEW off
    PROVE  Against(n, <<>>, off) = [n |-> n, unk |-> <<>>, tails |-> <<>>, off |-> off]
<1> DEFINE b == [n |-> n, unk |-> <<>>, tails |-> <<>>, off |-> off]
<1> DEFINE f == CHOOSE f : f = [k \in 0 .. Len(<<>>) |-> IF k = 0 THEN b ELSE Met(f[k - 1], <<>>[k])]
<1>1. Against(n, <<>>, off) = f[0]
  BY DEF Against
<1>2. f = [k \in 0 .. Len(<<>>) |-> IF k = 0 THEN b ELSE Met(f[k - 1], <<>>[k])]
  <2>1. PICK g : g = [k \in 0 .. 0 |-> b]
    OBVIOUS
  <2>2. g = [k \in 0 .. Len(<<>>) |-> IF k = 0 THEN b ELSE Met(g[k - 1], <<>>[k])]
    BY <2>1
  <2> QED
    BY <2>2
<1> HIDE DEF f
<1> QED
  BY <1>1, <1>2

LEMMA AgainstOne ==
    ASSUME NEW n, NEW u, NEW off
    PROVE  Against(n, <<u>>, off) = Met([n |-> n, unk |-> <<>>, tails |-> <<>>, off |-> off], u)
<1> DEFINE b == [n |-> n, unk |-> <<>>, tails |-> <<>>, off |-> off]
<1> DEFINE f == CHOOSE f : f = [k \in 0 .. Len(<<u>>) |-> IF k = 0 THEN b ELSE Met(f[k - 1], <<u>>[k])]
<1>1. Against(n, <<u>>, off) = f[1]
  BY DEF Against
<1> HIDE DEF b
<1>2. f = [k \in 0 .. Len(<<u>>) |-> IF k = 0 THEN b ELSE Met(f[k - 1], <<u>>[k])]
  <2>1. PICK g : g = [k \in 0 .. 1 |-> IF k = 0 THEN b ELSE Met(b, u)]
    OBVIOUS
  <2>2. g = [k \in 0 .. Len(<<u>>) |-> IF k = 0 THEN b ELSE Met(g[k - 1], <<u>>[k])]
    BY <2>1
  <2> QED
    BY <2>2
<1> HIDE DEF f
<1>3. f[0] = b /\ f[1] = Met(f[0], <<u>>[1])
  BY <1>2
<1> QED
  BY <1>1, <1>3 DEF b

LEMMA Turns ==
    ASSUME NEW most \in Nat, most >= 2, NEW s0, NEW s1, NEW s2, s0.waiting # <<>>, s1 = Turn(s0),
           s2 = IF s1.waiting = <<>> THEN s1 ELSE Turn(s1), s2.waiting = <<>>
    PROVE  NewPatch(s0, most) = s2
<1> DEFINE f == CHOOSE f : f = [k \in 0 .. most |->
                    IF k = 0 THEN s0 ELSE IF f[k - 1].waiting = <<>> THEN f[k - 1] ELSE Turn(f[k - 1])]
<1>1. NewPatch(s0, most) = f[most]
  BY DEF NewPatch
<1>2. f = [k \in 0 .. most |-> IF k = 0 THEN s0 ELSE IF f[k - 1].waiting = <<>> THEN f[k - 1] ELSE Turn(f[k - 1])]
  <2>1. PICK g : g = [k \in 0 .. most |-> IF k = 0 THEN s0 ELSE IF k = 1 THEN s1 ELSE s2]
    OBVIOUS
  <2>2. ASSUME NEW k \in 0 .. most
        PROVE  g[k] = IF k = 0 THEN s0 ELSE IF g[k - 1].waiting = <<>> THEN g[k - 1] ELSE Turn(g[k - 1])
    <3>1. CASE k = 0
      BY <3>1, <2>1
    <3>2. CASE k = 1
      BY <3>2, <2>1
    <3>3. CASE k = 2
      BY <3>3, <2>1
    <3>4. CASE k > 2
      BY <3>4, <2>1
    <3> QED
      BY <3>1, <3>2, <3>3, <3>4
  <2>3. g = [k \in 0 .. most |-> IF k = 0 THEN s0 ELSE IF g[k - 1].waiting = <<>> THEN g[k - 1] ELSE Turn(g[k - 1])]
    BY <2>1, <2>2
  <2> QED
    BY <2>3
<1> HIDE DEF f
<1>3. f[0] = s0 /\ \A k \in 1 .. most : f[k] = IF f[k - 1].waiting = <<>> THEN f[k - 1] ELSE Turn(f[k - 1])
  BY <1>2
<1>4. f[1] = s1 /\ f[2] = s2
  BY <1>3
<1> DEFINE S == {k \in 0 .. most : k >= 2 => f[k] = s2}
<1>5. 0 \in S
  OBVIOUS
<1>6. ASSUME NEW k \in 1 .. most, k - 1 \in S PROVE k \in S
  <2>1. CASE k < 2
    BY <2>1
  <2>2. CASE k = 2
    BY <2>2, <1>4
  <2>3. CASE k > 2
    BY <2>3, <1>3, <1>6
  <2> QED
    BY <2>1, <2>2, <2>3
<1>7. 0 .. most \subseteq S
  <2> HIDE DEF S
  <2> QED
    BY <1>5, <1>6, UpTo
<1> QED
  BY <1>1, <1>7

(* Reading the concurrent operations again: from the first, or from the end. *)
LEMMA ReadsOne ==
    ASSUME NEW u, Bytes(u) \in Nat, Bytes(u) > 0
    PROVE  /\ Reads(<<u>>, 0) /\ ReadFrom(<<u>>, 0) = <<u>>
           /\ Reads(<<u>>, Bytes(u)) /\ ReadFrom(<<u>>, Bytes(u)) = <<>>
<1>1. SubSeq(<<u>>, 1, 0) = <<>> /\ SubSeq(<<u>>, 1, 1) = <<u>> /\ SubSeq(<<u>>, 2, 1) = <<>> /\ Len(<<u>>) = 1
  <2>1. <<u>> \in Seq({u}) /\ Len(<<u>>) = 1
    OBVIOUS
  <2>2. SubSeq(<<u>>, 1, Len(<<u>>)) = <<u>>
    BY ONLY <2>1, SubSeqFull
  <2> QED
    BY <2>1, <2>2, SubSeqEmpty
<1>2. Size(SubSeq(<<u>>, 1, 0)) = 0 /\ Size(SubSeq(<<u>>, 1, 1)) = Bytes(u)
  BY <1>1, SizeOfNone, SizeOfOne
<1>3. \A k \in 0 .. 1 : (Size(SubSeq(<<u>>, 1, k)) = 0 <=> k = 0) /\ (Size(SubSeq(<<u>>, 1, k)) = Bytes(u) <=> k = 1)
  <2>1. ASSUME NEW k \in 0 .. 1
        PROVE (Size(SubSeq(<<u>>, 1, k)) = 0 <=> k = 0) /\ (Size(SubSeq(<<u>>, 1, k)) = Bytes(u) <=> k = 1)
    <3>1. k = 0 \/ k = 1
      OBVIOUS
    <3> QED
      BY ONLY <1>2, <3>1, Bytes(u) \in Nat, Bytes(u) > 0
  <2> QED
    BY <2>1
<1>4. Reads(<<u>>, 0) /\ Reads(<<u>>, Bytes(u))
  BY <1>1, <1>2 DEF Reads
<1>5. (CHOOSE k \in 0 .. 1 : Size(SubSeq(<<u>>, 1, k)) = 0) = 0
  BY <1>3
<1>6. (CHOOSE k \in 0 .. 1 : Size(SubSeq(<<u>>, 1, k)) = Bytes(u)) = 1
  BY <1>3
<1>7. ReadFrom(<<u>>, 0) = SubSeq(<<u>>, 1 + 0, 1)
  BY <1>1, <1>5 DEF ReadFrom
<1>8. ReadFrom(<<u>>, Bytes(u)) = SubSeq(<<u>>, 1 + 1, 1)
  BY <1>1, <1>6 DEF ReadFrom
<1> QED
  BY ONLY <1>1, <1>4, <1>7, <1>8

(* One new operation against one concurrent operation.                     *)
Result(doc, data, cq) == [doc |-> doc, data |-> data, cq |-> cq, err |-> "none", waiting |-> <<>>]

LEMMA RegIsPatch ==
    ASSUME NEW doc, NEW o
    PROVE  /\ <<>> \o Reg(doc, o) = Reg(doc, o)
           /\ Reg(doc, o) = <<>> \/ \E v : Reg(doc, o) = <<v>>
<1>1. Reg(doc, o) = <<>> \/ \E v : Reg(doc, o) = <<v>>
  BY DEF Reg
<1>2. CASE Reg(doc, o) = <<>>
  <2>1. <<>> \o <<>> = <<>>
    OBVIOUS
  <2> QED
    BY ONLY <2>1, <1>2
<1>3. ASSUME NEW v, Reg(doc, o) = <<v>> PROVE <<>> \o Reg(doc, o) = Reg(doc, o)
  <2>1. <<>> \o <<v>> = <<v>>
    OBVIOUS
  <2> QED
    BY ONLY <2>1, <1>3
<1> QED
  BY <1>1, <1>2, <1>3

LEMMA FirstTurn ==
    ASSUME NEW doc, NEW n, NEW u, Bytes(u) \in Nat, Bytes(u) > 0, NEW t, t = Transform(n, u),
           <<>> \o t.unk = t.unk,
           NEW tails, tails = [k \in DOMAIN t.tail |-> [op |-> t.tail[k], off |-> Bytes(u)]],
           <<>> \o tails = tails, tails \o <<>> = tails, NEW s0,
           s0 = [doc |-> doc, data |-> <<>>, cq |-> <<u>>, err |-> "none", waiting |-> <<[op |-> n, off |-> 0]>>]
    PROVE  /\ ~ RightTo(doc, t.n) => Turn(s0) = Result(doc, <<>>, <<u>>)
           /\ RightTo(doc, t.n) =>
                 Turn(s0) = [doc |-> ApplyOp(doc, t.n), data |-> Reg(doc, t.n), cq |-> t.unk,
                             err |-> "none", waiting |-> tails]
<1>2. PICK l \in Nat : l = Bytes(u) /\ l > 0
  OBVIOUS
<1>4. PICK b : b = [n |-> n, unk |-> <<>>, tails |-> <<>>, off |-> 0]
  OBVIOUS
<1>5. b.n = n /\ b.unk = <<>> /\ b.tails = <<>> /\ b.off = 0 /\ b.off + l = l
  BY ONLY <1>4, <1>2
<1>7. Met(b, u) = [n |-> t.n, unk |-> t.unk, tails |-> tails, off |-> l]
  BY <1>2, <1>5 DEF Met
<1>8. s0.waiting = <<[op |-> n, off |-> 0]>> /\ s0.doc = doc /\ s0.data = <<>> /\ s0.cq = <<u>> /\ s0.err = "none"
  OBVIOUS
<1>9. PICK w : w = [op |-> n, off |-> 0]
  OBVIOUS
<1>12. Head(s0.waiting) = w /\ Tail(s0.waiting) = <<>> /\ w.op = n /\ w.off = 0
  BY ONLY <1>8, <1>9
<1>10. Size(<<u>>) = l /\ Reads(<<u>>, 0) /\ ReadFrom(<<u>>, 0) = <<u>>
  BY <1>2, SizeOfOne, ReadsOne
<1>11. PICK r : r = Met(b, u) /\ Against(n, <<u>>, 0) = r
  BY <1>4, AgainstOne
<1>13. r.n = t.n /\ r.unk = t.unk /\ r.tails = tails
  BY ONLY <1>7, <1>11
<1>14. ~ (w.off > Size(s0.cq)) /\ Reads(s0.cq, w.off) /\ Against(w.op, ReadFrom(s0.cq, w.off), w.off) = r
  BY ONLY <1>2, <1>8, <1>10, <1>11, <1>12
<1>15. Turn(s0) = IF ~ RightTo(s0.doc, r.n) THEN [s0 EXCEPT !.waiting = Tail(@)]
                 ELSE [doc     |-> ApplyOp(s0.doc, r.n),
                       data    |-> s0.data \o Reg(s0.doc, r.n),
                       cq      |-> r.unk,
                       err     |-> "none",
                       waiting |-> r.tails \o Tail(s0.waiting)]
  BY ONLY <1>12, <1>14, Zenon DEF Turn
<1>16. ASSUME ~ RightTo(doc, t.n) PROVE Turn(s0) = Result(doc, <<>>, <<u>>)
  <2>1. Turn(s0) = [s0 EXCEPT !.waiting = <<>>]
    BY ONLY <1>8, <1>12, <1>13, <1>15, <1>16
  <2> QED
    BY ONLY <2>1, s0 = [doc |-> doc, data |-> <<>>, cq |-> <<u>>, err |-> "none",
                        waiting |-> <<[op |-> n, off |-> 0]>>] DEF Result
<1>17. ASSUME RightTo(doc, t.n)
       PROVE  Turn(s0) = [doc |-> ApplyOp(doc, t.n), data |-> Reg(doc, t.n), cq |-> t.unk,
                          err |-> "none", waiting |-> tails]
  <2>1. <<>> \o Reg(doc, t.n) = Reg(doc, t.n)
    BY RegIsPatch
  <2> QED
    BY ONLY <2>1, <1>8, <1>12, <1>13, <1>15, <1>17, tails \o <<>> = tails
<1> QED
  BY <1>16, <1>17

LEMMA NewOpsStarts ==
    ASSUME NEW doc, NEW n, NEW u, Bytes(n) \in Nat
    PROVE  NewOps(doc, <<n>>, <<u>>) =
              NewPatch([doc |-> doc, data |-> <<>>, cq |-> <<u>>, err |-> "none",
                        waiting |-> <<[op |-> n, off |-> 0]>>], Bytes(n))
<1>1. Size(<<n>>) = Bytes(n)
  BY SizeOfOne
<1>2. [k \in DOMAIN <<n>> |-> [op |-> <<n>>[k], off |-> 0]] = <<[op |-> n, off |-> 0]>>
  OBVIOUS
<1> QED
  BY ONLY <1>1, <1>2 DEF NewOps

(* It is refused.                                                          *)
LEMMA NewRefused ==
    ASSUME NEW doc, NEW n, NEW u, Bytes(n) \in Nat, Bytes(n) >= 2, Bytes(u) \in Nat, Bytes(u) > 0,
           NEW t, t = Transform(n, u), <<>> \o t.unk = t.unk, t.tail = <<>> \/ \E v : t.tail = <<v>>,
           ~ RightTo(doc, t.n)
    PROVE  NewOps(doc, <<n>>, <<u>>) = Result(doc, <<>>, <<u>>)
<1>1. PICK s0 : s0 = [doc |-> doc, data |-> <<>>, cq |-> <<u>>, err |-> "none",
                      waiting |-> <<[op |-> n, off |-> 0]>>]
  OBVIOUS
<1>2. PICK tails : tails = [k \in DOMAIN t.tail |-> [op |-> t.tail[k], off |-> Bytes(u)]]
  OBVIOUS
<1>3. <<>> \o tails = tails /\ tails \o <<>> = tails
  <2>1. CASE t.tail = <<>>
    <3>1. tails = <<>>
      BY ONLY <1>2, <2>1
    <3> QED
      BY ONLY <3>1
  <2>2. ASSUME NEW v, t.tail = <<v>> PROVE <<>> \o tails = tails /\ tails \o <<>> = tails
    <3>1. PICK x : x = [op |-> v, off |-> Bytes(u)]
      OBVIOUS
    <3>2. tails = <<x>>
      BY ONLY <1>2, <2>2, <3>1
    <3> QED
      BY ONLY <3>2
  <2> QED
    BY <2>1, <2>2
<1>4. Turn(s0) = Result(doc, <<>>, <<u>>)
  BY <1>1, <1>2, <1>3, FirstTurn
<1>5. PICK s1 : s1 = Turn(s0)
  OBVIOUS
<1>6. s1.waiting = <<>> /\ s0.waiting # <<>>
  BY ONLY <1>1, <1>4, <1>5 DEF Result
<1>7. PICK l \in Nat : l = Bytes(n) /\ l >= 2
  OBVIOUS
<1>8. NewPatch(s0, l) = s1
  BY ONLY <1>5, <1>6, <1>7, Turns
<1> QED
  BY <1>1, <1>4, <1>5, <1>7, <1>8, NewOpsStarts

(* It is done, in one part.                                                *)
LEMMA NewTaken ==
    ASSUME NEW doc, NEW n, NEW u, Bytes(n) \in Nat, Bytes(n) >= 2, Bytes(u) \in Nat, Bytes(u) > 0,
           NEW t, t = Transform(n, u), <<>> \o t.unk = t.unk, t.tail = <<>>, RightTo(doc, t.n)
    PROVE  NewOps(doc, <<n>>, <<u>>) = Result(ApplyOp(doc, t.n), Reg(doc, t.n), t.unk)
<1>1. PICK s0 : s0 = [doc |-> doc, data |-> <<>>, cq |-> <<u>>, err |-> "none",
                      waiting |-> <<[op |-> n, off |-> 0]>>]
  OBVIOUS
<1>2. PICK tails : tails = [k \in DOMAIN t.tail |-> [op |-> t.tail[k], off |-> Bytes(u)]]
  OBVIOUS
<1>3. tails = <<>> /\ <<>> \o tails = tails /\ tails \o <<>> = tails
  <2>1. tails = <<>>
    BY ONLY <1>2, t.tail = <<>>
  <2> QED
    BY ONLY <2>1
<1>4. Turn(s0) = Result(ApplyOp(doc, t.n), Reg(doc, t.n), t.unk)
  <2>1. Turn(s0) = [doc |-> ApplyOp(doc, t.n), data |-> Reg(doc, t.n), cq |-> t.unk,
                    err |-> "none", waiting |-> tails]
    <3>1. <<>> \o tails = tails /\ tails \o <<>> = tails
      BY <1>3
    <3> QED
      BY ONLY <3>1, <1>1, <1>2, FirstTurn, Bytes(u) \in Nat, Bytes(u) > 0, t = Transform(n, u),
              <<>> \o t.unk = t.unk, RightTo(doc, t.n)
  <2> QED
    BY ONLY <2>1, <1>3 DEF Result
<1>5. PICK s1 : s1 = Turn(s0)
  OBVIOUS
<1>6. s1.waiting = <<>> /\ s0.waiting # <<>>
  BY ONLY <1>1, <1>4, <1>5 DEF Result
<1>7. PICK l \in Nat : l = Bytes(n) /\ l >= 2
  OBVIOUS
<1>8. NewPatch(s0, l) = s1
  BY ONLY <1>5, <1>6, <1>7, Turns
<1> QED
  BY <1>1, <1>4, <1>5, <1>7, <1>8, NewOpsStarts

(* It is done in two parts, of which the second meets nothing any more.    *)
LEMMA NewCut ==
    ASSUME NEW doc, NEW n, NEW u, Bytes(n) \in Nat, Bytes(n) >= 2, Bytes(u) \in Nat, Bytes(u) > 0,
           NEW t, t = Transform(n, u), RightTo(doc, t.n), NEW v, t.tail = <<v>>,
           NEW c, t.unk = <<c>>, Bytes(c) = Bytes(u), NEW d, d = ApplyOp(doc, t.n), RightTo(d, v)
    PROVE  NewOps(doc, <<n>>, <<u>>) = Result(ApplyOp(d, v), Reg(doc, t.n) \o Reg(d, v), <<>>)
<1>1. PICK s0 : s0 = [doc |-> doc, data |-> <<>>, cq |-> <<u>>, err |-> "none",
                      waiting |-> <<[op |-> n, off |-> 0]>>]
  OBVIOUS
<1>2. PICK tails : tails = [k \in DOMAIN t.tail |-> [op |-> t.tail[k], off |-> Bytes(u)]]
  OBVIOUS
<1>21. PICK w : w = [op |-> v, off |-> Bytes(u)]
  OBVIOUS
<1>3. w = [op |-> v, off |-> Bytes(u)] /\ w.op = v /\ w.off = Bytes(u)
  BY ONLY <1>21
<1>4. tails = <<w>> /\ <<>> \o tails = tails /\ tails \o <<>> = tails
  <2>1. tails = <<w>>
    BY ONLY <1>2, <1>3, t.tail = <<v>>
  <2> QED
    BY ONLY <2>1
<1>5. <<>> \o t.unk = t.unk
  BY ONLY t.unk = <<c>>
<1>6. PICK s1 : s1 = Turn(s0)
  OBVIOUS
<1>7. s1 = [doc |-> d, data |-> Reg(doc, t.n), cq |-> <<c>>, err |-> "none", waiting |-> <<w>>]
  <2>1. Turn(s0) = [doc |-> ApplyOp(doc, t.n), data |-> Reg(doc, t.n), cq |-> t.unk,
                    err |-> "none", waiting |-> tails]
    BY <1>1, <1>2, <1>4, <1>5, FirstTurn
  <2> QED
    BY ONLY <2>1, <1>4, <1>6, d = ApplyOp(doc, t.n), t.unk = <<c>>
<1>8. s1.doc = d /\ s1.data = Reg(doc, t.n) /\ s1.cq = <<c>> /\ s1.waiting = <<w>>
  BY ONLY <1>7
<1>9. Head(s1.waiting) = w /\ Tail(s1.waiting) = <<>>
  BY ONLY <1>8
<1>10. PICK l \in Nat : l = Bytes(c) /\ l = Bytes(u) /\ l > 0
  OBVIOUS
<1>11. Size(<<c>>) = l /\ Reads(<<c>>, l) /\ ReadFrom(<<c>>, l) = <<>>
  BY <1>10, SizeOfOne, ReadsOne
<1>12. PICK r : r = Against(v, <<>>, l)
  OBVIOUS
<1>13. r.n = v /\ r.unk = <<>> /\ r.tails = <<>>
  <2>1. r = [n |-> v, unk |-> <<>>, tails |-> <<>>, off |-> l]
    BY <1>12, AgainstNone
  <2> QED
    BY ONLY <2>1
<1>14. ~ (w.off > Size(s1.cq)) /\ Reads(s1.cq, w.off) /\ Against(w.op, ReadFrom(s1.cq, w.off), w.off) = r
  BY ONLY <1>3, <1>8, <1>10, <1>11, <1>12
<1>15. Turn(s1) = IF ~ RightTo(s1.doc, r.n) THEN [s1 EXCEPT !.waiting = Tail(@)]
                 ELSE [doc     |-> ApplyOp(s1.doc, r.n),
                       data    |-> s1.data \o Reg(s1.doc, r.n),
                       cq      |-> r.unk,
                       err     |-> "none",
                       waiting |-> r.tails \o Tail(s1.waiting)]
  BY ONLY <1>9, <1>14, Zenon DEF Turn
<1>16. Turn(s1) = [doc |-> ApplyOp(d, v), data |-> Reg(doc, t.n) \o Reg(d, v), cq |-> <<>>,
                   err |-> "none", waiting |-> <<>>]
  <2>1. <<>> \o <<>> = <<>>
    OBVIOUS
  <2> QED
    BY ONLY <2>1, <1>8, <1>9, <1>13, <1>15, RightTo(d, v)
<1>17. PICK s2 : s2 = Turn(s1)
  OBVIOUS
<1>18. s2.waiting = <<>> /\ s0.waiting # <<>> /\ s1.waiting # <<>>
  BY ONLY <1>1, <1>7, <1>16, <1>17
<1>19. PICK m \in Nat : m = Bytes(n) /\ m >= 2
  OBVIOUS
<1>20. NewPatch(s0, m) = s2
  BY ONLY <1>6, <1>17, <1>18, <1>19, Turns
<1> QED
  BY <1>1, <1>16, <1>17, <1>19, <1>20, NewOpsStarts DEF Result

-----------------------------------------------------------------------------
(* The operations on a document, which is a text and rights.               *)
Doc(s, g) == [str |-> s, rights |-> g]

LEMMA DocIs == ASSUME NEW s, NEW g PROVE Doc(s, g).str = s /\ Doc(s, g).rights = g
  BY DEF Doc

LEMMA OpsAre ==
    ASSUME NEW p, NEW x
    PROVE  /\ Insert(p, x).op = "Insert" /\ Insert(p, x).pos = p /\ Insert(p, x).str = x
           /\ RemUnd(p, x).op = "RemUnd" /\ RemUnd(p, x).pos = p /\ RemUnd(p, x).str = x
           /\ IsText(Insert(p, x)) /\ IsText(RemUnd(p, x))
           /\ \A q : [Insert(p, x) EXCEPT !.pos = q] = Insert(q, x)
           /\ \A q : [RemUnd(p, x) EXCEPT !.pos = q] = RemUnd(q, x)
  BY DEF Insert, RemUnd, IsText

LEMMA ApplyIs ==
    ASSUME NEW s, NEW g, NEW p, NEW x
    PROVE  /\ ApplyOp(Doc(s, g), Insert(p, x)) = Doc(Insertion(s, p, x), g)
           /\ ApplyOp(Doc(s, g), RemUnd(p, x)) = Doc(Removal(s, p, Len(x)), g)
<1>1. ApplyOp(Doc(s, g), Insert(p, x)) = [Doc(s, g) EXCEPT !.str = Insertion(@, p, x)]
  BY ONLY OpsAre DEF ApplyOp
<1>2. ApplyOp(Doc(s, g), RemUnd(p, x)) = [Doc(s, g) EXCEPT !.str = Removal(@, p, Len(x))]
  BY ONLY OpsAre DEF ApplyOp
<1> QED
  BY ONLY <1>1, <1>2 DEF Doc

LEMMA UndoIs ==
    ASSUME NEW s, NEW g, NEW p, NEW x
    PROVE  /\ UndoOp(Doc(s, g), Insert(p, x)) = Doc(Removal(s, p, Len(x)), g)
           /\ UndoOp(Doc(s, g), RemUnd(p, x)) = Doc(Insertion(s, p, x), g)
<1>1. UndoOp(Doc(s, g), Insert(p, x)) = [Doc(s, g) EXCEPT !.str = Removal(@, p, Len(x))]
  BY ONLY OpsAre DEF UndoOp
<1>2. UndoOp(Doc(s, g), RemUnd(p, x)) = [Doc(s, g) EXCEPT !.str = Insertion(@, p, x)]
  BY ONLY OpsAre DEF UndoOp
<1> QED
  BY ONLY <1>1, <1>2 DEF Doc

LEMMA RightIs ==
    ASSUME NEW s, NEW g, NEW p, NEW x
    PROVE  /\ RightTo(Doc(s, g), Insert(p, x)) <=> ("insert" \in g \/ ("append" \in g /\ p = Len(s)))
           /\ RightTo(Doc(s, g), RemUnd(p, x)) <=> "remove" \in g
<1>1. RightTo(Doc(s, g), Insert(p, x)) <=>
         ("insert" \in Doc(s, g).rights \/ ("append" \in Doc(s, g).rights /\ p = Len(Doc(s, g).str)))
  BY ONLY OpsAre DEF RightTo
<1>2. RightTo(Doc(s, g), RemUnd(p, x)) <=> "remove" \in Doc(s, g).rights
  BY ONLY OpsAre DEF RightTo
<1> QED
  BY ONLY <1>1, <1>2, DocIs

LEMMA RegIs ==
    ASSUME NEW d, NEW p, NEW x, x # <<>>
    PROVE  Reg(d, Insert(p, x)) = <<Insert(p, x)>> /\ Reg(d, RemUnd(p, x)) = <<RemUnd(p, x)>>
  BY OpsAre DEF Reg

LEMMA BytesIs ==
    ASSUME NEW p, NEW x \in Seq(Letters)
    PROVE  /\ Bytes(Insert(p, x)) \in Nat /\ Bytes(Insert(p, x)) >= 2 /\ Bytes(Insert(p, x)) > 0
           /\ Bytes(RemUnd(p, x)) \in Nat /\ Bytes(RemUnd(p, x)) >= 2 /\ Bytes(RemUnd(p, x)) > 0
           /\ \A q : Bytes(Insert(q, x)) = Bytes(Insert(p, x))
<1>1. PICK k \in Nat : k = Len(x)
  BY LenProperties
<1>2. \A q : Bytes(Insert(q, x)) = 3 + k
  BY ONLY <1>1, OpsAre DEF Bytes
<1>3. Bytes(RemUnd(p, x)) = 3 + k
  BY ONLY <1>1, OpsAre DEF Bytes
<1> QED
  BY <1>1, <1>2, <1>3

LEMMA TransformInsertions ==
    ASSUME NEW p, NEW x, NEW q, NEW y
    PROVE  Transform(Insert(q, y), Insert(p, x)) =
              IF p > q THEN Trans(Insert(q, y), <<Insert(p + Len(y), x)>>, <<>>)
              ELSE Trans(Insert(q + Len(x), y), <<Insert(p, x)>>, <<>>)
<1>1. Transform(Insert(q, y), Insert(p, x)) = InsertInsert(Insert(q, y), Insert(p, x))
  BY OpsAre DEF Transform
<1> QED
  BY <1>1 DEF InsertInsert, Insert

LEMMA TransIs ==
    ASSUME NEW n, NEW unk, NEW tail
    PROVE  Trans(n, unk, tail).n = n /\ Trans(n, unk, tail).unk = unk /\ Trans(n, unk, tail).tail = tail
  BY DEF Trans

LEMMA OneMore == ASSUME NEW c PROVE <<>> \o <<c>> = <<c>>
  OBVIOUS

-----------------------------------------------------------------------------
(* The pairs of insertions and removals: what the merge of n after u gives. *)
Fits(d, u, n, r) ==
    /\ r.err = "none" /\ r.doc = ApplyOps(ApplyOp(d, n), r.cq)
Reverts(d, u, r) ==
    r.err = "none" /\ UndoOps(r.doc, r.data) = ApplyOp(d, u)

(* One operation that is done at its new place m: what it gives.           *)
LEMMA DoneIs ==
    ASSUME NEW d, NEW u, NEW n, Bytes(n) \in Nat, Bytes(n) >= 2, Bytes(u) \in Nat, Bytes(u) > 0,
           NEW m, NEW c, Transform(n, u) = Trans(m, <<c>>, <<>>), RightTo(ApplyOp(d, u), m),
           Reg(ApplyOp(d, u), m) = <<m>>, NEW r, r = NewOps(ApplyOp(d, u), <<n>>, <<u>>)
    PROVE  /\ r.err = "none" /\ r.doc = ApplyOp(ApplyOp(d, u), m)
           /\ ApplyOp(ApplyOp(d, u), m) = ApplyOp(ApplyOp(d, n), c) => Fits(d, u, n, r)
           /\ UndoOp(ApplyOp(ApplyOp(d, u), m), m) = ApplyOp(d, u) => Reverts(d, u, r)
<1>1. PICK t : t = Transform(n, u)
  OBVIOUS
<1>2. t.n = m /\ t.unk = <<c>> /\ t.tail = <<>>
  BY <1>1, TransIs
<1>3. <<>> \o t.unk = t.unk
  BY <1>2, OneMore
<1>4. PICK e : e = ApplyOp(d, u)
  OBVIOUS
<1>5. NewOps(e, <<n>>, <<u>>) = Result(ApplyOp(e, t.n), Reg(e, t.n), t.unk)
  BY <1>1, <1>2, <1>3, <1>4, NewTaken
<1>6. r = Result(ApplyOp(e, m), <<m>>, <<c>>)
  BY <1>2, <1>4, <1>5
<1>7. r.err = "none" /\ r.doc = ApplyOp(e, m) /\ r.data = <<m>> /\ r.cq = <<c>>
  BY ONLY <1>6 DEF Result
<1> QED
  BY <1>4, <1>7, ApplyOne, UndoOne DEF Fits, Reverts

LEMMA TwoInsertions ==
    ASSUME NEW s \in Seq(Letters), NEW g, NEW p \in 0 .. Len(s), NEW q \in 0 .. Len(s),
           NEW x \in Seq(Letters), NEW y \in Seq(Letters), x # <<>>, y # <<>>,
           NEW u, u = Insert(p, x), NEW n, n = Insert(q, y), NEW d, d = Doc(s, g), RightTo(d, n),
           NEW r, r = NewOps(ApplyOp(d, u), <<n>>, <<u>>)
    PROVE  /\ Fits(d, u, n, r) /\ Reverts(d, u, r)
           /\ p > q => r.doc = Doc(Insertion(Insertion(s, p, x), q, y), g)
           /\ p <= q => r.doc = Doc(Insertion(Insertion(s, q, y), p, x), g)
<1>1. PICK l \in Nat, a \in Nat, b \in Nat : l = Len(s) /\ a = Len(x) /\ b = Len(y)
  BY LenProperties
<1>2. /\ Bytes(n) \in Nat /\ Bytes(n) >= 2 /\ Bytes(u) \in Nat /\ Bytes(u) > 0
  BY BytesIs
<1>3. ApplyOp(d, u) = Doc(Insertion(s, p, x), g) /\ ApplyOp(d, n) = Doc(Insertion(s, q, y), g)
  BY ApplyIs
<1>4. /\ Insertion(s, p, x) \in Seq(Letters) /\ Len(Insertion(s, p, x)) = l + a
      /\ Insertion(s, q, y) \in Seq(Letters) /\ Len(Insertion(s, q, y)) = l + b
  BY <1>1, InsertionLen
<1>5. "insert" \in g \/ ("append" \in g /\ q = l)
  BY <1>1, RightIs
<1>6. Transform(n, u) = IF p > q THEN Trans(n, <<Insert(p + b, x)>>, <<>>)
                         ELSE Trans(Insert(q + a, y), <<u>>, <<>>)
  BY <1>1, TransformInsertions
<1>7. CASE p > q
  <2>1. Transform(n, u) = Trans(n, <<Insert(p + b, x)>>, <<>>)
    BY <1>6, <1>7
  <2>2. RightTo(ApplyOp(d, u), n)
    <3>1. "insert" \in g
      BY <1>1, <1>5, <1>7
    <3> QED
      BY <1>3, <3>1, RightIs
  <2>3. Reg(ApplyOp(d, u), n) = <<n>>
    BY RegIs
  <2>4. ApplyOp(ApplyOp(d, u), n) = Doc(Insertion(Insertion(s, p, x), q, y), g)
    BY <1>3, ApplyIs
  <2>5. ApplyOp(ApplyOp(d, n), Insert(p + b, x)) = Doc(Insertion(Insertion(s, q, y), p + b, x), g)
    BY <1>3, ApplyIs
  <2>6. Insertion(Insertion(s, q, y), p + b, x) = Insertion(Insertion(s, p, x), q, y)
    BY <1>1, <1>7, InsertionsCommute
  <2>7. UndoOp(Doc(Insertion(Insertion(s, p, x), q, y), g), n) = Doc(Insertion(s, p, x), g)
    <3>1. q \in 0 .. Len(Insertion(s, p, x))
      BY <1>1, <1>4
    <3>2. Removal(Insertion(Insertion(s, p, x), q, y), q, Len(y)) = Insertion(s, p, x)
      BY <1>4, <3>1, UndoInsertion
    <3> QED
      BY <3>2, UndoIs
  <2> QED
    BY <1>1, <1>2, <1>3, <1>7, <2>1, <2>2, <2>3, <2>4, <2>5, <2>6, <2>7, DoneIs
<1>8. CASE p <= q
  <2>1. Transform(n, u) = Trans(Insert(q + a, y), <<u>>, <<>>)
    BY <1>1, <1>6, <1>8
  <2>2. RightTo(ApplyOp(d, u), Insert(q + a, y))
    <3>1. "insert" \in g \/ ("append" \in g /\ q + a = Len(Insertion(s, p, x)))
      BY <1>4, <1>5
    <3> QED
      BY <1>3, <3>1, RightIs
  <2>3. Reg(ApplyOp(d, u), Insert(q + a, y)) = <<Insert(q + a, y)>>
    BY RegIs
  <2>4. ApplyOp(ApplyOp(d, u), Insert(q + a, y)) = Doc(Insertion(Insertion(s, p, x), q + a, y), g)
    BY <1>3, ApplyIs
  <2>5. ApplyOp(ApplyOp(d, n), u) = Doc(Insertion(Insertion(s, q, y), p, x), g)
    BY <1>3, ApplyIs
  <2>6. Insertion(Insertion(s, p, x), q + a, y) = Insertion(Insertion(s, q, y), p, x)
    BY <1>1, <1>8, InsertionsCommute
  <2>7. UndoOp(Doc(Insertion(Insertion(s, p, x), q + a, y), g), Insert(q + a, y)) = Doc(Insertion(s, p, x), g)
    <3>1. q + a \in 0 .. Len(Insertion(s, p, x))
      BY <1>1, <1>4
    <3>2. Removal(Insertion(Insertion(s, p, x), q + a, y), q + a, Len(y)) = Insertion(s, p, x)
      BY <1>4, <3>1, UndoInsertion
    <3> QED
      BY <3>2, UndoIs
  <2> QED
    BY <1>1, <1>2, <1>3, <1>8, <2>1, <2>2, <2>3, <2>4, <2>5, <2>6, <2>7, DoneIs
<1> QED
  BY <1>1, <1>7, <1>8

LEMMA TransformInsertion ==
    ASSUME NEW p, NEW x, NEW q, NEW y
    PROVE  Transform(Insert(q, y), RemUnd(p, x)) =
              IF q >= p + Len(x) THEN Trans(Insert(q - Len(x), y), <<RemUnd(p, x)>>, <<>>)
              ELSE IF q <= p THEN Trans(Insert(q, y), <<RemUnd(p + Len(y), x)>>, <<>>)
              ELSE Trans(Insert(p, y),
                         <<RemUnd(p + Len(y), From(x, q - p)), RemUnd(p, Upto(x, q - p))>>, <<>>)
<1>1. Transform(Insert(q, y), RemUnd(p, x)) = InsertRemUnd(Insert(q, y), RemUnd(p, x))
  BY OpsAre DEF Transform
<1> QED
  BY <1>1 DEF InsertRemUnd, Insert, RemUnd

LEMMA TransformRemoval ==
    ASSUME NEW p, NEW x, NEW q, NEW y
    PROVE  Transform(RemUnd(p, x), Insert(q, y)) =
              IF q >= p + Len(x) THEN Trans(RemUnd(p, x), <<Insert(q - Len(x), y)>>, <<>>)
              ELSE IF q <= p THEN Trans(RemUnd(p + Len(y), x), <<Insert(q, y)>>, <<>>)
              ELSE Trans(RemUnd(p, Upto(x, q - p)), <<Insert(p, y)>>,
                         <<RemUnd(p + Len(y), From(x, q - p))>>)
<1>1. Transform(RemUnd(p, x), Insert(q, y)) = RemUndInsert(RemUnd(p, x), Insert(q, y))
  BY OpsAre DEF Transform
<1> QED
  BY <1>1 DEF RemUndInsert, Insert, RemUnd

LEMMA TransformRemovals ==
    ASSUME NEW p \in Nat, NEW x \in Seq(Letters), NEW q \in Nat, NEW y \in Seq(Letters), x # <<>>
    PROVE  /\ q + Len(y) <= p =>
                 Transform(RemUnd(p, x), RemUnd(q, y)) = Trans(RemUnd(p - Len(y), x), <<RemUnd(q, y)>>, <<>>)
           /\ p + Len(x) <= q =>
                 Transform(RemUnd(p, x), RemUnd(q, y)) = Trans(RemUnd(p, x), <<RemUnd(q - Len(x), y)>>, <<>>)
           /\ p < q /\ q < p + Len(x) /\ p + Len(x) <= q + Len(y) =>
                 Transform(RemUnd(p, x), RemUnd(q, y)) =
                    Trans(RemUnd(p, Upto(x, q - p)), <<RemUnd(p, From(y, p + Len(x) - q))>>, <<>>)
           /\ p < q /\ q + Len(y) < p + Len(x) =>
                 Transform(RemUnd(p, x), RemUnd(q, y)) =
                    Trans(RemUnd(p, Upto(x, q - p) \o From(x, q - p + Len(y))), <<RemUnd(q, <<>>)>>, <<>>)
<1>1. Transform(RemUnd(p, x), RemUnd(q, y)) = RemUndRemUnd(RemUnd(p, x), RemUnd(q, y))
  BY OpsAre DEF Transform
<1>2. PICK k \in Nat, l \in Nat : k = Len(x) /\ l = Len(y) /\ k > 0
  BY EmptySeq, LenProperties
<1>3. RemUnd(p, x).pos = p /\ RemUnd(p, x).str = x /\ RemUnd(q, y).pos = q /\ RemUnd(q, y).str = y
  BY OpsAre
<1>4. /\ [RemUnd(p, x) EXCEPT !.pos = @ - l] = RemUnd(p - l, x)
      /\ [RemUnd(q, y) EXCEPT !.pos = @ - k] = RemUnd(q - k, y)
  BY DEF RemUnd
<1>5. ASSUME q + Len(y) <= p
      PROVE  Transform(RemUnd(p, x), RemUnd(q, y)) = Trans(RemUnd(p - Len(y), x), <<RemUnd(q, y)>>, <<>>)
  <2>1. q <= p /\ q + l <= p
    BY <1>2, <1>5
  <2> QED
    BY <1>1, <1>2, <1>3, <1>4, <2>1 DEF RemUndRemUnd
<1>6. ASSUME p + Len(x) <= q
      PROVE  Transform(RemUnd(p, x), RemUnd(q, y)) = Trans(RemUnd(p, x), <<RemUnd(q - Len(x), y)>>, <<>>)
  <2>1. ~ (q <= p) /\ p + k <= q
    BY <1>2, <1>6
  <2> QED
    BY <1>1, <1>2, <1>3, <1>4, <2>1 DEF RemUndRemUnd
<1>7. ASSUME p < q, q < p + Len(x), p + Len(x) <= q + Len(y)
      PROVE  Transform(RemUnd(p, x), RemUnd(q, y)) =
                Trans(RemUnd(p, Upto(x, q - p)), <<RemUnd(p, From(y, p + Len(x) - q))>>, <<>>)
  <2>1. ~ (q <= p) /\ ~ (p + k <= q) /\ p + k <= q + l
    BY <1>2, <1>7
  <2> QED
    BY <1>1, <1>2, <1>3, <2>1 DEF RemUndRemUnd
<1>8. ASSUME p < q, q + Len(y) < p + Len(x)
      PROVE  Transform(RemUnd(p, x), RemUnd(q, y)) =
                Trans(RemUnd(p, Upto(x, q - p) \o From(x, q - p + Len(y))), <<RemUnd(q, <<>>)>>, <<>>)
  <2>1. ~ (q <= p) /\ ~ (p + k <= q) /\ ~ (p + k <= q + l)
    BY <1>2, <1>8
  <2> QED
    BY <1>1, <1>2, <1>3, <2>1 DEF RemUndRemUnd
<1> QED
  BY <1>5, <1>6, <1>7, <1>8

LEMMA NoneRemoved ==
    ASSUME NEW s \in Seq(Letters), NEW p \in Nat
    PROVE  Removal(s, p, 0) = s
<1>1. PICK l \in Nat : l = Len(s)
  BY LenProperties
<1>2. p + 0 = p
  OBVIOUS
<1>3. CASE p <= l
  <2>1. PICK a \in Seq(Letters), b \in Seq(Letters) : s = Join(a, b) /\ Len(a) = p
    BY <1>1, <1>3, Split
  <2>2. Upto(s, p) = a /\ From(s, p) = b
    BY <2>1, Parts
  <2> QED
    BY ONLY <1>2, <2>1, <2>2 DEF Removal, Join
<1>4. CASE p > l
  <2>1. Upto(s, p) = SubSeq(s, 1, l)
    BY <1>1, <1>4 DEF Upto, Lower
  <2>2. From(s, p) = SubSeq(s, 1 + p, l)
    BY <1>1 DEF From
  <2>3. SubSeq(s, 1, l) = s /\ SubSeq(s, 1 + p, l) = <<>>
    BY <1>1, <1>4, SubSeqFull, SubSeqEmpty
  <2>4. s \o <<>> = s
    BY ConcatEmptySeq
  <2> QED
    BY ONLY <1>2, <2>1, <2>2, <2>3, <2>4 DEF Removal
<1> QED
  BY <1>1, <1>3, <1>4

(* Where the text inserted at q comes when x was removed at p. *)
Place(p, x, q) == IF q >= p + Len(x) THEN q - Len(x) ELSE IF q <= p THEN q ELSE p

(* An insertion after a removal.                                           *)
LEMMA InsertionAfterRemoval ==
    ASSUME NEW s \in Seq(Letters), NEW g, NEW p, NEW x \in Seq(Letters), x # <<>>, Shown(Letters, s, p, x),
           NEW q \in 0 .. Len(s), NEW y \in Seq(Letters), y # <<>>,
           NEW u, u = RemUnd(p, x), NEW n, n = Insert(q, y), NEW d, d = Doc(s, g), RightTo(d, n),
           NEW r, r = NewOps(ApplyOp(d, u), <<n>>, <<u>>)
    PROVE  /\ Reverts(d, u, r)
           /\ ~ (p < q /\ q < p + Len(x)) => Fits(d, u, n, r)
           /\ r.doc = Doc(Insertion(Removal(s, p, Len(x)), Place(p, x, q), y), g)
<1>1. PICK l \in Nat, a \in Nat, b \in Nat : l = Len(s) /\ a = Len(x) /\ b = Len(y) /\ a > 0
  BY EmptySeq, LenProperties
<1>2. Bytes(n) \in Nat /\ Bytes(n) >= 2 /\ Bytes(u) \in Nat /\ Bytes(u) > 0
  BY BytesIs
<1>3. PICK t : t = Removal(s, p, a)
  OBVIOUS
<1>4. t \in Seq(Letters) /\ Len(t) = l - a /\ p \in Nat /\ p + a <= l /\ q \in Nat /\ q <= l
  <2>1. /\ Removal(s, p, Len(x)) \in Seq(Letters) /\ Len(Removal(s, p, Len(x))) = Len(s) - Len(x)
        /\ p \in Nat /\ p + Len(x) <= Len(s)
    BY RemovalLen
  <2> QED
    BY ONLY <1>1, <1>3, <2>1, q \in 0 .. Len(s)
<1>5. ApplyOp(d, u) = Doc(t, g) /\ ApplyOp(d, n) = Doc(Insertion(s, q, y), g)
  BY <1>1, <1>3, ApplyIs
<1>6. "insert" \in g \/ ("append" \in g /\ q = l)
  BY <1>1, RightIs
<1>7. Transform(n, u) =
         IF q >= p + a THEN Trans(Insert(q - a, y), <<u>>, <<>>)
         ELSE IF q <= p THEN Trans(n, <<RemUnd(p + b, x)>>, <<>>)
         ELSE Trans(Insert(p, y), <<RemUnd(p + b, From(x, q - p)), RemUnd(p, Upto(x, q - p))>>, <<>>)
  BY <1>1, TransformInsertion
<1>8. PICK h, k \in Seq(Letters) : s = Join(h, Join(x, k)) /\ p = Len(h)
  BY DEF Shown
<1>9. ASSUME NEW z \in 0 .. Len(t), "insert" \in g \/ ("append" \in g /\ z = Len(t))
      PROVE  /\ RightTo(ApplyOp(d, u), Insert(z, y))
             /\ Reg(ApplyOp(d, u), Insert(z, y)) = <<Insert(z, y)>>
             /\ ApplyOp(ApplyOp(d, u), Insert(z, y)) = Doc(Insertion(t, z, y), g)
             /\ UndoOp(ApplyOp(ApplyOp(d, u), Insert(z, y)), Insert(z, y)) = ApplyOp(d, u)
  <2>1. RightTo(ApplyOp(d, u), Insert(z, y)) /\ Reg(ApplyOp(d, u), Insert(z, y)) = <<Insert(z, y)>>
    BY <1>5, <1>9, RightIs, RegIs
  <2>2. ApplyOp(ApplyOp(d, u), Insert(z, y)) = Doc(Insertion(t, z, y), g)
    BY <1>5, ApplyIs
  <2>3. Removal(Insertion(t, z, y), z, Len(y)) = t
    BY <1>4, UndoInsertion
  <2> QED
    BY <1>5, <2>1, <2>2, <2>3, UndoIs
<1>10. CASE q >= p + a
  <2>1. Transform(n, u) = Trans(Insert(q - a, y), <<u>>, <<>>) /\ Place(p, x, q) = q - a
    BY <1>1, <1>7, <1>10 DEF Place
  <2>2. PICK z \in 0 .. Len(t) : z = q - a /\ ("insert" \in g \/ ("append" \in g /\ z = Len(t)))
    BY <1>4, <1>6, <1>10
  <2>3. ApplyOp(ApplyOp(d, n), u) = Doc(Insertion(t, z, y), g)
    <3>1. q \in 0 .. Len(s) /\ Len(h) + Len(x) <= q
      BY <1>1, <1>8, <1>10
    <3>2. Insertion(t, z, y) = Removal(Insertion(s, q, y), p, a)
      BY <1>1, <1>3, <1>8, <2>2, <3>1, InsertionBehind
    <3> QED
      BY <1>1, <1>5, <3>2, ApplyIs
  <2> QED
    BY <1>2, <1>3, <1>1, <1>9, <2>1, <2>2, <2>3, DoneIs
<1>11. CASE q <= p
  <2>1. ~ (q >= p + a)
    BY <1>1, <1>4, <1>11
  <2>2. Transform(n, u) = Trans(n, <<RemUnd(p + b, x)>>, <<>>) /\ Place(p, x, q) = q
    BY <1>1, <1>7, <1>11, <2>1 DEF Place
  <2>3. "insert" \in g /\ q \in 0 .. Len(t)
    BY <1>1, <1>4, <1>6, <1>11
  <2>4. ApplyOp(ApplyOp(d, n), RemUnd(p + b, x)) = Doc(Insertion(t, q, y), g)
    <3>1. q <= Len(h)
      BY <1>8, <1>11
    <3>2. Insertion(t, q, y) = Removal(Insertion(s, q, y), p + b, a)
      BY <1>1, <1>3, <1>4, <1>8, <3>1, InsertionAhead
    <3> QED
      BY <1>1, <1>5, <3>2, ApplyIs
  <2> QED
    BY <1>2, <1>3, <1>1, <1>9, <2>2, <2>3, <2>4, DoneIs
<1>12. CASE p < q /\ q < p + a
  <2>1. Place(p, x, q) = p /\ ~ (q >= p + a) /\ ~ (q <= p)
    BY <1>1, <1>4, <1>12 DEF Place
  <2>2. PICK v, w : Transform(n, u) = Trans(Insert(p, y), <<v, w>>, <<>>)
    BY <1>7, <2>1
  <2>3. PICK c : c = Transform(n, u)
    OBVIOUS
  <2>4. c.n = Insert(p, y) /\ c.unk = <<v, w>> /\ c.tail = <<>>
    BY <2>2, <2>3, TransIs
  <2>5. <<>> \o c.unk = c.unk
    <3>1. <<>> \o <<v, w>> = <<v, w>>
      OBVIOUS
    <3> QED
      BY ONLY <2>4, <3>1
  <2>6. "insert" \in g /\ p \in 0 .. Len(t)
    BY <1>1, <1>4, <1>6, <1>12
  <2>8. PICK e : e = ApplyOp(d, u)
    OBVIOUS
  <2>7. /\ RightTo(e, c.n) /\ Reg(e, c.n) = <<Insert(p, y)>>
        /\ ApplyOp(e, c.n) = Doc(Insertion(t, p, y), g)
    BY <1>9, <2>4, <2>6, <2>8
  <2>9. NewOps(e, <<n>>, <<u>>) = Result(ApplyOp(e, c.n), Reg(e, c.n), c.unk)
    BY ONLY <1>2, <2>3, <2>4, <2>5, <2>7, NewTaken
  <2>13. r = NewOps(e, <<n>>, <<u>>)
    BY <2>8
  <2>10. r.err = "none" /\ r.doc = ApplyOp(e, c.n) /\ r.data = <<Insert(p, y)>>
    BY ONLY <2>7, <2>9, <2>13 DEF Result
  <2>11. Reverts(d, u, r)
    <3>1. UndoOp(ApplyOp(e, c.n), Insert(p, y)) = e
      BY <1>9, <2>4, <2>6, <2>8
    <3>2. UndoOps(r.doc, r.data) = e
      BY ONLY <2>10, <3>1, UndoOne
    <3> QED
      BY ONLY <2>8, <2>10, <3>2 DEF Reverts
  <2>12. r.doc = Doc(Insertion(t, p, y), g)
    BY <2>7, <2>10
  <2> QED
    BY <1>1, <1>3, <1>12, <2>1, <2>11, <2>12
<1> QED
  BY <1>1, <1>4, <1>10, <1>11, <1>12

(* The hypotheses of NewCut, and the lemma from them. *)
IsCut(doc, n, u, t, v, c, d) ==
    /\ t = Transform(n, u) /\ RightTo(doc, t.n) /\ t.tail = <<v>>
    /\ t.unk = <<c>> /\ Bytes(c) = Bytes(u) /\ d = ApplyOp(doc, t.n) /\ RightTo(d, v)

LEMMA NewCutIn ==
    ASSUME NEW doc, NEW n, NEW u, Bytes(n) \in Nat, Bytes(n) >= 2, Bytes(u) \in Nat, Bytes(u) > 0,
           NEW t, NEW v, NEW c, NEW d, IsCut(doc, n, u, t, v, c, d)
    PROVE  NewOps(doc, <<n>>, <<u>>) = Result(ApplyOp(d, v), Reg(doc, t.n) \o Reg(d, v), <<>>)
  BY NewCut DEF IsCut

LEMMA TwoMore == ASSUME NEW a, NEW b PROVE <<a>> \o <<b>> = <<a, b>>
<1>1. <<a>> \in Seq({a, b}) /\ b \in {a, b}
  OBVIOUS
<1>2. Append(<<a>>, b) = <<a>> \o <<b>>
  BY ONLY <1>1, AppendIsConcat
<1>3. PICK s : s = Append(<<a>>, b)
  OBVIOUS
<1>4. s \in Seq({a, b}) /\ Len(s) = 2 /\ \A i \in 1 .. 2 : s[i] = IF i <= 1 THEN <<a>>[i] ELSE b
  BY <1>1, <1>3, AppendProperties
<1>5. s[1] = a /\ s[2] = b
  BY <1>4
<1>6. PICK t : t = <<a, b>>
  OBVIOUS
<1>7. t \in Seq({a, b}) /\ Len(t) = 2 /\ t[1] = a /\ t[2] = b
  BY <1>6
<1>8. \A i \in 1 .. Len(s) : s[i] = t[i]
  BY ONLY <1>4, <1>5, <1>7
<1>9. s = t
  BY ONLY <1>4, <1>7, <1>8, SeqEqual
<1> QED
  BY ONLY <1>2, <1>3, <1>6, <1>9

(* A removal after an insertion, which cuts it in two if it is inside.     *)
LEMMA RemovalAfterInsertion ==
    ASSUME NEW s \in Seq(Letters), NEW g, NEW p, NEW x \in Seq(Letters), x # <<>>, Shown(Letters, s, p, x),
           NEW q \in 0 .. Len(s), NEW y \in Seq(Letters), y # <<>>,
           NEW u, u = Insert(q, y), NEW n, n = RemUnd(p, x), NEW d, d = Doc(s, g), RightTo(d, n),
           NEW r, r = NewOps(ApplyOp(d, u), <<n>>, <<u>>)
    PROVE  /\ Reverts(d, u, r)
           /\ ~ (p < q /\ q < p + Len(x)) => Fits(d, u, n, r)
           /\ r.doc = Doc(Insertion(Removal(s, p, Len(x)), Place(p, x, q), y), g)
<1>1. PICK l \in Nat, a \in Nat, b \in Nat : l = Len(s) /\ a = Len(x) /\ b = Len(y) /\ a > 0
  BY EmptySeq, LenProperties
<1>2. Bytes(n) \in Nat /\ Bytes(n) >= 2 /\ Bytes(u) \in Nat /\ Bytes(u) > 0
  BY BytesIs
<1>3. PICK t, i : t = Removal(s, p, a) /\ i = Insertion(s, q, y)
  OBVIOUS
<1>4. t \in Seq(Letters) /\ Len(t) = l - a /\ p \in Nat /\ p + a <= l /\ q \in Nat /\ q <= l
  <2>1. /\ Removal(s, p, Len(x)) \in Seq(Letters) /\ Len(Removal(s, p, Len(x))) = Len(s) - Len(x)
        /\ p \in Nat /\ p + Len(x) <= Len(s)
    BY RemovalLen
  <2> QED
    BY ONLY <1>1, <1>3, <2>1, q \in 0 .. Len(s)
<1>5. ApplyOp(d, u) = Doc(i, g) /\ ApplyOp(d, n) = Doc(t, g)
  BY <1>1, <1>3, ApplyIs
<1>6. "remove" \in g
  BY RightIs
<1>7. Transform(n, u) =
         IF q >= p + a THEN Trans(n, <<Insert(q - a, y)>>, <<>>)
         ELSE IF q <= p THEN Trans(RemUnd(p + b, x), <<u>>, <<>>)
         ELSE Trans(RemUnd(p, Upto(x, q - p)), <<Insert(p, y)>>, <<RemUnd(p + b, From(x, q - p))>>)
  BY <1>1, TransformRemoval
<1>8. PICK h, k \in Seq(Letters) : s = Join(h, Join(x, k)) /\ p = Len(h)
  BY DEF Shown
<1>9. ASSUME NEW z, Shown(Letters, i, z, x)
      PROVE  /\ RightTo(ApplyOp(d, u), RemUnd(z, x))
             /\ Reg(ApplyOp(d, u), RemUnd(z, x)) = <<RemUnd(z, x)>>
             /\ ApplyOp(ApplyOp(d, u), RemUnd(z, x)) = Doc(Removal(i, z, a), g)
             /\ UndoOp(ApplyOp(ApplyOp(d, u), RemUnd(z, x)), RemUnd(z, x)) = ApplyOp(d, u)
  <2>1. RightTo(ApplyOp(d, u), RemUnd(z, x)) /\ Reg(ApplyOp(d, u), RemUnd(z, x)) = <<RemUnd(z, x)>>
    BY <1>5, <1>6, RightIs, RegIs
  <2>2. ApplyOp(ApplyOp(d, u), RemUnd(z, x)) = Doc(Removal(i, z, a), g)
    BY <1>1, <1>5, ApplyIs
  <2>3. Insertion(Removal(i, z, a), z, x) = i
    BY <1>1, <1>9, UndoRemoval
  <2> QED
    BY <1>5, <2>1, <2>2, <2>3, UndoIs
<1>10. CASE q >= p + a
  <2>1. Transform(n, u) = Trans(n, <<Insert(q - a, y)>>, <<>>) /\ Place(p, x, q) = q - a
    BY <1>1, <1>7, <1>10 DEF Place
  <2>2. Len(h) + Len(x) <= q
    BY <1>1, <1>8, <1>10
  <2>3. Insertion(t, q - a, y) = Removal(i, p, a) /\ Shown(Letters, i, p, x)
    BY <1>1, <1>3, <1>8, <2>2, InsertionBehind
  <2>4. ApplyOp(ApplyOp(d, n), Insert(q - a, y)) = Doc(Insertion(t, q - a, y), g)
    BY <1>5, ApplyIs
  <2> QED
    BY <1>2, <1>3, <1>1, <1>9, <2>1, <2>3, <2>4, DoneIs
<1>11. CASE q <= p
  <2>1. ~ (q >= p + a)
    BY <1>1, <1>4, <1>11
  <2>2. Transform(n, u) = Trans(RemUnd(p + b, x), <<u>>, <<>>) /\ Place(p, x, q) = q
    BY <1>1, <1>7, <1>11, <2>1 DEF Place
  <2>3. q <= Len(h)
    BY <1>8, <1>11
  <2>4. Insertion(t, q, y) = Removal(i, p + b, a) /\ Shown(Letters, i, p + b, x)
    BY <1>1, <1>3, <1>4, <1>8, <2>3, InsertionAhead
  <2>5. ApplyOp(ApplyOp(d, n), u) = Doc(Insertion(t, q, y), g)
    BY <1>5, ApplyIs
  <2> QED
    BY <1>2, <1>3, <1>1, <1>9, <2>2, <2>4, <2>5, DoneIs
<1>12. CASE p < q /\ q < p + a
  <2>1. Place(p, x, q) = p /\ ~ (q >= p + a) /\ ~ (q <= p)
    BY <1>1, <1>4, <1>12 DEF Place
  <2>2. PICK j \in 0 .. Len(x) : j = q - p /\ 0 < j /\ j < a
    BY <1>1, <1>4, <1>12
  <2>3. PICK v \in Seq(Letters), w \in Seq(Letters) : x = Join(v, w) /\ Len(v) = j
    BY <2>2, Split
  <2>4. Upto(x, q - p) = v /\ From(x, q - p) = w
    BY <2>2, <2>3, Parts
  <2>5. Transform(n, u) = Trans(RemUnd(p, v), <<Insert(p, y)>>, <<RemUnd(p + b, w)>>)
    BY <1>7, <2>1, <2>4
  <2>6. v # <<>> /\ w # <<>>
    <3>1. Len(x) = Len(v) + Len(w) /\ Len(v) \in Nat /\ Len(w) \in Nat
      BY <2>3, AreWords DEF Words
    <3>2. Len(v) > 0 /\ Len(w) > 0
      BY ONLY <1>1, <2>2, <2>3, <3>1
    <3> QED
      BY <3>2, EmptySeq
  <2>7. /\ Removal(Removal(i, p, Len(v)), p + b, Len(w)) = Insertion(t, p, y)
        /\ Shown(Letters, i, p, v) /\ Shown(Letters, Removal(i, p, Len(v)), p + b, w)
    <3>1. q = p + j
      BY <1>4, <2>2
    <3>2. q = Len(h) + Len(v) /\ s = Join(h, Join(Join(v, w), k))
      BY ONLY <3>1, <2>3, <1>8
    <3>3. PICK z : z = p + b
      OBVIOUS
    <3>4. p = Len(h) /\ q = p + Len(v) /\ z = p + Len(y)
      BY ONLY <1>1, <1>8, <2>3, <3>1, <3>3
    <3>5. /\ Removal(Removal(i, p, Len(v)), z, Len(w)) = Insertion(Removal(s, p, Len(Join(v, w))), p, y)
          /\ Shown(Letters, i, p, v) /\ Shown(Letters, Removal(i, p, Len(v)), z, w)
      <4>1. i = Insertion(s, q, y) /\ s = Join(h, Join(Join(v, w), k))
        BY <1>3, <3>2
      <4>2. IsInside(Letters, s, h, v, w, k, y, p, q, z, i)
        BY ONLY <3>4, <4>1, h \in Seq(Letters), k \in Seq(Letters), v \in Seq(Letters), w \in Seq(Letters),
                y \in Seq(Letters) DEF IsInside
      <4> QED
        BY ONLY <4>2, InsertionInside
    <3> QED
      BY ONLY <1>1, <1>3, <2>3, <3>3, <3>5
  <2>8. PICK e, f, c, m, o : e = ApplyOp(d, u) /\ c = Transform(n, u) /\ m = RemUnd(p, v) /\ o = RemUnd(p + b, w)
                             /\ f = ApplyOp(e, m)
    OBVIOUS
  <2>9. c.n = m /\ c.unk = <<Insert(p, y)>> /\ c.tail = <<o>>
    BY <2>5, <2>8, TransIs
  <2>10. e = Doc(i, g) /\ f = Doc(Removal(i, p, Len(v)), g)
         /\ ApplyOp(f, o) = Doc(Removal(Removal(i, p, Len(v)), p + b, Len(w)), g)
    BY <1>5, <2>8, ApplyIs
  <2>11. RightTo(e, m) /\ RightTo(f, o) /\ Reg(e, m) = <<m>> /\ Reg(f, o) = <<o>>
    BY <1>6, <2>6, <2>8, <2>10, RightIs, RegIs
  <2>12. Bytes(Insert(p, y)) = Bytes(u)
    BY BytesIs
  <2>13. NewOps(e, <<n>>, <<u>>) = Result(ApplyOp(f, o), Reg(e, c.n) \o Reg(f, o), <<>>)
    <3>1. PICK z : z = Insert(p, y)
      OBVIOUS
    <3>2. /\ RightTo(e, c.n) /\ RightTo(f, o) /\ f = ApplyOp(e, c.n) /\ c = Transform(n, u)
          /\ c.unk = <<z>> /\ c.tail = <<o>> /\ Bytes(z) = Bytes(u)
      BY ONLY <2>8, <2>9, <2>11, <2>12, <3>1
    <3>3. IsCut(e, n, u, c, o, z, f)
      BY ONLY <3>2 DEF IsCut
    <3> QED
      BY ONLY <1>2, <3>3, NewCutIn
  <2>14. Reg(e, c.n) \o Reg(f, o) = <<m, o>>
    BY ONLY <2>9, <2>11, TwoMore
  <2>15. r = Result(ApplyOp(f, o), <<m, o>>, <<>>)
    BY <2>8, <2>13, <2>14
  <2>16. r.err = "none" /\ r.doc = ApplyOp(f, o) /\ r.data = <<m, o>>
    BY ONLY <2>15 DEF Result
  <2>17. UndoOp(ApplyOp(f, o), o) = f
    <3>1. Insertion(Removal(Removal(i, p, Len(v)), p + b, Len(w)), p + b, w) = Removal(i, p, Len(v))
      BY <2>7, UndoRemoval
    <3> QED
      BY <2>8, <2>10, <3>1, UndoIs
  <2>18. UndoOp(f, m) = e
    <3>1. Insertion(Removal(i, p, Len(v)), p, v) = i
      BY <2>7, UndoRemoval
    <3> QED
      BY <2>8, <2>10, <3>1, UndoIs
  <2>19. UndoOps(r.doc, r.data) = e
    BY ONLY <2>16, <2>17, <2>18, UndoTwo
  <2>20. Reverts(d, u, r)
    BY ONLY <2>8, <2>16, <2>19 DEF Reverts
  <2>21. r.doc = Doc(Insertion(t, p, y), g)
    BY ONLY <2>7, <2>10, <2>16
  <2> QED
    BY <1>1, <1>3, <1>12, <2>1, <2>20, <2>21
<1> QED
  BY <1>1, <1>4, <1>10, <1>11, <1>12

(* A removal after the removal of something else, or of a text that starts later. *)
LEMMA RemovalAfterOther ==
    ASSUME NEW s \in Seq(Letters), NEW g, NEW p, NEW x \in Seq(Letters), x # <<>>, Shown(Letters, s, p, x),
           NEW q, NEW y \in Seq(Letters), y # <<>>, Shown(Letters, s, q, y),
           NEW u, u = RemUnd(q, y), NEW n, n = RemUnd(p, x), NEW d, d = Doc(s, g), RightTo(d, n),
           NEW r, r = NewOps(ApplyOp(d, u), <<n>>, <<u>>), q + Len(y) <= p \/ q > p
    PROVE  /\ Fits(d, u, n, r) /\ Reverts(d, u, r)
           /\ q + Len(y) <= p => r.doc = Doc(Removal(Removal(s, p, Len(x)), q, Len(y)), g)
           /\ p + Len(x) <= q => r.doc = Doc(Removal(Removal(s, q, Len(y)), p, Len(x)), g)
<1>1. PICK l \in Nat, a \in Nat, b \in Nat : l = Len(s) /\ a = Len(x) /\ b = Len(y) /\ a > 0 /\ b > 0
  BY EmptySeq, LenProperties
<1>2. Bytes(n) \in Nat /\ Bytes(n) >= 2 /\ Bytes(u) \in Nat /\ Bytes(u) > 0
  BY BytesIs
<1>3. PICK t, w : t = Removal(s, q, b) /\ w = Removal(s, p, a)
  OBVIOUS
<1>4. w \in Seq(Letters) /\ p \in Nat /\ q \in Nat
  <2>1. Removal(s, p, Len(x)) \in Seq(Letters) /\ p \in Nat
    BY RemovalLen
  <2>2. q \in Nat
    BY RemovalLen
  <2> QED
    BY ONLY <1>1, <1>3, <2>1, <2>2
<1>5. ApplyOp(d, u) = Doc(t, g) /\ ApplyOp(d, n) = Doc(w, g)
  BY <1>1, <1>3, ApplyIs
<1>6. "remove" \in g
  BY RightIs
<1>7. /\ q + b <= p => Transform(n, u) = Trans(RemUnd(p - b, x), <<u>>, <<>>)
      /\ p + a <= q => Transform(n, u) = Trans(n, <<RemUnd(q - a, y)>>, <<>>)
      /\ p < q /\ q < p + a /\ p + a <= q + b =>
            Transform(n, u) = Trans(RemUnd(p, Upto(x, q - p)), <<RemUnd(p, From(y, p + a - q))>>, <<>>)
      /\ p < q /\ q + b < p + a =>
            Transform(n, u) = Trans(RemUnd(p, Upto(x, q - p) \o From(x, q - p + b)), <<RemUnd(q, <<>>)>>, <<>>)
  <2>1. /\ q + Len(y) <= p =>
              Transform(RemUnd(p, x), RemUnd(q, y)) = Trans(RemUnd(p - Len(y), x), <<RemUnd(q, y)>>, <<>>)
        /\ p + Len(x) <= q =>
              Transform(RemUnd(p, x), RemUnd(q, y)) = Trans(RemUnd(p, x), <<RemUnd(q - Len(x), y)>>, <<>>)
        /\ p < q /\ q < p + Len(x) /\ p + Len(x) <= q + Len(y) =>
              Transform(RemUnd(p, x), RemUnd(q, y)) =
                 Trans(RemUnd(p, Upto(x, q - p)), <<RemUnd(p, From(y, p + Len(x) - q))>>, <<>>)
        /\ p < q /\ q + Len(y) < p + Len(x) =>
              Transform(RemUnd(p, x), RemUnd(q, y)) =
                 Trans(RemUnd(p, Upto(x, q - p) \o From(x, q - p + Len(y))), <<RemUnd(q, <<>>)>>, <<>>)
    BY <1>4, TransformRemovals
  <2> QED
    BY ONLY <1>1, <2>1, u = RemUnd(q, y), n = RemUnd(p, x)
<1>8. ASSUME NEW z, NEW v \in Seq(Letters), v # <<>>, Shown(Letters, t, z, v), NEW m, m = RemUnd(z, v),
             NEW c, Transform(n, u) = Trans(m, <<c>>, <<>>),
             ApplyOp(ApplyOp(d, n), c) = Doc(Removal(t, z, Len(v)), g)
      PROVE  Fits(d, u, n, r) /\ Reverts(d, u, r) /\ r.doc = Doc(Removal(t, z, Len(v)), g)
  <2>1. RightTo(ApplyOp(d, u), m) /\ Reg(ApplyOp(d, u), m) = <<m>>
    BY <1>5, <1>6, <1>8, RightIs, RegIs
  <2>2. ApplyOp(ApplyOp(d, u), m) = Doc(Removal(t, z, Len(v)), g)
    BY <1>5, <1>8, ApplyIs
  <2>3. Insertion(Removal(t, z, Len(v)), z, v) = t
    BY <1>8, UndoRemoval
  <2>4. UndoOp(ApplyOp(ApplyOp(d, u), m), m) = ApplyOp(d, u)
    BY <1>5, <1>8, <2>2, <2>3, UndoIs
  <2> QED
    BY <1>2, <1>8, <2>1, <2>2, <2>4, DoneIs
<1>10. CASE q + b <= p
  <2>1. PICK h, e, k \in Seq(Letters) :
           /\ s = Join(Join(Join(h, y), e), Join(x, k))
           /\ q = Len(h) /\ p = Len(h) + Len(y) + Len(e)
    BY <1>1, <1>10, ShownApart
  <2>2. /\ Removal(Removal(s, Len(h), Len(y)), Len(h) + Len(e), Len(x))
              = Removal(Removal(s, p, Len(x)), Len(h), Len(y))
        /\ Shown(Letters, Removal(s, Len(h), Len(y)), Len(h) + Len(e), x)
    BY <2>1, RemovalsApart
  <2>3. Len(h) + Len(e) = p - b
    BY <1>1, <2>1, LenProperties
  <2>4. Removal(t, p - b, a) = Removal(w, q, b) /\ Shown(Letters, t, p - b, x)
    BY ONLY <1>1, <1>3, <2>1, <2>2, <2>3
  <2>5. ApplyOp(ApplyOp(d, n), u) = Doc(Removal(t, p - b, a), g)
    BY <1>1, <1>5, <2>4, ApplyIs
  <2>6. Transform(n, u) = Trans(RemUnd(p - b, x), <<u>>, <<>>)
    BY <1>7, <1>10
  <2>7. Fits(d, u, n, r) /\ Reverts(d, u, r) /\ r.doc = Doc(Removal(t, p - b, a), g)
    BY <1>1, <1>8, <2>4, <2>5, <2>6
  <2>8. ~ (p + a <= q)
    BY <1>1, <1>4, <1>10
  <2> QED
    BY <1>1, <1>3, <2>4, <2>7, <2>8
<1>11. CASE p + a <= q
  <2>1. PICK h, e, k \in Seq(Letters) :
           /\ s = Join(Join(Join(h, x), e), Join(y, k))
           /\ p = Len(h) /\ q = Len(h) + Len(x) + Len(e)
    BY <1>1, <1>11, ShownApart
  <2>2. /\ Removal(Removal(s, Len(h), Len(x)), Len(h) + Len(e), Len(y))
              = Removal(Removal(s, q, Len(y)), Len(h), Len(x))
        /\ Shown(Letters, Removal(s, q, Len(y)), Len(h), x)
    BY <2>1, RemovalsApart
  <2>3. Len(h) + Len(e) = q - a
    BY <1>1, <2>1, LenProperties
  <2>4. Removal(w, q - a, b) = Removal(t, p, a) /\ Shown(Letters, t, p, x)
    BY ONLY <1>1, <1>3, <2>1, <2>2, <2>3
  <2>5. ApplyOp(ApplyOp(d, n), RemUnd(q - a, y)) = Doc(Removal(t, p, a), g)
    BY <1>1, <1>5, <2>4, ApplyIs
  <2>6. Transform(n, u) = Trans(n, <<RemUnd(q - a, y)>>, <<>>)
    BY <1>7, <1>11
  <2>7. Fits(d, u, n, r) /\ Reverts(d, u, r) /\ r.doc = Doc(Removal(t, p, a), g)
    BY <1>1, <1>8, <2>4, <2>5, <2>6
  <2>8. ~ (q + b <= p)
    BY <1>1, <1>4, <1>11
  <2> QED
    BY <1>1, <1>3, <2>7, <2>8
<1>12. ASSUME p < q, q < p + a
       PROVE  Fits(d, u, n, r) /\ Reverts(d, u, r)
  <2>1. p <= q /\ q <= p + Len(x)
    BY <1>1, <1>4, <1>12
  <2>2. PICK h, e \in Seq(Letters) : p = Len(h) /\ q = Len(h) + Len(e) /\
              \/ /\ p + Len(x) <= q + Len(y)
                 /\ \E f, k, o \in Seq(Letters) : x = Join(e, f) /\ y = Join(f, k)
                                             /\ s = Join(h, Join(Join(e, f), Join(k, o)))
              \/ /\ q + Len(y) < p + Len(x)
                 /\ \E k, o \in Seq(Letters) : x = Join(e, Join(y, k)) /\ s = Join(h, Join(Join(e, Join(y, k)), o))
    BY <2>1, ShownOverlap
  <2>3. Len(e) = q - p /\ Len(e) > 0 /\ Len(e) \in Nat
    BY <1>4, <1>12, <2>2, LenProperties
  <2>4. CASE /\ p + Len(x) <= q + Len(y)
             /\ \E f, k, o \in Seq(Letters) : x = Join(e, f) /\ y = Join(f, k)
                                             /\ s = Join(h, Join(Join(e, f), Join(k, o)))
    <3>1. PICK f, k, o \in Seq(Letters) : x = Join(e, f) /\ y = Join(f, k)
                                             /\ s = Join(h, Join(Join(e, f), Join(k, o)))
      BY <2>4
    <3>2. Upto(x, q - p) = e
      BY <2>3, <3>1, Parts
    <3>3. Len(f) = p + a - q
      <4>1. Len(x) = Len(e) + Len(f) /\ Len(f) \in Nat
        BY <3>1, AreWords DEF Words
      <4> QED
        BY ONLY <1>1, <1>4, <2>3, <4>1
    <3>4. From(y, p + a - q) = k
      BY <3>1, <3>3, Parts
    <3>5. IsOverlap(Letters, s, h, e, f, k, o, y, x, q, p)
      BY <2>2, <3>1 DEF IsOverlap
    <3>6. Removal(t, p, Len(e)) = Removal(w, p, Len(k)) /\ Shown(Letters, t, p, e)
      <4>1. /\ Removal(Removal(s, q, Len(y)), p, Len(e)) = Removal(Removal(s, p, Len(x)), p, Len(k))
            /\ Shown(Letters, Removal(s, q, Len(y)), p, e)
        BY <3>5, RemovalsOverlap
      <4> QED
        BY ONLY <1>1, <1>3, <4>1
    <3>7. Transform(n, u) = Trans(RemUnd(p, e), <<RemUnd(p, k)>>, <<>>)
      BY <1>1, <1>7, <1>12, <2>4, <3>2, <3>4
    <3>8. ApplyOp(ApplyOp(d, n), RemUnd(p, k)) = Doc(Removal(t, p, Len(e)), g)
      BY <1>5, <3>6, ApplyIs
    <3>9. e # <<>>
      BY <2>3, EmptySeq
    <3> QED
      BY <1>8, <3>6, <3>7, <3>8, <3>9
  <2>5. CASE /\ q + Len(y) < p + Len(x)
             /\ \E k, o \in Seq(Letters) : x = Join(e, Join(y, k)) /\ s = Join(h, Join(Join(e, Join(y, k)), o))
    <3>1. PICK k, o \in Seq(Letters) : x = Join(e, Join(y, k)) /\ s = Join(h, Join(Join(e, Join(y, k)), o))
      BY <2>5
    <3>2. /\ Join(y, k) \in Seq(Letters) /\ Join(e, y) \in Seq(Letters) /\ Join(e, k) \in Seq(Letters)
          /\ x = Join(Join(e, y), k) /\ Len(Join(e, y)) = Len(e) + Len(y) /\ Len(Join(e, k)) = Len(e) + Len(k)
          /\ Len(k) \in Nat
      BY <3>1, AreWords DEF Words
    <3>3. Upto(x, q - p) = e
      BY <2>3, <3>1, <3>2, Parts
    <3>4. From(x, Len(e) + Len(y)) = k
      <4>1. PICK v : v = Join(e, y)
        OBVIOUS
      <4>2. From(Join(v, k), Len(v)) = k
        BY <3>2, <4>1, Parts
      <4> QED
        BY ONLY <3>2, <4>1, <4>2
    <3>5. Len(e) + Len(y) = q - p + b
      BY ONLY <1>1, <2>3
    <3>6. Upto(x, q - p) \o From(x, q - p + b) = Join(e, k)
      BY ONLY <3>3, <3>4, <3>5 DEF Join
    <3>7. Transform(n, u) = Trans(RemUnd(p, Join(e, k)), <<RemUnd(q, <<>>)>>, <<>>)
      BY <1>1, <1>7, <1>12, <2>5, <3>6
    <3>8. IsAround(Letters, s, h, e, k, o, y, x, q, p)
      BY <2>2, <3>1 DEF IsAround
    <3>9. Removal(t, p, Len(Join(e, k))) = w /\ Shown(Letters, t, p, Join(e, k))
      <4>1. /\ Removal(Removal(s, q, Len(y)), p, Len(Join(e, k))) = Removal(s, p, Len(x))
            /\ Shown(Letters, Removal(s, q, Len(y)), p, Join(e, k))
        BY <3>8, RemovalAround
      <4> QED
        BY ONLY <1>1, <1>3, <4>1
    <3>10. ApplyOp(ApplyOp(d, n), RemUnd(q, <<>>)) = Doc(Removal(t, p, Len(Join(e, k))), g)
      <4>1. Removal(w, q, Len(<<>>)) = w
        BY <1>4, NoneRemoved
      <4>2. ApplyOp(Doc(w, g), RemUnd(q, <<>>)) = Doc(Removal(w, q, Len(<<>>)), g)
        BY ApplyIs
      <4> QED
        BY ONLY <1>5, <3>9, <4>1, <4>2
    <3>11. Join(e, k) # <<>>
      <4>1. Len(Join(e, k)) > 0
        BY ONLY <2>3, <3>2
      <4> QED
        BY <4>1, EmptySeq
    <3> QED
      BY <1>8, <3>2, <3>7, <3>9, <3>10, <3>11
  <2> QED
    BY <2>2, <2>4, <2>5
<1>13. CASE p < q /\ q < p + a
  <2>1. ~ (q + b <= p) /\ ~ (p + a <= q)
    BY <1>1, <1>4, <1>13
  <2> QED
    BY <1>1, <1>12, <1>13, <2>1
<1> QED
  BY <1>1, <1>4, <1>10, <1>11, <1>13

-----------------------------------------------------------------------------
(* The operations on the rights.                                           *)
LEMMA RightsOpsAre ==
    ASSUME NEW f
    PROVE  /\ AddUsrRight(f).op = "AddUsrRight" /\ AddUsrRight(f).flags = f
           /\ RemUsrRight(f).op = "RemUsrRight" /\ RemUsrRight(f).flags = f
           /\ ~ IsText(AddUsrRight(f)) /\ ~ IsText(RemUsrRight(f))
           /\ \A e : [AddUsrRight(f) EXCEPT !.flags = e] = AddUsrRight(e)
           /\ \A e : [RemUsrRight(f) EXCEPT !.flags = e] = RemUsrRight(e)
           /\ Bytes(AddUsrRight(f)) = 3 /\ Bytes(RemUsrRight(f)) = 3
  BY DEF AddUsrRight, RemUsrRight, IsText, Bytes

Given(g, f) == g \cup f
Taken(g, f) == g \ f
Flipped(g, f) == (g \ f) \cup (f \ g)
Common(f, g) == f \cap g

(* What becomes of the text, and of the rights.                            *)
StrOf(s, o) ==
    IF o.op = "Insert" THEN Insertion(s, o.pos, o.str)
    ELSE IF o.op = "RemUnd" THEN Removal(s, o.pos, Len(o.str)) ELSE s
RightsOf(g, o) ==
    IF o.op = "AddUsrRight" THEN Given(g, o.flags)
    ELSE IF o.op = "RemUsrRight" THEN Taken(g, o.flags) ELSE g

(* An operation that may be made on the text s with the rights g.          *)
OpOn(s, g, o) ==
    /\ RightTo(Doc(s, g), o)
    /\ \/ \E p \in 0 .. Len(s), x \in Seq(Letters) : x # <<>> /\ o = Insert(p, x)
       \/ \E p, x : x \in Seq(Letters) /\ x # <<>> /\ Shown(Letters, s, p, x) /\ o = RemUnd(p, x)
       \/ \E f : o = AddUsrRight(f)
       \/ \E f : o = RemUsrRight(f)

LEMMA ApplyRightsIs ==
    ASSUME NEW s, NEW g, NEW f
    PROVE  /\ ApplyOp(Doc(s, g), AddUsrRight(f)) = Doc(s, Given(g, f))
           /\ ApplyOp(Doc(s, g), RemUsrRight(f)) = Doc(s, Taken(g, f))
           /\ UndoOp(Doc(s, g), AddUsrRight(f)) = Doc(s, Flipped(g, f))
           /\ UndoOp(Doc(s, g), RemUsrRight(f)) = Doc(s, Flipped(g, f))
<1>1. /\ ApplyOp(Doc(s, g), AddUsrRight(f)) = [Doc(s, g) EXCEPT !.rights = @ \cup f]
      /\ ApplyOp(Doc(s, g), RemUsrRight(f)) = [Doc(s, g) EXCEPT !.rights = @ \ f]
  BY ONLY RightsOpsAre DEF ApplyOp
<1>2. /\ UndoOp(Doc(s, g), AddUsrRight(f)) = [Doc(s, g) EXCEPT !.rights = (@ \ f) \cup (f \ @)]
      /\ UndoOp(Doc(s, g), RemUsrRight(f)) = [Doc(s, g) EXCEPT !.rights = (@ \ f) \cup (f \ @)]
  BY ONLY RightsOpsAre DEF UndoOp
<1> QED
  BY ONLY <1>1, <1>2 DEF Doc, Given, Taken, Flipped

LEMMA RegRightsIs ==
    ASSUME NEW s, NEW g, NEW f
    PROVE  /\ Taken(f, g) = {} => Reg(Doc(s, g), AddUsrRight(f)) = <<>>
           /\ Taken(f, g) # {} => Reg(Doc(s, g), AddUsrRight(f)) = <<AddUsrRight(Taken(f, g))>>
           /\ Common(f, g) = {} => Reg(Doc(s, g), RemUsrRight(f)) = <<>>
           /\ Common(f, g) # {} => Reg(Doc(s, g), RemUsrRight(f)) = <<RemUsrRight(Common(f, g))>>
<1>1. Reg(Doc(s, g), AddUsrRight(f)) = IF Taken(f, g) = {} THEN <<>> ELSE <<AddUsrRight(Taken(f, g))>>
  <2>1. PICK o : o = AddUsrRight(f)
    OBVIOUS
  <2>2. ~ IsText(o) /\ o.op = "AddUsrRight" /\ o.flags = f /\ \A e : [o EXCEPT !.flags = e] = AddUsrRight(e)
    BY ONLY <2>1, RightsOpsAre
  <2>3. Reg(Doc(s, g), o) = IF f \ g = {} THEN <<>> ELSE <<[o EXCEPT !.flags = f \ g]>>
    BY ONLY <2>2, DocIs, Zenon DEF Reg
  <2> QED
    BY ONLY <2>1, <2>2, <2>3, Zenon DEF Taken
<1>2. Reg(Doc(s, g), RemUsrRight(f)) = IF Common(f, g) = {} THEN <<>> ELSE <<RemUsrRight(Common(f, g))>>
  <2>1. PICK o : o = RemUsrRight(f)
    OBVIOUS
  <2>2. ~ IsText(o) /\ o.op # "AddUsrRight" /\ o.flags = f /\ \A e : [o EXCEPT !.flags = e] = RemUsrRight(e)
    BY ONLY <2>1, RightsOpsAre
  <2>3. Reg(Doc(s, g), o) = IF f \cap g = {} THEN <<>> ELSE <<[o EXCEPT !.flags = f \cap g]>>
    BY ONLY <2>2, DocIs, Zenon DEF Reg
  <2> QED
    BY ONLY <2>1, <2>2, <2>3, Zenon DEF Common
<1> QED
  BY <1>1, <1>2

LEMMA AppliedIs ==
    ASSUME NEW s, NEW g, NEW o, NEW h, OpOn(s, g, o)
    PROVE  \A z, e : ApplyOp(Doc(z, e), o) = Doc(StrOf(z, o), RightsOf(e, o))
<1>1. ASSUME NEW z, NEW e PROVE ApplyOp(Doc(z, e), o) = Doc(StrOf(z, o), RightsOf(e, o))
  <2>1. ASSUME NEW p, NEW x, o = Insert(p, x) PROVE ApplyOp(Doc(z, e), o) = Doc(StrOf(z, o), RightsOf(e, o))
    BY <2>1, OpsAre, ApplyIs DEF StrOf, RightsOf
  <2>2. ASSUME NEW p, NEW x, o = RemUnd(p, x) PROVE ApplyOp(Doc(z, e), o) = Doc(StrOf(z, o), RightsOf(e, o))
    BY <2>2, OpsAre, ApplyIs DEF StrOf, RightsOf
  <2>3. ASSUME NEW f, o = AddUsrRight(f) PROVE ApplyOp(Doc(z, e), o) = Doc(StrOf(z, o), RightsOf(e, o))
    BY <2>3, RightsOpsAre, ApplyRightsIs DEF StrOf, RightsOf
  <2>4. ASSUME NEW f, o = RemUsrRight(f) PROVE ApplyOp(Doc(z, e), o) = Doc(StrOf(z, o), RightsOf(e, o))
    BY <2>4, RightsOpsAre, ApplyRightsIs DEF StrOf, RightsOf
  <2> QED
    BY <2>1, <2>2, <2>3, <2>4 DEF OpOn
<1> QED
  BY <1>1

LEMMA RightsUndone ==
    ASSUME NEW z, NEW g, NEW o, OpOn(z, g, o), ~ IsText(o), NEW s, NEW e
    PROVE  UndoOps(ApplyOp(Doc(s, e), o), Reg(Doc(s, e), o)) = Doc(s, e)
<1>1. ASSUME NEW f, o = AddUsrRight(f)
      PROVE  UndoOps(ApplyOp(Doc(s, e), o), Reg(Doc(s, e), o)) = Doc(s, e)
  <2>1. ApplyOp(Doc(s, e), o) = Doc(s, Given(e, f))
    BY <1>1, ApplyRightsIs
  <2>2. CASE Taken(f, e) = {}
    <3>1. Given(e, f) = e
      BY <2>2 DEF Given, Taken
    <3>2. Reg(Doc(s, e), o) = <<>>
      BY <1>1, <2>2, RegRightsIs
    <3> QED
      BY ONLY <2>1, <3>1, <3>2, UndoNone
  <2>3. CASE Taken(f, e) # {}
    <3>1. Reg(Doc(s, e), o) = <<AddUsrRight(Taken(f, e))>>
      BY <1>1, <2>3, RegRightsIs
    <3>2. Flipped(Given(e, f), Taken(f, e)) = e
      BY DEF Flipped, Given, Taken
    <3>3. UndoOp(Doc(s, Given(e, f)), AddUsrRight(Taken(f, e))) = Doc(s, e)
      BY <3>2, ApplyRightsIs
    <3> QED
      BY ONLY <2>1, <3>1, <3>3, UndoOne
  <2> QED
    BY <2>2, <2>3
<1>2. ASSUME NEW f, o = RemUsrRight(f)
      PROVE  UndoOps(ApplyOp(Doc(s, e), o), Reg(Doc(s, e), o)) = Doc(s, e)
  <2>1. ApplyOp(Doc(s, e), o) = Doc(s, Taken(e, f))
    BY <1>2, ApplyRightsIs
  <2>2. CASE Common(f, e) = {}
    <3>1. Taken(e, f) = e
      BY <2>2 DEF Taken, Common
    <3>2. Reg(Doc(s, e), o) = <<>>
      BY <1>2, <2>2, RegRightsIs
    <3> QED
      BY ONLY <2>1, <3>1, <3>2, UndoNone
  <2>3. CASE Common(f, e) # {}
    <3>1. Reg(Doc(s, e), o) = <<RemUsrRight(Common(f, e))>>
      BY <1>2, <2>3, RegRightsIs
    <3>2. Flipped(Taken(e, f), Common(f, e)) = e
      BY DEF Flipped, Taken, Common
    <3>3. UndoOp(Doc(s, Taken(e, f)), RemUsrRight(Common(f, e))) = Doc(s, e)
      BY <3>2, ApplyRightsIs
    <3> QED
      BY ONLY <2>1, <3>1, <3>3, UndoOne
  <2> QED
    BY <2>2, <2>3
<1> QED
  BY <1>1, <1>2, OpsAre DEF OpOn

(* What is registered of an operation undoes it, whatever the rights are.  *)
LEMMA RegisteredUndoes ==
    ASSUME NEW s, s \in Seq(Letters), NEW g, NEW e, NEW o, OpOn(s, g, o)
    PROVE  UndoOps(ApplyOp(Doc(s, e), o), Reg(Doc(s, e), o)) = Doc(s, e)
<1>1. ASSUME NEW p \in 0 .. Len(s), NEW x \in Seq(Letters), x # <<>>, o = Insert(p, x)
      PROVE  UndoOps(ApplyOp(Doc(s, e), o), Reg(Doc(s, e), o)) = Doc(s, e)
  <2>1. Removal(Insertion(s, p, x), p, Len(x)) = s
    BY UndoInsertion
  <2>2. ApplyOp(Doc(s, e), o) = Doc(Insertion(s, p, x), e) /\ Reg(Doc(s, e), o) = <<o>>
    BY <1>1, ApplyIs, RegIs
  <2>3. UndoOp(Doc(Insertion(s, p, x), e), o) = Doc(s, e)
    BY <1>1, <2>1, UndoIs
  <2> QED
    BY ONLY <2>2, <2>3, UndoOne
<1>2. ASSUME NEW p, NEW x \in Seq(Letters), x # <<>>, Shown(Letters, s, p, x), o = RemUnd(p, x)
      PROVE  UndoOps(ApplyOp(Doc(s, e), o), Reg(Doc(s, e), o)) = Doc(s, e)
  <2>1. Insertion(Removal(s, p, Len(x)), p, x) = s
    BY <1>2, UndoRemoval
  <2>2. ApplyOp(Doc(s, e), o) = Doc(Removal(s, p, Len(x)), e) /\ Reg(Doc(s, e), o) = <<o>>
    BY <1>2, ApplyIs, RegIs
  <2>3. UndoOp(Doc(Removal(s, p, Len(x)), e), o) = Doc(s, e)
    BY <1>2, <2>1, UndoIs
  <2> QED
    BY ONLY <2>2, <2>3, UndoOne
<1>3. CASE ~ IsText(o)
  BY <1>3, RightsUndone
<1> QED
  BY <1>1, <1>2, <1>3, RightsOpsAre DEF OpOn

LEMMA OpBytes ==
    ASSUME NEW s, NEW g, NEW o, OpOn(s, g, o)
    PROVE  Bytes(o) \in Nat /\ Bytes(o) >= 2 /\ Bytes(o) > 0
  BY BytesIs, RightsOpsAre DEF OpOn

(* One of the two is on the rights. *)
KeptIfRefused(d, u, n, r) == RightTo(ApplyOp(d, u), n) \/ (r.doc = ApplyOp(d, u) /\ r.cq = <<u>>)

LEMMA MergedRights ==
    ASSUME NEW s \in Seq(Letters), NEW g, NEW u, NEW n, OpOn(s, g, u), OpOn(s, g, n), ~ (IsText(u) /\ IsText(n)),
           NEW d, d = Doc(s, g), NEW r, r = NewOps(ApplyOp(d, u), <<n>>, <<u>>)
    PROVE  /\ Reverts(d, u, r)
           /\ RightTo(ApplyOp(d, u), n) =>
                 r.doc = ApplyOp(ApplyOp(d, u), n) /\ r.doc.str = ApplyOps(ApplyOp(d, n), r.cq).str
           /\ KeptIfRefused(d, u, n, r)
<1>1. PICK t : t = Transform(n, u)
  OBVIOUS
<1>2. t.n = n /\ t.unk = <<u>> /\ t.tail = <<>>
  <2>1. t = Trans(n, <<u>>, <<>>)
    <3>1. ~ (n.op \in {"Insert", "RemUnd"}) \/ ~ (u.op \in {"Insert", "RemUnd"})
      BY DEF IsText
    <3> QED
      BY ONLY <1>1, <3>1 DEF Transform, IsText
  <2> QED
    BY <2>1, TransIs
<1>3. <<>> \o t.unk = t.unk
  BY <1>2, OneMore
<1>4. Bytes(n) \in Nat /\ Bytes(n) >= 2 /\ Bytes(u) \in Nat /\ Bytes(u) > 0
  BY OpBytes
<1>5. PICK e : e = ApplyOp(d, u)
  OBVIOUS
<1>6. /\ \A z, h : ApplyOp(Doc(z, h), u) = Doc(StrOf(z, u), RightsOf(h, u))
      /\ \A z, h : ApplyOp(Doc(z, h), n) = Doc(StrOf(z, n), RightsOf(h, n))
  BY AppliedIs
<1>7. ASSUME ~ RightTo(e, n) PROVE Reverts(d, u, r) /\ r.doc = e /\ r.cq = <<u>>
  <2>1. NewOps(e, <<n>>, <<u>>) = Result(e, <<>>, <<u>>)
    BY <1>1, <1>2, <1>3, <1>4, <1>7, NewRefused
  <2>3. r = Result(e, <<>>, <<u>>)
    BY <1>5, <2>1
  <2>2. r.err = "none" /\ r.doc = e /\ r.data = <<>> /\ r.cq = <<u>>
    BY ONLY <2>3 DEF Result
  <2> QED
    BY <1>5, <2>2, UndoNone DEF Reverts
<1>8. ASSUME RightTo(e, n)
      PROVE  Reverts(d, u, r) /\ r.doc = ApplyOp(e, n) /\ r.doc.str = ApplyOps(ApplyOp(d, n), r.cq).str
  <2>1. NewOps(e, <<n>>, <<u>>) = Result(ApplyOp(e, t.n), Reg(e, t.n), t.unk)
    BY <1>1, <1>2, <1>3, <1>4, <1>8, NewTaken
  <2>2. r = Result(ApplyOp(e, n), Reg(e, n), <<u>>)
    BY <1>2, <1>5, <2>1
  <2>3. r.err = "none" /\ r.doc = ApplyOp(e, n) /\ r.data = Reg(e, n) /\ r.cq = <<u>>
    BY ONLY <2>2 DEF Result
  <2>4. UndoOps(r.doc, r.data) = e
    <3>1. CASE IsText(n)
      <4>1. ~ IsText(u)
        BY <3>1
      <4>2. e = Doc(s, RightsOf(g, u))
        <5>1. StrOf(s, u) = s
          BY <4>1 DEF StrOf, IsText
        <5> QED
          BY <1>5, <1>6, <5>1
      <4> QED
        BY ONLY <2>3, <4>2, RegisteredUndoes, OpOn(s, g, n), s \in Seq(Letters)
    <3>2. CASE ~ IsText(n)
      <4>1. e = Doc(StrOf(s, u), RightsOf(g, u))
        BY <1>5, <1>6
      <4>2. UndoOps(ApplyOp(e, n), Reg(e, n)) = e
        BY <3>2, <4>1, RightsUndone
      <4> QED
        BY ONLY <2>3, <4>2
    <3> QED
      BY <3>1, <3>2
  <2>5. Reverts(d, u, r)
    BY <1>5, <2>3, <2>4 DEF Reverts
  <2>6. ApplyOps(ApplyOp(d, n), r.cq) = ApplyOp(ApplyOp(d, n), u)
    BY <2>3, ApplyOne
  <2>7. StrOf(StrOf(s, u), n) = StrOf(StrOf(s, n), u)
    BY DEF StrOf, IsText
  <2>8. r.doc.str = StrOf(StrOf(s, u), n)
    <3>1. e = Doc(StrOf(s, u), RightsOf(g, u))
      BY ONLY <1>5, <1>6, d = Doc(s, g)
    <3>2. ApplyOp(e, n) = Doc(StrOf(StrOf(s, u), n), RightsOf(RightsOf(g, u), n))
      BY ONLY <1>6, <3>1
    <3> QED
      BY ONLY <2>3, <3>2, DocIs
  <2>9. ApplyOp(ApplyOp(d, n), u).str = StrOf(StrOf(s, n), u)
    <3>1. ApplyOp(d, n) = Doc(StrOf(s, n), RightsOf(g, n))
      BY ONLY <1>6, d = Doc(s, g)
    <3>2. ApplyOp(ApplyOp(d, n), u) = Doc(StrOf(StrOf(s, n), u), RightsOf(RightsOf(g, n), u))
      BY ONLY <1>6, <3>1
    <3> QED
      BY ONLY <3>2, DocIs
  <2> QED
    BY <2>3, <2>5, <2>6, <2>7, <2>8, <2>9
<1> QED
  BY <1>5, <1>7, <1>8 DEF KeptIfRefused

(* Such two operations give the same in either order.                      *)
LEMMA RightsInAnyOrder ==
    ASSUME NEW s, NEW g, NEW u, NEW n, OpOn(s, g, u), OpOn(s, g, n), ~ (IsText(u) /\ IsText(n)),
           NEW d, d = Doc(s, g), ~ IsText(u) /\ ~ IsText(n) /\ u.op # n.op => u.flags \cap n.flags = {}
    PROVE  ApplyOp(ApplyOp(d, u), n) = ApplyOp(ApplyOp(d, n), u)
<1>1. /\ \A z, h : ApplyOp(Doc(z, h), u) = Doc(StrOf(z, u), RightsOf(h, u))
      /\ \A z, h : ApplyOp(Doc(z, h), n) = Doc(StrOf(z, n), RightsOf(h, n))
  BY AppliedIs
<1>2. StrOf(StrOf(s, u), n) = StrOf(StrOf(s, n), u)
  BY DEF StrOf, IsText
<1>3. RightsOf(RightsOf(g, u), n) = RightsOf(RightsOf(g, n), u)
  <2>1. CASE IsText(u) \/ IsText(n)
    BY <2>1 DEF RightsOf, IsText
  <2>2. CASE ~ IsText(u) /\ ~ IsText(n) /\ u.op = n.op
    BY <2>2 DEF RightsOf, Given, Taken
  <2>3. CASE ~ IsText(u) /\ ~ IsText(n) /\ u.op # n.op
    BY <2>3 DEF RightsOf, Given, Taken
  <2> QED
    BY <2>1, <2>2, <2>3
<1> QED
  BY <1>1, <1>2, <1>3

-----------------------------------------------------------------------------
(* What tar registers of what a user tries.                                *)
LEMMA TriedIs ==
    ASSUME NEW s \in Seq(Letters), NEW g, NEW texts, texts \subseteq Seq(Letters), NEW t \in Tries(Doc(s, g), texts),
           RightTo(Doc(s, g), t), NEW k \in DOMAIN Reg(Doc(s, g), t)
    PROVE  OpOn(s, g, Reg(Doc(s, g), t)[k])
<1>1. PICK d : d = Doc(s, g)
  OBVIOUS
<1>2. ASSUME NEW o, Reg(d, t) = <<o>> PROVE Reg(d, t)[k] = o
  <2>1. k \in DOMAIN <<o>>
    BY <1>1, <1>2
  <2> QED
    BY ONLY <1>2, <2>1
<1>3. Reg(d, t) # <<>>
  <2>1. DOMAIN <<>> = {}
    OBVIOUS
  <2> QED
    BY <1>1, <2>1
<1>4. ASSUME NEW p \in 0 .. Len(s), NEW x \in texts, t = Insert(p, x) PROVE OpOn(s, g, Reg(d, t)[k])
  <2>1. x \in Seq(Letters)
    OBVIOUS
  <2>2. x # <<>>
    <3>1. x = <<>> => Reg(d, Insert(p, x)) = <<>>
      BY ONLY OpsAre DEF Reg
    <3> QED
      BY <1>3, <1>4, <3>1
  <2>3. Reg(d, t)[k] = t
    BY <1>2, <1>4, <2>2, RegIs
  <2> QED
    BY <1>4, <2>1, <2>2, <2>3 DEF OpOn
<1>5. ASSUME NEW p \in 0 .. Len(s), NEW q \in 0 .. Len(s), t = RemUnd(p, SubSeq(s, p + 1, q))
      PROVE OpOn(s, g, Reg(d, t)[k])
  <2>1. PICK x : x = SubSeq(s, p + 1, q)
    OBVIOUS
  <2>2. t = RemUnd(p, x)
    BY <1>5, <2>1
  <2>3. x # <<>>
    <3>1. x = <<>> => Reg(d, RemUnd(p, x)) = <<>>
      BY ONLY OpsAre DEF Reg
    <3> QED
      BY <1>3, <2>2, <3>1
  <2>4. p <= q
    <3>1. p \in Nat /\ q \in Nat
      BY LenProperties
    <3>2. ASSUME ~ (p <= q) PROVE FALSE
      <4>1. q < p + 1 /\ p + 1 \in Int /\ q \in Int
        BY <3>1, <3>2
      <4> QED
        BY <2>1, <2>3, <4>1, SubSeqEmpty
    <3> QED
      BY <3>2
  <2>5. PICK c : c = p + 1
    OBVIOUS
  <2>6. x \in Seq(Letters) /\ Shown(Letters, s, p, x)
    <3>1. x = SubSeq(s, c, q)
      BY <2>1, <2>5
    <3> QED
      BY <2>4, <2>5, <3>1, PartIsShown
  <2>7. Reg(d, t)[k] = t
    BY <1>2, <2>2, <2>3, RegIs
  <2> QED
    BY <2>2, <2>3, <2>6, <2>7 DEF OpOn
<1>6. ASSUME NEW f, t = AddUsrRight(f) PROVE OpOn(s, g, Reg(d, t)[k])
  <2>1. Reg(d, t) = <<AddUsrRight(Taken(f, g))>>
    BY <1>1, <1>3, <1>6, RegRightsIs
  <2>2. RightTo(d, AddUsrRight(Taken(f, g)))
    <3>1. RightTo(d, AddUsrRight(f))
      BY <1>1, <1>6
    <3> QED
      BY ONLY <3>1, RightsOpsAre DEF RightTo
  <2>3. Reg(d, t)[k] = AddUsrRight(Taken(f, g))
    BY <1>2, <2>1
  <2> QED
    BY <1>1, <2>2, <2>3 DEF OpOn
<1>7. ASSUME NEW f, t = RemUsrRight(f) PROVE OpOn(s, g, Reg(d, t)[k])
  <2>1. Reg(d, t) = <<RemUsrRight(Common(f, g))>>
    BY <1>1, <1>3, <1>7, RegRightsIs
  <2>2. RightTo(d, RemUsrRight(Common(f, g)))
    <3>1. RightTo(d, RemUsrRight(f))
      BY <1>1, <1>7
    <3> QED
      BY ONLY <3>1, RightsOpsAre DEF RightTo
  <2>3. Reg(d, t)[k] = RemUsrRight(Common(f, g))
    BY <1>2, <2>1
  <2> QED
    BY <1>1, <2>2, <2>3 DEF OpOn
<1>8. \/ \E p \in 0 .. Len(s), x \in texts : t = Insert(p, x)
      \/ \E p \in 0 .. Len(s), q \in 0 .. Len(s) : t = RemUnd(p, SubSeq(s, p + 1, q))
      \/ \E f : t = AddUsrRight(f)
      \/ \E f : t = RemUsrRight(f)
  BY DocIs DEF Tries
<1> QED
  BY <1>1, <1>4, <1>5, <1>6, <1>7, <1>8

LEMMA OpsOnAre ==
    ASSUME NEW s \in Seq(Letters), NEW g, NEW texts, texts \subseteq Seq(Letters), NEW o \in OpsOn(Doc(s, g), texts)
    PROVE  OpOn(s, g, o)
<1>1. PICK t \in Tries(Doc(s, g), texts) :
         RightTo(Doc(s, g), t) /\ \E k \in DOMAIN Reg(Doc(s, g), t) : o = Reg(Doc(s, g), t)[k]
  BY DEF OpsOn
<1> QED
  BY <1>1, TriedIs

(* The inductive invariant: two operations made on the document, or none.  *)
PairsInv ==
    /\ text \in Documents
    /\ \/ mine = <<>> /\ theirs = <<>>
       \/ \E m \in OpsOn(text, MyTexts), t \in OpsOn(text, TheirTexts) : mine = <<m>> /\ theirs = <<t>>

LEMMA PairsStart == PairsInit => PairsInv
  BY DEF PairsInit, PairsInv

LEMMA PairsStep == PairsInv /\ [ChoosePair]_pairVars => PairsInv'
  BY DEF PairsInv, ChoosePair, pairVars

LEMMA WhatOpIs ==
    ASSUME NEW s, NEW g, NEW o, OpOn(s, g, o)
    PROVE  /\ o.op = "Insert" => \E p \in 0 .. Len(s), x \in Seq(Letters) : x # <<>> /\ o = Insert(p, x)
           /\ o.op = "RemUnd" =>
                 \E p, x : x \in Seq(Letters) /\ x # <<>> /\ Shown(Letters, s, p, x) /\ o = RemUnd(p, x)
           /\ IsText(o) <=> o.op = "Insert" \/ o.op = "RemUnd"
  BY OpsAre, RightsOpsAre DEF OpOn, IsText

(* Two operations m and t made on the text s with the rights g, r what is  *)
(* merged of t after m, and back what is merged of m after t.              *)
Merging(s, g, m, t, d, r, back) ==
    /\ s \in Seq(Letters) /\ OpOn(s, g, m) /\ OpOn(s, g, t) /\ d = Doc(s, g)
    /\ r = NewOps(ApplyOp(d, m), <<t>>, <<m>>) /\ back = NewOps(ApplyOp(d, t), <<m>>, <<t>>)

LEMMA InsertionsMerge ==
    ASSUME NEW s, NEW g, NEW m, NEW t, NEW d, NEW r, NEW back, Merging(s, g, m, t, d, r, back),
           m.op = "Insert", t.op = "Insert"
    PROVE  Fits(d, m, t, r) /\ Reverts(d, m, r) /\ (m.pos # t.pos => r.doc = back.doc)
<1>0. /\ s \in Seq(Letters) /\ OpOn(s, g, m) /\ OpOn(s, g, t) /\ d = Doc(s, g)
      /\ r = NewOps(ApplyOp(d, m), <<t>>, <<m>>) /\ back = NewOps(ApplyOp(d, t), <<m>>, <<t>>)
  BY DEF Merging
<1>1. PICK p \in 0 .. Len(s), x \in Seq(Letters) : x # <<>> /\ m = Insert(p, x)
  BY <1>0, WhatOpIs
<1>2. PICK q \in 0 .. Len(s), y \in Seq(Letters) : y # <<>> /\ t = Insert(q, y)
  BY <1>0, WhatOpIs
<1>3. RightTo(d, m) /\ RightTo(d, t)
  BY <1>0 DEF OpOn
<1>4. /\ Fits(d, m, t, r) /\ Reverts(d, m, r)
      /\ p > q => r.doc = Doc(Insertion(Insertion(s, p, x), q, y), g)
      /\ p <= q => r.doc = Doc(Insertion(Insertion(s, q, y), p, x), g)
  BY <1>0, <1>1, <1>2, <1>3, TwoInsertions
<1>5. /\ q > p => back.doc = Doc(Insertion(Insertion(s, q, y), p, x), g)
      /\ q <= p => back.doc = Doc(Insertion(Insertion(s, p, x), q, y), g)
  BY <1>0, <1>1, <1>2, <1>3, TwoInsertions
<1>6. m.pos = p /\ t.pos = q
  BY <1>1, <1>2, OpsAre
<1>7. p \in Nat /\ q \in Nat
  BY <1>0, LenProperties
<1>8. p # q => (p > q /\ q <= p) \/ (p <= q /\ q > p)
  BY ONLY <1>7
<1> QED
  BY ONLY <1>4, <1>5, <1>6, <1>8

LEMMA RemovalMerges ==
    ASSUME NEW s, NEW g, NEW m, NEW t, NEW d, NEW r, NEW back, Merging(s, g, m, t, d, r, back),
           m.op = "RemUnd", t.op = "Insert"
    PROVE  /\ Reverts(d, m, r) /\ (Inside(t, m) \/ Fits(d, m, t, r))
           /\ Reverts(d, t, back) /\ (Inside(t, m) \/ Fits(d, t, m, back))
           /\ r.doc = back.doc
<1>0. /\ s \in Seq(Letters) /\ OpOn(s, g, m) /\ OpOn(s, g, t) /\ d = Doc(s, g)
      /\ r = NewOps(ApplyOp(d, m), <<t>>, <<m>>) /\ back = NewOps(ApplyOp(d, t), <<m>>, <<t>>)
  BY DEF Merging
<1>1. PICK p, x : x \in Seq(Letters) /\ x # <<>> /\ Shown(Letters, s, p, x) /\ m = RemUnd(p, x)
  BY <1>0, WhatOpIs
<1>2. PICK q \in 0 .. Len(s), y \in Seq(Letters) : y # <<>> /\ t = Insert(q, y)
  BY <1>0, WhatOpIs
<1>3. RightTo(d, m) /\ RightTo(d, t)
  BY <1>0 DEF OpOn
<1>4. /\ Reverts(d, m, r)
      /\ ~ (p < q /\ q < p + Len(x)) => Fits(d, m, t, r)
      /\ r.doc = Doc(Insertion(Removal(s, p, Len(x)), Place(p, x, q), y), g)
  BY <1>0, <1>1, <1>2, <1>3, InsertionAfterRemoval
<1>5. /\ Reverts(d, t, back)
      /\ ~ (p < q /\ q < p + Len(x)) => Fits(d, t, m, back)
      /\ back.doc = Doc(Insertion(Removal(s, p, Len(x)), Place(p, x, q), y), g)
  BY <1>0, <1>1, <1>2, <1>3, RemovalAfterInsertion
<1>6. Inside(t, m) <=> p < q /\ q < p + Len(x)
  BY <1>1, <1>2, OpsAre DEF Inside
<1> QED
  BY ONLY <1>4, <1>5, <1>6

LEMMA RemovalsMerge ==
    ASSUME NEW s, NEW g, NEW m, NEW t, NEW d, NEW r, NEW back, Merging(s, g, m, t, d, r, back),
           m.op = "RemUnd", t.op = "RemUnd"
    PROVE  /\ Apart(m, t) \/ m.pos > t.pos => Fits(d, m, t, r) /\ Reverts(d, m, r)
           /\ Apart(m, t) => r.doc = back.doc
<1>0. /\ s \in Seq(Letters) /\ OpOn(s, g, m) /\ OpOn(s, g, t) /\ d = Doc(s, g)
      /\ r = NewOps(ApplyOp(d, m), <<t>>, <<m>>) /\ back = NewOps(ApplyOp(d, t), <<m>>, <<t>>)
  BY DEF Merging
<1>1. PICK q, y : y \in Seq(Letters) /\ y # <<>> /\ Shown(Letters, s, q, y) /\ m = RemUnd(q, y)
  BY <1>0, WhatOpIs
<1>2. PICK p, x : x \in Seq(Letters) /\ x # <<>> /\ Shown(Letters, s, p, x) /\ t = RemUnd(p, x)
  BY <1>0, WhatOpIs
<1>3. RightTo(d, m) /\ RightTo(d, t)
  BY <1>0 DEF OpOn
<1>4. p \in Nat /\ q \in Nat
  <2>1. p \in Nat
    BY <1>2, RemovalLen
  <2>2. q \in Nat
    BY <1>1, RemovalLen
  <2> QED
    BY <2>1, <2>2
<1>5. Len(x) \in Nat /\ Len(x) > 0 /\ Len(y) \in Nat /\ Len(y) > 0
  BY <1>1, <1>2, EmptySeq, LenProperties
<1>6. q + Len(y) <= p \/ q > p =>
         /\ Fits(d, m, t, r) /\ Reverts(d, m, r)
         /\ q + Len(y) <= p => r.doc = Doc(Removal(Removal(s, p, Len(x)), q, Len(y)), g)
         /\ p + Len(x) <= q => r.doc = Doc(Removal(Removal(s, q, Len(y)), p, Len(x)), g)
  BY <1>0, <1>1, <1>2, <1>3, RemovalAfterOther
<1>7. p + Len(x) <= q \/ p > q =>
         /\ p + Len(x) <= q => back.doc = Doc(Removal(Removal(s, q, Len(y)), p, Len(x)), g)
         /\ q + Len(y) <= p => back.doc = Doc(Removal(Removal(s, p, Len(x)), q, Len(y)), g)
  BY <1>0, <1>1, <1>2, <1>3, RemovalAfterOther
<1>8. /\ Apart(m, t) <=> q + Len(y) <= p \/ p + Len(x) <= q
      /\ m.pos > t.pos <=> q > p
  BY <1>1, <1>2, OpsAre DEF Apart, Past
<1>9. (q + Len(y) <= p => p > q) /\ (p + Len(x) <= q => q > p)
  BY ONLY <1>4, <1>5
<1> QED
  BY ONLY <1>6, <1>7, <1>8, <1>9

(* Every pair of operations is merged rightly.                             *)
LEMMA AnyPairMerges ==
    ASSUME PairsInv, mine # <<>>
    PROVE  PairsMerge
<1>1. PICK m \in OpsOn(text, MyTexts), t \in OpsOn(text, TheirTexts) : mine = <<m>> /\ theirs = <<t>>
  BY DEF PairsInv
<1>2. PICK s, g : s \in Seq(Letters) /\ text = Doc(s, g)
  <2>1. text \in [str : Seq(Letters), rights : SUBSET AllRights]
    BY PairsAssumption DEF PairsInv
  <2>2. text = Doc(text.str, text.rights) /\ text.str \in Seq(Letters)
    BY <2>1 DEF Doc
  <2> QED
    BY <2>2
<1>3. OpOn(s, g, m) /\ OpOn(s, g, t)
  BY <1>1, <1>2, OpsOnAre, PairsAssumption
<1>4. mine[1] = m /\ theirs[1] = t
  BY <1>1
<1>5. ApplyOps(text, mine) = ApplyOp(text, m) /\ ApplyOps(text, theirs) = ApplyOp(text, t)
  BY <1>1, ApplyOne
<1>6. PICK d, r, back : d = Doc(s, g) /\ r = Here /\ back = There
  OBVIOUS
<1>7. r = NewOps(ApplyOp(d, m), <<t>>, <<m>>) /\ back = NewOps(ApplyOp(d, t), <<m>>, <<t>>)
  BY <1>1, <1>2, <1>5, <1>6 DEF Here, There
<1>8. (CqFits(r) <=> Fits(d, m, t, r)) /\ (Undoes(r) <=> Reverts(d, m, r))
  BY <1>2, <1>5, <1>6 DEF CqFits, Undoes, Fits, Reverts
<1>9. \A a, b : Pair(a, b) <=> m.op = a /\ t.op = b
  BY <1>4 DEF Pair
<1>17. Merging(s, g, m, t, d, r, back) /\ Merging(s, g, t, m, d, back, r)
  BY <1>2, <1>3, <1>6, <1>7 DEF Merging
<1>10. InsertAfterInsert(r)
  <2>1. ASSUME m.op = "Insert", t.op = "Insert" PROVE Fits(d, m, t, r) /\ Reverts(d, m, r)
    BY ONLY <1>17, <2>1, InsertionsMerge
  <2> QED
    BY ONLY <1>8, <1>9, <2>1 DEF InsertAfterInsert
<1>11. InsertAfterRemoval(r)
  <2>1. ASSUME m.op = "RemUnd", t.op = "Insert" PROVE Reverts(d, m, r) /\ (Inside(t, m) \/ Fits(d, m, t, r))
    BY ONLY <1>17, <2>1, RemovalMerges
  <2> QED
    BY ONLY <1>4, <1>8, <1>9, <2>1 DEF InsertAfterRemoval
<1>12. RemovalAfterInsert(r)
  <2>1. ASSUME m.op = "Insert", t.op = "RemUnd" PROVE Reverts(d, m, r) /\ (Inside(m, t) \/ Fits(d, m, t, r))
    BY ONLY <1>17, <2>1, RemovalMerges
  <2> QED
    BY ONLY <1>4, <1>8, <1>9, <2>1 DEF RemovalAfterInsert
<1>13. RemovalAfterRemoval(r)
  <2>1. ASSUME m.op = "RemUnd", t.op = "RemUnd", Apart(m, t) \/ m.pos > t.pos
        PROVE  Fits(d, m, t, r) /\ Reverts(d, m, r)
    BY ONLY <1>17, <2>1, RemovalsMerge
  <2> QED
    BY ONLY <1>4, <1>8, <1>9, <2>1 DEF RemovalAfterRemoval
<1>14. ASSUME ~ (IsText(m) /\ IsText(t))
       PROVE  /\ Reverts(d, m, r)
              /\ RightTo(ApplyOp(d, m), t) =>
                    r.doc = ApplyOp(ApplyOp(d, m), t) /\ r.doc.str = ApplyOps(ApplyOp(d, t), r.cq).str
              /\ ~ RightTo(ApplyOp(d, m), t) => r.doc = ApplyOp(d, m) /\ r.cq = <<m>>
              /\ RightTo(ApplyOp(d, t), m) => back.doc = ApplyOp(ApplyOp(d, t), m)
  <2>1. ~ (IsText(t) /\ IsText(m))
    BY <1>14
  <2>2. /\ Reverts(d, m, r)
        /\ RightTo(ApplyOp(d, m), t) =>
              r.doc = ApplyOp(ApplyOp(d, m), t) /\ r.doc.str = ApplyOps(ApplyOp(d, t), r.cq).str
        /\ ~ RightTo(ApplyOp(d, m), t) => r.doc = ApplyOp(d, m) /\ r.cq = <<m>>
    <3>1. /\ s \in Seq(Letters) /\ OpOn(s, g, m) /\ OpOn(s, g, t) /\ d = Doc(s, g)
          /\ r = NewOps(ApplyOp(d, m), <<t>>, <<m>>)
      BY ONLY <1>17 DEF Merging
    <3>2. Reverts(d, m, r)
      BY ONLY <1>14, <3>1, MergedRights
    <3>3. RightTo(ApplyOp(d, m), t) =>
             r.doc = ApplyOp(ApplyOp(d, m), t) /\ r.doc.str = ApplyOps(ApplyOp(d, t), r.cq).str
      BY ONLY <1>14, <3>1, MergedRights
    <3>4. ~ RightTo(ApplyOp(d, m), t) => r.doc = ApplyOp(d, m) /\ r.cq = <<m>>
      <4>1. KeptIfRefused(d, m, t, r)
        BY ONLY <1>14, <3>1, MergedRights
      <4> QED
        BY ONLY <4>1 DEF KeptIfRefused
    <3> QED
      BY <3>2, <3>3, <3>4
  <2>3. RightTo(ApplyOp(d, t), m) => back.doc = ApplyOp(ApplyOp(d, t), m)
    BY ONLY <1>17, <2>1, MergedRights DEF Merging
  <2> QED
    BY ONLY <2>2, <2>3
<1>15. OnRights(r)
  BY <1>1, <1>2, <1>4, <1>5, <1>6, <1>8, <1>14 DEF OnRights
<1>16. OrderIndependent(r)
  <2>1. CASE IsText(m) /\ IsText(t)
    <3>1. SUFFICES ASSUME TextsApart(m, t) PROVE r.doc = back.doc
      BY <1>4, <1>6, <2>1 DEF OrderIndependent
    <3>2. CASE m.op = "Insert" /\ t.op = "Insert"
      <4>1. m.pos # t.pos
        BY <3>1, <3>2 DEF TextsApart
      <4> QED
        BY ONLY <1>17, <3>2, <4>1, InsertionsMerge
    <3>3. CASE m.op = "RemUnd" /\ t.op = "Insert"
      BY ONLY <1>17, <3>3, RemovalMerges
    <3>4. CASE m.op = "Insert" /\ t.op = "RemUnd"
      BY ONLY <1>17, <3>4, RemovalMerges
    <3>5. CASE m.op = "RemUnd" /\ t.op = "RemUnd"
      <4>1. Apart(m, t)
        BY <3>1, <3>5 DEF TextsApart
      <4> QED
        BY ONLY <1>17, <3>5, <4>1, RemovalsMerge
    <3> QED
      BY <2>1, <3>2, <3>3, <3>4, <3>5 DEF IsText
  <2>2. CASE ~ (IsText(m) /\ IsText(t))
    <3>1. SUFFICES ASSUME RightsApart(m, t) PROVE r.doc = back.doc
      BY <1>4, <1>6, <2>2 DEF OrderIndependent
    <3>2. /\ RightTo(ApplyOp(d, m), t) /\ RightTo(ApplyOp(d, t), m)
          /\ ~ IsText(m) /\ ~ IsText(t) /\ m.op # t.op => m.flags \cap t.flags = {}
      BY <1>2, <1>6, <3>1 DEF RightsApart
    <3>3. ApplyOp(ApplyOp(d, m), t) = ApplyOp(ApplyOp(d, t), m)
      BY <1>3, <1>6, <2>2, <3>2, RightsInAnyOrder
    <3> QED
      BY ONLY <1>14, <2>2, <3>2, <3>3
  <2> QED
    BY <2>1, <2>2
<1> QED
  BY <1>6, <1>10, <1>11, <1>12, <1>13, <1>15, <1>16 DEF PairsMerge

(* Any two concurrent operations, of any length, on any string and with    *)
(* any rights are merged rightly: what is rewritten gives the same string, *)
(* what is registered undoes what was applied, and the order of the two    *)
(* does not matter unless they touch the same text or rights               *)
(* (OtMerger.ts:58, OtWrapperStringOperations.ts:132-302).                 *)
THEOREM PairsAreMerged == PairsSpec => []PairsMerge
<1>1. PairsInv => PairsMerge
  <2>1. ASSUME mine = <<>> PROVE PairsMerge
    BY <2>1 DEF PairsMerge
  <2> QED
    BY <2>1, AnyPairMerges
<1> QED
  BY <1>1, PairsStart, PairsStep, PTL DEF PairsSpec

=============================================================================
