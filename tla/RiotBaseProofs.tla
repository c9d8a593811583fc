--------------------------- MODULE RiotBaseProofs ---------------------------
(***************************************************************************)
(* Theorems about components of RiotBase, each for every value of its      *)
(* constants: the interval sets, the sockets of datagrams, the resolver,   *)
(* the connections between TypeScript clients, the mail.                   *)
(*                                                                         *)
(* The recursive functions of these modules run over 0..n. Iterates gives  *)
(* a function that satisfies the equation, UpTo what holds of its values.  *)
(***************************************************************************)
EXTENDS IntervalSet, Dns, RbPeers, Smtp, WellFoundedInduction, FiniteSetTheorems, TLAPS

-----------------------------------------------------------------------------
(* Induction and recursion over 0..n.                                      *)

\* What holds at 0 and goes on holding holds up to n.
LEMMA UpTo ==
    ASSUME NEW n \in Nat, NEW S, 0 \in S, \A i \in 1..n : i - 1 \in S => i \in S
    PROVE  0..n \subseteq S
<1> SUFFICES ASSUME ~(0..n \subseteq S) PROVE FALSE
  OBVIOUS
<1> DEFINE T == (0..n) \ S
<1>1. T \subseteq Nat /\ T # {}
  OBVIOUS
<1>2. PICK x \in T : \A y \in T : ~ (<<y, x>> \in OpToRel(<, Nat))
  BY <1>1, NatLessThanWellFounded, WFMin
<1>3. x \in 1..n
  OBVIOUS
<1>4. x - 1 \in Nat /\ x \in Nat /\ x - 1 < x /\ x - 1 \in 0..n
  BY <1>3
<1>5. <<x - 1, x>> \in OpToRel(<, Nat)
  BY <1>4 DEF OpToRel
<1>6. x - 1 \in S
  BY <1>2, <1>4, <1>5
<1>7. x \in S
  BY <1>3, <1>6
<1> QED
  BY <1>7

\* A step from each place to the next one makes a function.
Moves(n, T) == [1..n -> [T -> T]]
Run(n, T, b, s, g) == g \in [0..n -> T] /\ g[0] = b /\ \A i \in 1..n : g[i] = s[i][g[i-1]]
LEMMA Iterates ==
    ASSUME NEW n \in Nat, NEW T, NEW b \in T, NEW s \in Moves(n, T)
    PROVE  \E g : Run(n, T, b, s, g)
<1>0. s \in [1..n -> [T -> T]]
  BY DEF Moves
<1> DEFINE P(m, g) == g \in [0..m -> T] /\ g[0] = b /\ \A i \in 1..m : g[i] = s[i][g[i-1]]
           S == {m \in 0..n : \E g : P(m, g)}
<1>1. 0 \in S
  <2>1. P(0, [i \in 0..0 |-> b])
    OBVIOUS
  <2> HIDE DEF P
  <2>2. \E g : P(0, g)
    BY <2>1
  <2> QED
    BY <2>2
<1>2. ASSUME NEW i \in 1..n, i - 1 \in S PROVE i \in S
  <2>1. PICK g : P(i-1, g)
    <3>1. \E g : P(i-1, g)
      <4> HIDE DEF P
      <4> QED
        BY <1>2
    <3> QED
      BY <3>1
  <2>2. PICK h : h = [k \in 0..i |-> IF k = i THEN s[i][g[i-1]] ELSE g[k]]
    OBVIOUS
  <2>3. g[i-1] \in T /\ s[i][g[i-1]] \in T
    BY <2>1, <1>0
  <2>4. h \in [0..i -> T]
    BY <2>1, <2>2, <2>3
  <2>5. P(i, h)
    BY <2>1, <2>2, <2>4
  <2> HIDE DEF P
  <2> QED
    BY <2>5
<1> HIDE DEF S
<1>3. 0..n \subseteq S
  BY <1>1, <1>2, UpTo
<1>4. \E g : P(n, g)
  <2> HIDE DEF P
  <2>1. n \in 0..n
    OBVIOUS
  <2> QED
    BY <1>3, <2>1 DEF S
<1> QED
  BY <1>4 DEF Run

-----------------------------------------------------------------------------
(* IntervalSet: the intervals never touch, and they are the sets of        *)
(* PatchSets.tla, for all numbers, devices and sets.                       *)

Intervals == [min : Numbers, max : Numbers]
Bounded(D) == \E b \in Nat : \A i \in D : i.max <= b
Good(D) == D \in SUBSET Intervals /\ Apart(D) /\ Bounded(D)
Has(D, n) == \E i \in D : i.min <= n /\ n <= i.max

\* The bounds of an interval are numbers, which are naturals.
LEMMA Ends == ASSUME NEW D, Good(D), NEW i \in D
              PROVE  i.min \in Numbers /\ i.max \in Numbers /\ i.min \in Nat /\ i.max \in Nat /\ i.min <= i.max
BY NumbersAssumption DEF Good, Intervals, Apart

LEMMA NumberIsNat == ASSUME NEW n \in Numbers PROVE n \in Nat
BY NumbersAssumption

\* Two intervals are the same or do not touch.
LEMMA Separate == ASSUME NEW D, Good(D), NEW i \in D, NEW j \in D
                  PROVE  i = j \/ i.max + 1 < j.min \/ j.max + 1 < i.min
BY DEF Good, Apart

\* Some intervals of a set have a first one and, below a bound, a last one.
LEMMA FirstExists == ASSUME NEW S, S # {}, \A i \in S : i.min \in Nat
                     PROVE  \E i \in S : \A j \in S : i.min <= j.min
<1> DEFINE T == {i.min : i \in S}
<1>1. T \subseteq Nat /\ T # {}
  OBVIOUS
<1>2. PICK x \in T : \A y \in T : ~ (<<y, x>> \in OpToRel(<, Nat))
  BY <1>1, NatLessThanWellFounded, WFMin
<1>3. PICK i \in S : i.min = x
  OBVIOUS
<1>4. ASSUME NEW j \in S PROVE i.min <= j.min
  <2>1. j.min \in T /\ j.min \in Nat /\ i.min \in Nat
    OBVIOUS
  <2>2. ~ (<<j.min, x>> \in OpToRel(<, Nat))
    BY <1>2, <2>1
  <2>3. ~(j.min < i.min)
    BY <2>1, <2>2, <1>3 DEF OpToRel
  <2> QED
    BY <2>1, <2>3
<1> QED
  BY <1>4

LEMMA LastExists == ASSUME NEW S, S # {}, \A i \in S : i.min \in Nat, NEW b \in Nat, \A i \in S : i.min <= b
                    PROVE  \E i \in S : \A j \in S : j.min <= i.min
<1> DEFINE T == {n \in Nat : \A i \in S : i.min <= n}
<1>1. T \subseteq Nat /\ T # {}
  OBVIOUS
<1>2. PICK x \in T : \A y \in T : ~ (<<y, x>> \in OpToRel(<, Nat))
  BY <1>1, NatLessThanWellFounded, WFMin
<1>3. SUFFICES ASSUME \A i \in S : i.min # x PROVE FALSE
  OBVIOUS
<1>4. x # 0
  BY <1>3
<1>5. x - 1 \in T
  BY <1>3, <1>4
<1>6. <<x - 1, x>> \in OpToRel(<, Nat)
  BY <1>4 DEF OpToRel
<1> QED
  BY <1>2, <1>5, <1>6

\* upper_bound and the interval before it.
LEMMA BelowIs ==
    ASSUME NEW D, Good(D), NEW v \in Nat
    PROVE  /\ \A i, j \in Below(D, v) : i = j
           /\ Below(D, v) = {} => \A i \in D : v < i.min
           /\ Below(D, v) # {} => /\ The(Below(D, v)) \in Below(D, v)
                                  /\ Below(D, v) = {The(Below(D, v))}
<1>1. ASSUME NEW i \in Below(D, v), NEW j \in Below(D, v) PROVE i = j
  <2>1. i \in D /\ j \in D /\ i.min <= j.min /\ j.min <= i.min
    BY DEF Below
  <2> QED
    BY <2>1, Ends, Separate
<1>2. ASSUME Below(D, v) = {}, NEW i \in D, ~(v < i.min) PROVE FALSE
  <2> DEFINE S == {j \in D : j.min <= v}
  <2>1. i \in S
    BY <1>2, Ends
  <2>2. \A j \in S : j.min \in Nat
    BY Ends
  <2> HIDE DEF S
  <2>3. \A j \in S : j.min <= v
    BY DEF S
  <2>4. PICK j \in S : \A k \in S : k.min <= j.min
    BY <2>1, <2>2, <2>3, LastExists
  <2>5. j \in Below(D, v)
    BY <2>4 DEF S, Below
  <2> QED
    BY <1>2, <2>5
<1>3. ASSUME Below(D, v) # {} PROVE The(Below(D, v)) \in Below(D, v)
  BY <1>3 DEF The
<1> QED
  BY <1>1, <1>2, <1>3

LEMMA AboveIs ==
    ASSUME NEW D, Good(D), NEW v \in Nat
    PROVE  /\ \A i, j \in Above(D, v) : i = j
           /\ Above(D, v) = {} => \A i \in D : i.min <= v
           /\ Above(D, v) # {} => /\ The(Above(D, v)) \in Above(D, v)
                                  /\ Above(D, v) = {The(Above(D, v))}
<1>1. ASSUME NEW i \in Above(D, v), NEW j \in Above(D, v) PROVE i = j
  <2>1. i \in D /\ j \in D /\ i.min <= j.min /\ j.min <= i.min
    BY DEF Above
  <2> QED
    BY <2>1, Ends, Separate
<1>2. ASSUME Above(D, v) = {}, NEW i \in D, ~(i.min <= v) PROVE FALSE
  <2> DEFINE S == {j \in D : j.min > v}
  <2>1. i \in S
    BY <1>2, Ends
  <2>2. \A j \in S : j.min \in Nat
    BY Ends
  <2> HIDE DEF S
  <2>4. PICK j \in S : \A k \in S : j.min <= k.min
    BY <2>1, <2>2, FirstExists
  <2>5. j \in Above(D, v)
    BY <2>4 DEF S, Above
  <2> QED
    BY <1>2, <2>5
<1>3. ASSUME Above(D, v) # {} PROVE The(Above(D, v)) \in Above(D, v)
  BY <1>3 DEF The
<1> QED
  BY <1>1, <1>2, <1>3

LEMMA IntervalIs == ASSUME NEW lo \in Numbers, NEW hi \in Numbers
                    PROVE  Interval(lo, hi) \in Intervals /\ Interval(lo, hi).min = lo /\ Interval(lo, hi).max = hi
BY DEF Interval, Intervals

\* What InsertRange makes when b is the first interval that the range reaches.
Reach(D, b, hi) == {b} \cup {i \in D : i.min > b.min /\ i.min <= hi + 1}
Joined(D, b, m, hi) == (D \ Reach(D, b, hi)) \cup {Interval(m, Largest(LastOf(Reach(D, b, hi)).max, hi))}

\* Where a range comes together with the intervals it reaches, of which b is
\* the first: m is the new bound on the left.
LEMMA MergeInto ==
    ASSUME NEW D, Good(D), NEW lo \in Numbers, NEW hi \in Numbers, lo <= hi,
           NEW b \in D, NEW m \in Numbers, m <= b.min, m <= lo, b.min <= hi + 1,
           \A n \in Nat : m <= n /\ n < lo => b.min <= n /\ n <= b.max,
           \A j \in D : j.min < b.min => j.max + 1 < m
    PROVE  /\ Good(Joined(D, b, m, hi))
           /\ \A n \in Nat : Has(Joined(D, b, m, hi), n) <=> Has(D, n) \/ (lo <= n /\ n <= hi)
<1>a. PICK reached : reached = {b} \cup {i \in D : i.min > b.min /\ i.min <= hi + 1} /\ reached = Reach(D, b, hi)
  BY DEF Reach
<1>b. PICK R : R = (D \ reached) \cup {Interval(m, Largest(LastOf(reached).max, hi))} /\ R = Joined(D, b, m, hi)
  BY <1>a DEF Joined
<1>1. lo \in Nat /\ hi \in Nat /\ m \in Nat /\ b.min \in Nat /\ b.max \in Nat /\ b.min <= b.max
  BY NumberIsNat, Ends
<1>2. \A i \in reached : i \in D /\ i.min \in Nat /\ i.min <= hi + 1 /\ b.min <= i.min
  BY <1>1, <1>a, Ends
<1>3. PICK l \in reached : l = LastOf(reached) /\ \A j \in reached : j.min <= l.min
  <2>1. reached # {} /\ hi + 1 \in Nat
    BY <1>1, <1>a
  <2>2. \E i \in reached : \A j \in reached : j.min <= i.min
    BY <1>2, <2>1, LastExists
  <2> QED
    BY <2>2 DEF LastOf
<1>4. l \in D /\ l.min \in Nat /\ l.max \in Nat /\ l.max \in Numbers /\ l.min <= l.max /\ l.min <= hi + 1 /\ b.min <= l.min
  BY <1>2, Ends
<1>5. PICK M \in Numbers : M = Largest(l.max, hi) /\ M >= hi /\ M >= l.max /\ (M = hi \/ M = l.max)
  BY <1>1, <1>4 DEF Largest
<1>6. M \in Nat
  BY NumberIsNat
<1>7. PICK new \in Intervals : new = Interval(m, M) /\ new.min = m /\ new.max = M
  BY IntervalIs
<1>8. R = (D \ reached) \cup {new}
  BY <1>3, <1>5, <1>7, <1>b
<1>9. \A j \in reached : j.max <= M
  <2> SUFFICES ASSUME NEW j \in reached PROVE j.max <= M
    OBVIOUS
  <2>1. j \in D /\ j.min <= l.min /\ j.max \in Nat /\ j.min \in Nat
    BY <1>2, <1>3, Ends
  <2>2. j = l \/ j.max + 1 < l.min \/ l.max + 1 < j.min
    BY <2>1, <1>4, Separate
  <2> QED
    BY <2>1, <2>2, <1>4, <1>5, <1>6
<1>10. \A j \in D \ reached : j.min \in Nat /\ j.max \in Nat /\ (j.max + 1 < m \/ M + 1 < j.min)
  <2> SUFFICES ASSUME NEW j \in D, j \notin reached
               PROVE  j.min \in Nat /\ j.max \in Nat /\ (j.max + 1 < m \/ M + 1 < j.min)
    OBVIOUS
  <2>1. j.min \in Nat /\ j.max \in Nat /\ j.min <= j.max
    BY Ends
  <2>2. CASE j.min < b.min
    BY <2>1, <2>2
  <2>3. CASE j.min > b.min
    <3>1. j.min > hi + 1
      BY <2>1, <2>3, <1>1, <1>a
    <3>2. l = j \/ l.max + 1 < j.min \/ j.max + 1 < l.min
      BY <1>4, Separate
    <3>3. l.max + 1 < j.min
      BY <3>1, <3>2, <2>1, <1>4, <1>1
    <3> QED
      BY <3>1, <3>3, <2>1, <1>5, <1>1, <1>4
  <2>4. CASE j.min = b.min
    <3>1. j = b
      BY <2>4, <2>1, <1>1, Separate
    <3> QED
      BY <3>1, <1>a
  <2> QED
    BY <2>1, <2>2, <2>3, <2>4, <1>1
<1>11. Apart(R)
  <2> SUFFICES ASSUME NEW i \in R, NEW j \in R
               PROVE  i.min <= i.max /\ (i # j => i.max + 1 < j.min \/ j.max + 1 < i.min)
    BY DEF Apart
  <2>1. m <= M
    BY <1>1, <1>5, <1>6
  <2>2. CASE i = new
    BY <2>1, <2>2, <1>7, <1>8, <1>10
  <2>3. CASE i \in D \ reached /\ j = new
    BY <2>3, <1>7, <1>10, Ends
  <2>4. CASE i \in D \ reached /\ j \in D \ reached
    BY <2>4, Ends, Separate
  <2> QED
    BY <1>8, <2>2, <2>3, <2>4
<1>12. Bounded(R)
  <2>1. PICK k \in Nat : \A i \in D : i.max <= k
    BY DEF Good, Bounded
  <2>2. PICK h \in Nat : h >= k /\ h >= M
    <3>1. k + M \in Nat /\ k + M >= k /\ k + M >= M
      BY <1>6
    <3> QED
      BY <3>1
  <2>3. \A r \in R : r.max <= h
    BY <1>7, <1>8, <1>6, <2>1, <2>2, Ends
  <2> QED
    BY <2>3 DEF Bounded
<1>13. R \in SUBSET Intervals
  BY <1>7, <1>8 DEF Good
<1>14. ASSUME NEW n \in Nat, Has(R, n) PROVE Has(D, n) \/ (lo <= n /\ n <= hi)
  <2>1. PICK r \in R : r.min <= n /\ n <= r.max
    BY <1>14 DEF Has
  <2>2. CASE r \in D
    BY <2>1, <2>2 DEF Has
  <2>3. CASE r = new
    <3>1. CASE n < lo
      BY <2>1, <2>3, <3>1, <1>7 DEF Has
    <3>2. CASE n > hi
      <4>1. l.min <= n /\ n <= l.max
        BY <2>1, <2>3, <3>2, <1>7, <1>4, <1>5, <1>1
      <4> QED
        BY <4>1, <1>4 DEF Has
    <3> QED
      BY <3>1, <3>2, <1>1
  <2> QED
    BY <1>8, <2>1, <2>2, <2>3
<1>15. ASSUME NEW n \in Nat, Has(D, n) \/ (lo <= n /\ n <= hi) PROVE Has(R, n)
  <2>1. CASE lo <= n /\ n <= hi
    <3>1. m <= n /\ n <= M
      BY <2>1, <1>1, <1>5, <1>6
    <3> QED
      BY <3>1, <1>7, <1>8 DEF Has
  <2>2. ASSUME NEW i \in D, i.min <= n, n <= i.max PROVE Has(R, n)
    <3>1. CASE i \in reached
      <4>1. m <= i.min /\ i.max <= M /\ i.min \in Nat /\ i.max \in Nat
        BY <3>1, <1>2, <1>9, <1>1, Ends
      <4>2. m <= n /\ n <= M
        BY <4>1, <2>2, <1>1, <1>6
      <4> QED
        BY <4>2, <1>7, <1>8 DEF Has
    <3>2. CASE i \notin reached
      BY <3>2, <2>2, <1>8 DEF Has
    <3> QED
      BY <3>1, <3>2
  <2> QED
    BY <1>15, <2>1, <2>2 DEF Has
<1> QED
  BY <1>b, <1>11, <1>12, <1>13, <1>14, <1>15 DEF Good

\* A range that touches nothing is an interval more.
LEMMA AloneIn ==
    ASSUME NEW D, Good(D), NEW lo \in Numbers, NEW hi \in Numbers, lo <= hi,
           \A j \in D : j.max + 1 < lo \/ hi + 1 < j.min
    PROVE  /\ Good(D \cup {Interval(lo, hi)})
           /\ \A n \in Nat : Has(D \cup {Interval(lo, hi)}, n) <=> Has(D, n) \/ (lo <= n /\ n <= hi)
<1>1. lo \in Nat /\ hi \in Nat
  BY NumberIsNat
<1>2. PICK new \in Intervals : new = Interval(lo, hi) /\ new.min = lo /\ new.max = hi
  BY IntervalIs
<1>3. PICK R : R = D \cup {new}
  OBVIOUS
<1>4. Apart(R)
  <2> SUFFICES ASSUME NEW i \in R, NEW j \in R
               PROVE  i.min <= i.max /\ (i # j => i.max + 1 < j.min \/ j.max + 1 < i.min)
    BY DEF Apart
  <2> QED
    BY <1>1, <1>2, <1>3, Ends, Separate
<1>5. Bounded(R)
  <2>1. PICK k \in Nat : \A i \in D : i.max <= k
    BY DEF Good, Bounded
  <2>2. k + hi \in Nat /\ k + hi >= k /\ k + hi >= hi
    BY <1>1
  <2>3. \A r \in R : r.max <= k + hi
    BY <1>1, <1>2, <1>3, <2>1, <2>2, Ends
  <2> QED
    BY <2>2, <2>3 DEF Bounded
<1>6. R \in SUBSET Intervals
  BY <1>2, <1>3 DEF Good
<1>7. \A n \in Nat : Has(R, n) <=> Has(D, n) \/ (lo <= n /\ n <= hi)
  BY <1>2, <1>3 DEF Has
<1> QED
  BY <1>2, <1>3, <1>4, <1>5, <1>6, <1>7 DEF Good

\* insert( min, max ) adds the numbers from min to max.
LEMMA InsertRangeIs ==
    ASSUME NEW D, Good(D), NEW lo \in Numbers, NEW hi \in Numbers, lo <= hi
    PROVE  /\ Good(InsertRange(D, lo, hi))
           /\ \A n \in Nat : Has(InsertRange(D, lo, hi), n) <=> Has(D, n) \/ (lo <= n /\ n <= hi)
<1>1. lo \in Nat /\ hi \in Nat
  BY NumberIsNat
<1> DEFINE before == {i \in Below(D, lo) : lo <= i.max + 1}
           after == IF before = {} THEN {i \in Above(D, lo) : i.min <= hi + 1} ELSE {}
           base == before \cup after
           reached == base \cup {i \in D : i.min > The(base).min /\ i.min <= hi + 1}
<1>2. InsertRange(D, lo, hi) =
        IF base = {} THEN D \cup {Interval(lo, hi)}
        ELSE (D \ reached) \cup {Interval(IF before = {} THEN lo ELSE The(before).min,
                                          Largest(LastOf(reached).max, hi))}
  BY DEF InsertRange
<1>3. ASSUME before = {}, NEW j \in D, j.min <= lo PROVE j.max + 1 < lo
  <2>1. Below(D, lo) # {} /\ j.min \in Nat /\ j.max \in Nat
    BY <1>1, <1>3, BelowIs, Ends
  <2>2. PICK k \in Below(D, lo) : TRUE
    BY <2>1
  <2>3. k \in D /\ j.min <= k.min /\ k.min <= lo /\ k.min \in Nat /\ k.max \in Nat /\ k.max + 1 < lo /\ k.min <= k.max
    BY <2>2, <1>1, <1>3, Ends DEF Below
  <2> HIDE DEF before, after
  <2>4. j = k \/ j.max + 1 < k.min \/ k.max + 1 < j.min
    BY <2>3, Separate
  <2> QED
    BY <2>1, <2>3, <2>4, <1>1
<1>4. CASE before # {}
  <2>1. PICK b \in Below(D, lo) : lo <= b.max + 1 /\ before = {b}
    BY <1>1, <1>4, BelowIs
  <2>2. b \in D /\ b.min <= lo /\ \A j \in D : j.min <= lo => j.min <= b.min
    BY <2>1 DEF Below
  <2>3. after = {} /\ base = {b} /\ The(base) = b /\ The(before) = b
    BY <2>1, <1>4 DEF The
  <2>4. b.min \in Nat /\ b.max \in Nat /\ b.min \in Numbers
    BY <2>2, Ends
  <2>5. reached = Reach(D, b, hi)
    BY <2>3 DEF Reach
  <2>6. InsertRange(D, lo, hi) = Joined(D, b, b.min, hi)
    BY <1>2, <1>4, <2>3, <2>5 DEF Joined
  <2> HIDE DEF reached, base, before, after
  <2>7. \A j \in D : j.min < b.min => j.max + 1 < b.min
    BY <2>2, Ends, Separate
  <2>8. \A n \in Nat : b.min <= n /\ n < lo => b.min <= n /\ n <= b.max
    BY <2>1, <2>4, <1>1
  <2>9. b.min <= b.min /\ b.min <= lo /\ b.min <= hi + 1
    BY <2>2, <2>4, <1>1
  <2> QED
    BY <2>2, <2>4, <2>5, <2>6, <2>7, <2>8, <2>9, MergeInto
<1>5. CASE before = {} /\ after # {}
  <2>1. PICK b \in Above(D, lo) : b.min <= hi + 1 /\ after = {b}
    BY <1>1, <1>5, AboveIs
  <2>2. b \in D /\ b.min > lo /\ \A j \in D : j.min > lo => b.min <= j.min
    BY <2>1 DEF Above
  <2>3. base = {b} /\ The(base) = b
    BY <2>1, <1>5 DEF The
  <2>4. b.min \in Nat /\ b.max \in Nat /\ b.min \in Numbers
    BY <2>2, Ends
  <2>5. reached = Reach(D, b, hi)
    BY <2>3 DEF Reach
  <2>6. InsertRange(D, lo, hi) = Joined(D, b, lo, hi)
    BY <1>2, <1>5, <2>3, <2>5 DEF Joined
  <2>7. \A j \in D : j.min < b.min => j.max + 1 < lo
    BY <2>2, <2>4, <1>1, <1>3, <1>5, Ends
  <2> HIDE DEF reached, base, before, after
  <2>8. \A n \in Nat : lo <= n /\ n < lo => b.min <= n /\ n <= b.max
    BY <1>1
  <2>9. lo <= b.min /\ lo <= lo /\ b.min <= hi + 1
    BY <2>1, <2>2, <2>4, <1>1
  <2> QED
    BY <2>2, <2>5, <2>6, <2>7, <2>8, <2>9, MergeInto
<1>6. CASE before = {} /\ after = {}
  <2>1. InsertRange(D, lo, hi) = D \cup {Interval(lo, hi)}
    BY <1>2, <1>6
  <2>2. ASSUME NEW j \in D PROVE j.max + 1 < lo \/ hi + 1 < j.min
    <3>1. j.min \in Nat /\ j.max \in Nat
      BY Ends
    <3>2. CASE j.min <= lo
      BY <3>2, <1>3, <1>6
    <3>3. CASE j.min > lo
      <4>1. PICK a \in Above(D, lo) : TRUE
        BY <3>1, <3>3, <1>1, AboveIs
      <4>2. a \in D /\ a.min <= j.min /\ a.min \in Nat
        BY <4>1, <3>3, Ends DEF Above
      <4>3. a.min > hi + 1
        BY <4>1, <4>2, <1>6, <1>1
      <4> QED
        BY <4>2, <4>3, <3>1, <1>1
    <3> QED
      BY <3>1, <3>2, <3>3, <1>1
  <2> QED
    BY <2>1, <2>2, AloneIn
<1> QED
  BY <1>4, <1>5, <1>6

\* insert( val ) adds the number.
LEMMA InsertValueIs ==
    ASSUME NEW D, Good(D), NEW v \in Numbers
    PROVE  /\ Good(InsertValue(D, v))
           /\ \A n \in Nat : Has(InsertValue(D, v), n) <=> Has(D, n) \/ n = v
<1>1. v \in Nat
  BY NumberIsNat
<1>2. CASE Holds(D, v)
  <2>1. InsertValue(D, v) = D
    BY <1>2 DEF InsertValue
  <2>2. Has(D, v)
    BY <1>2 DEF Holds, Below, Has
  <2> QED
    BY <2>1, <2>2
<1>3. CASE ~Holds(D, v)
  <2> DEFINE left == {i \in Below(D, v) : v = i.max + 1}
             right == {i \in Above(D, v) : v + 1 = i.min}
             m == IF left = {} THEN v ELSE The(left).min
             M == IF right = {} THEN v ELSE The(right).max
             R == (D \ (left \cup right)) \cup {Interval(m, M)}
  <2>1. InsertValue(D, v) = R
    BY <1>3 DEF InsertValue
  <2>2. ASSUME NEW j \in D, j.min <= v PROVE j.max < v /\ (j \in left \/ j.max + 1 < m)
    <3>1. j.min \in Nat /\ j.max \in Nat /\ j.min <= j.max
      BY Ends
    <3>2. PICK k \in Below(D, v) : Below(D, v) = {k}
      BY <2>2, <1>1, <3>1, BelowIs
    <3>3. k \in D /\ k.min <= v /\ j.min <= k.min /\ k.max < v /\ k.min \in Nat /\ k.max \in Nat /\ k.min <= k.max
      BY <3>2, <2>2, <1>1, <1>3, Ends DEF Below, Holds
    <3>4. j = k \/ j.max + 1 < k.min
      BY <3>1, <3>3, Separate
    <3>5. CASE left = {}
      <4>1. m = v /\ v # k.max + 1
        BY <3>5, <3>2
      <4> HIDE DEF m, left
      <4> QED
        BY <4>1, <3>1, <3>3, <3>4, <1>1
    <3>6. CASE left # {}
      <4>1. left = {k} /\ m = k.min
        BY <3>6, <3>2 DEF The
      <4> HIDE DEF m, left
      <4> QED
        BY <4>1, <3>1, <3>3, <3>4, <1>1
    <3> QED
      BY <3>5, <3>6
  <2>3. ASSUME NEW j \in D, j.min > v PROVE j \in right \/ M + 1 < j.min
    <3>1. j.min \in Nat /\ j.max \in Nat /\ j.min <= j.max
      BY Ends
    <3>2. PICK k \in Above(D, v) : Above(D, v) = {k}
      BY <2>3, <1>1, <3>1, AboveIs
    <3>3. k \in D /\ k.min > v /\ k.min <= j.min /\ k.min \in Nat /\ k.max \in Nat /\ k.min <= k.max
      BY <3>2, <2>3, <1>1, Ends DEF Above
    <3>4. j = k \/ k.max + 1 < j.min
      BY <3>1, <3>3, Separate
    <3>5. CASE right = {}
      <4>1. M = v /\ v + 1 # k.min
        BY <3>5, <3>2
      <4> HIDE DEF M, right
      <4> QED
        BY <4>1, <3>1, <3>3, <3>4, <1>1
    <3>6. CASE right # {}
      <4>1. right = {k} /\ M = k.max
        BY <3>6, <3>2 DEF The
      <4> HIDE DEF M, right
      <4> QED
        BY <4>1, <3>1, <3>3, <3>4, <1>1
    <3> QED
      BY <3>5, <3>6
  <2>4. left \subseteq D /\ right \subseteq D
    BY DEF Below, Above
  <2>5. m \in Numbers /\ m <= v /\ \A n \in Nat : m <= n /\ n < v => Has(D, n)
    <3>1. CASE left = {}
      <4>1. m = v
        BY <3>1
      <4> HIDE DEF m, left
      <4> QED
        BY <4>1, <1>1
    <3>2. CASE left # {}
      <4>1. PICK k \in left : left = {k}
        BY <3>2, <1>1, BelowIs
      <4>2. m = k.min /\ v = k.max + 1 /\ k \in D /\ k.min <= v
        BY <4>1, <3>2 DEF The, Below
      <4>3. k.min \in Numbers /\ k.min \in Nat /\ k.max \in Nat /\ k.min <= k.max
        BY <4>2, Ends
      <4>4. ASSUME NEW n \in Nat, m <= n, n < v PROVE Has(D, n)
        <5>1. k.min <= n /\ n <= k.max
          BY <4>2, <4>3, <4>4
        <5> QED
          BY <5>1, <4>2 DEF Has
      <4> HIDE DEF m, left
      <4>5. m \in Numbers /\ m <= v
        BY <4>2, <4>3
      <4> QED
        BY <4>4, <4>5
    <3> QED
      BY <3>1, <3>2
  <2>6. M \in Numbers /\ v <= M /\ \A n \in Nat : v < n /\ n <= M => Has(D, n)
    <3>1. CASE right = {}
      <4>1. M = v
        BY <3>1
      <4> QED
        BY <4>1, <1>1
    <3>2. CASE right # {}
      <4>1. PICK k \in right : right = {k}
        BY <3>2, <1>1, AboveIs
      <4>2. M = k.max /\ v + 1 = k.min /\ k \in D
        BY <4>1, <3>2 DEF The, Above
      <4>3. k.max \in Numbers /\ k.min \in Nat /\ k.max \in Nat /\ k.min <= k.max
        BY <4>2, Ends
      <4>4. ASSUME NEW n \in Nat, v < n, n <= M PROVE Has(D, n)
        <5>1. k.min <= n /\ n <= k.max
          BY <4>2, <4>3, <4>4, <1>1
        <5> QED
          BY <5>1, <4>2 DEF Has
      <4> HIDE DEF M
      <4> QED
        BY <4>2, <4>3, <4>4, <1>1
    <3> QED
      BY <3>1, <3>2
  <2>7. \A i \in left \cup right : m <= i.min /\ i.max <= M
    <3>1. ASSUME NEW i \in left PROVE m <= i.min /\ i.max <= M
      <4>1. left = {i} /\ i \in D /\ i.max \in Nat /\ v = i.max + 1 /\ i.min \in Nat
        BY <2>4, <1>1, BelowIs, Ends
      <4>2. m = i.min
        BY <4>1 DEF The
      <4>3. M \in Nat /\ v <= M
        BY <2>6, NumberIsNat
      <4> HIDE DEF m, M, left
      <4> QED
        BY <4>1, <4>2, <4>3
    <3>2. ASSUME NEW i \in right PROVE m <= i.min /\ i.max <= M
      <4>1. right = {i} /\ i \in D /\ i.max \in Nat /\ v + 1 = i.min /\ i.min \in Nat
        BY <2>4, <1>1, AboveIs, Ends
      <4>2. M = i.max
        BY <4>1 DEF The
      <4>3. m \in Nat /\ m <= v
        BY <2>5, NumberIsNat
      <4> HIDE DEF m, M, right
      <4> QED
        BY <4>1, <4>2, <4>3, <1>1
    <3> HIDE DEF m, M, left, right
    <3> QED
      BY <3>1, <3>2
  <2> HIDE DEF left, right, m, M
  <2>8. m \in Nat /\ M \in Nat
    BY <2>5, <2>6, NumberIsNat
  <2>9. PICK new \in Intervals : new = Interval(m, M) /\ new.min = m /\ new.max = M
    BY <2>5, <2>6, IntervalIs
  <2>10. \A j \in D : j \in left \cup right \/ j.max + 1 < m \/ M + 1 < j.min
    BY <2>2, <2>3, <1>1, Ends
  <2>11. Good(R)
    <3>1. Apart(R)
      <4> SUFFICES ASSUME NEW i \in R, NEW j \in R
                   PROVE  i.min <= i.max /\ (i # j => i.max + 1 < j.min \/ j.max + 1 < i.min)
        BY DEF Apart
      <4>1. m <= M
        BY <2>5, <2>6, <2>8, <1>1
      <4>2. CASE i = new
        BY <4>1, <4>2, <2>9, <2>10
      <4>3. CASE i \in D \ (left \cup right) /\ j = new
        BY <4>3, <2>9, <2>10, Ends
      <4>4. CASE i \in D /\ j \in D
        BY <4>4, Ends, Separate
      <4> QED
        BY <2>9, <4>2, <4>3, <4>4
    <3>2. Bounded(R)
      <4>1. PICK k \in Nat : \A i \in D : i.max <= k
        BY DEF Good, Bounded
      <4>2. k + M \in Nat /\ k + M >= k /\ k + M >= M
        BY <2>8
      <4>3. \A r \in R : r.max <= k + M
        BY <2>9, <2>8, <4>1, <4>2, Ends
      <4> QED
        BY <4>2, <4>3 DEF Bounded
    <3>3. R \in SUBSET Intervals
      BY <2>9 DEF Good
    <3> QED
      BY <3>1, <3>2, <3>3 DEF Good
  <2>12. ASSUME NEW n \in Nat PROVE Has(R, n) <=> Has(D, n) \/ n = v
    <3>1. ASSUME Has(R, n) PROVE Has(D, n) \/ n = v
      <4>1. PICK r \in R : r.min <= n /\ n <= r.max
        BY <3>1 DEF Has
      <4>2. CASE r \in D
        BY <4>1, <4>2 DEF Has
      <4>3. CASE r = new
        BY <4>1, <4>3, <2>9, <2>5, <2>6, <1>1
      <4> QED
        BY <2>9, <4>2, <4>3
    <3>2. ASSUME n = v PROVE Has(R, n)
      BY <3>2, <2>9, <2>5, <2>6 DEF Has
    <3>3. ASSUME NEW i \in D, i.min <= n, n <= i.max PROVE Has(R, n)
      <4>1. CASE i \in left \cup right
        <5>1. m <= n /\ n <= M
          BY <4>1, <3>3, <2>7, <2>8, Ends
        <5> QED
          BY <5>1, <2>9 DEF Has
      <4>2. CASE i \notin left \cup right
        BY <4>2, <3>3 DEF Has
      <4> QED
        BY <4>1, <4>2
    <3> QED
      BY <3>1, <3>2, <3>3 DEF Has
  <2> QED
    BY <2>1, <2>11, <2>12
<1> QED
  BY <1>2, <1>3

\* What is left of intervals is apart as they were.
Within(r, i) == i.min <= r.min /\ r.max <= i.max
LEMMA PartsAreGood ==
    ASSUME NEW D, Good(D), NEW R \in SUBSET Intervals,
           \A r \in R : r.min <= r.max /\ \E i \in D : Within(r, i),
           \A i \in D : \A p, q \in R : Within(p, i) /\ Within(q, i) /\ p # q
                                          => p.max + 1 < q.min \/ q.max + 1 < p.min
    PROVE  Good(R)
<1>1. \A r \in R : r.min \in Nat /\ r.max \in Nat
  BY NumberIsNat DEF Intervals
<1>2. Bounded(R)
  <2>1. PICK k \in Nat : \A i \in D : i.max <= k
    BY DEF Good, Bounded
  <2>2. \A r \in R : r.max <= k
    BY <1>1, <2>1, Ends DEF Within
  <2> QED
    BY <2>2 DEF Bounded
<1>3. Apart(R)
  <2> SUFFICES ASSUME NEW p \in R, NEW q \in R, p # q
               PROVE  p.max + 1 < q.min \/ q.max + 1 < p.min
    BY DEF Apart
  <2>1. PICK i \in D : Within(p, i)
    OBVIOUS
  <2>2. PICK j \in D : Within(q, j)
    OBVIOUS
  <2>3. CASE i = j
    BY <2>1, <2>2, <2>3
  <2>4. CASE i # j
    <3>1. i.max + 1 < j.min \/ j.max + 1 < i.min
      BY <2>4, Separate
    <3> QED
      BY <3>1, <2>1, <2>2, <1>1, Ends DEF Within
  <2> QED
    BY <2>3, <2>4
<1> QED
  BY <1>2, <1>3 DEF Good

\* remove( val ) takes the number away.
LEMMA RemoveValueIs ==
    ASSUME NEW D, Good(D), NEW v \in Numbers
    PROVE  /\ Good(RemoveValue(D, v))
           /\ \A n \in Nat : Has(RemoveValue(D, v), n) <=> Has(D, n) /\ n # v
<1>1. v \in Nat
  BY NumberIsNat
<1>2. CASE ~Holds(D, v)
  <2>1. RemoveValue(D, v) = D
    BY <1>2 DEF RemoveValue
  <2>2. ASSUME NEW j \in D, j.min <= v, v <= j.max PROVE FALSE
    <3>1. PICK k \in Below(D, v) : TRUE
      BY <2>2, <1>1, Ends, BelowIs
    <3>2. k \in D /\ k.min <= v /\ k.max < v /\ j.min <= k.min /\ k.min <= k.max /\ k.min \in Nat /\ k.max \in Nat
      BY <3>1, <1>1, <1>2, <2>2, Ends DEF Below, Holds
    <3>3. j = k \/ j.max + 1 < k.min \/ k.max + 1 < j.min
      BY <3>2, Separate
    <3> QED
      BY <3>2, <3>3, <2>2, <1>1, Ends
  <2> QED
    BY <2>1, <2>2 DEF Has
<1>3. CASE Holds(D, v)
  <2> DEFINE i == The(Below(D, v))
             R == (D \ {i}) \cup (IF i.min = v THEN {} ELSE {Interval(i.min, v - 1)})
                            \cup (IF i.max = v THEN {} ELSE {Interval(v + 1, i.max)})
  <2>1. RemoveValue(D, v) = R
    BY <1>3 DEF RemoveValue
  <2>2. i \in D /\ i.min <= v /\ v <= i.max
    <3>1. Below(D, v) = {i}
      BY <1>1, <1>3, BelowIs DEF Holds
    <3> HIDE DEF i
    <3> QED
      BY <3>1, <1>3 DEF Below, Holds
  <2> HIDE DEF i
  <2>3. i.min \in Nat /\ i.max \in Nat /\ i.min \in Numbers /\ i.max \in Numbers
    BY <2>2, Ends
  <2>4. v - 1 \in Numbers \/ i.min = v
    <3>1. v - 1 \in i.min .. v \/ i.min = v
      BY <1>1, <2>2, <2>3
    <3> QED
      BY <3>1, <2>3, NumbersAssumption
  <2>5. v + 1 \in Numbers \/ i.max = v
    <3>1. v + 1 \in v .. i.max \/ i.max = v
      BY <1>1, <2>2, <2>3
    <3> QED
      BY <3>1, <2>3, NumbersAssumption
  <2>6. i.min # v => Interval(i.min, v - 1) \in Intervals /\ Interval(i.min, v - 1).min = i.min
                     /\ Interval(i.min, v - 1).max = v - 1
    BY <2>3, <2>4, IntervalIs
  <2>7. i.max # v => Interval(v + 1, i.max) \in Intervals /\ Interval(v + 1, i.max).min = v + 1
                     /\ Interval(v + 1, i.max).max = i.max
    BY <2>3, <2>5, IntervalIs
  <2>8. ASSUME NEW r \in R
        PROVE  \/ r \in D /\ r # i
               \/ i.min # v /\ r = Interval(i.min, v - 1) /\ r.min = i.min /\ r.max = v - 1
               \/ i.max # v /\ r = Interval(v + 1, i.max) /\ r.min = v + 1 /\ r.max = i.max
    BY <2>6, <2>7
  <2>9. R \in SUBSET Intervals
    BY <2>6, <2>7 DEF Good
  <2>10. \A r \in R : r.min <= r.max /\ \E j \in D : Within(r, j)
    <3> SUFFICES ASSUME NEW r \in R PROVE r.min <= r.max /\ \E j \in D : Within(r, j)
      OBVIOUS
    <3>1. CASE r \in D
      BY <3>1, Ends DEF Within
    <3>2. CASE r \notin D
      <4>1. r.min <= r.max /\ Within(r, i)
        BY <2>8, <3>2, <1>1, <2>2, <2>3 DEF Within
      <4> QED
        BY <4>1, <2>2
    <3> QED
      BY <3>1, <3>2
  <2> HIDE DEF R
  <2>11. ASSUME NEW j \in D, NEW p \in R, NEW q \in R, Within(p, j), Within(q, j), p # q
         PROVE  p.max + 1 < q.min \/ q.max + 1 < p.min
    <3>1. \A r \in R : r \in D => r.min \in Nat /\ r.max \in Nat /\ r.min <= r.max
      BY Ends
    <3>2. \A r \in R : r \in D /\ Within(r, j) => r = j
      BY <3>1, Ends, Separate DEF Within
    <3>3. \A r \in R : r \notin D /\ Within(r, j) => j = i
      <4> SUFFICES ASSUME NEW r \in R, r \notin D, Within(r, j) PROVE j = i
        OBVIOUS
      <4>1. i.min <= r.min /\ r.max <= i.max /\ r.min <= r.max /\ r.min \in Nat /\ r.max \in Nat
        BY <2>8, <1>1, <2>2, <2>3
      <4>2. i = j \/ i.max + 1 < j.min \/ j.max + 1 < i.min
        BY <2>2, Separate
      <4> QED
        BY <4>1, <4>2, <2>3, Ends DEF Within
    <3>4. \A r \in R : r # i
      BY <2>8, <2>6, <2>7, <1>1, <2>3, <2>2
    <3>5. p \notin D /\ q \notin D
      BY <2>11, <3>2, <3>3, <3>4
    <3> QED
      BY <3>5, <2>8, <2>11, <1>1, <2>3
  <2>12. Good(R)
    BY <2>9, <2>10, <2>11, PartsAreGood
  <2>13. ASSUME NEW n \in Nat PROVE Has(R, n) <=> Has(D, n) /\ n # v
    <3>1. ASSUME NEW r \in R, r.min <= n, n <= r.max PROVE Has(D, n) /\ n # v
      <4>1. CASE r \in D /\ r # i
        <5>1. i.max + 1 < r.min \/ r.max + 1 < i.min
          BY <4>1, <2>2, Separate
        <5>2. n # v
          BY <5>1, <4>1, <3>1, <2>2, <2>3, <1>1, Ends
        <5> QED
          BY <5>2, <4>1, <3>1 DEF Has
      <4>2. CASE ~(r \in D /\ r # i)
        <5>1. i.min <= n /\ n <= i.max /\ n # v
          BY <4>2, <2>8, <3>1, <2>2, <2>3, <1>1
        <5> QED
          BY <5>1, <2>2 DEF Has
      <4> QED
        BY <4>1, <4>2
    <3>2. ASSUME NEW j \in D, j.min <= n, n <= j.max, n # v PROVE Has(R, n)
      <4>1. CASE j # i
        BY <4>1, <3>2 DEF Has, R
      <4>2. CASE j = i /\ n < v
        <5>1. i.min # v /\ Interval(i.min, v - 1) \in R
          BY <4>2, <3>2, <1>1, <2>3 DEF R
        <5> QED
          BY <5>1, <4>2, <2>6, <3>2, <1>1 DEF Has
      <4>3. CASE j = i /\ n > v
        <5>1. i.max # v /\ Interval(v + 1, i.max) \in R
          BY <4>3, <3>2, <1>1, <2>3 DEF R
        <5> QED
          BY <5>1, <4>3, <2>7, <3>2, <1>1 DEF Has
      <4> QED
        BY <4>1, <4>2, <4>3, <3>2, <1>1
    <3> QED
      BY <3>1, <3>2 DEF Has
  <2> QED
    BY <2>1, <2>12, <2>13
<1> QED
  BY <1>2, <1>3

\* get_and_rem_val takes the first number away.
LEMMA WithoutFirstIs ==
    ASSUME NEW D, Good(D), D # {}
    PROVE  \E v \in Numbers :
              /\ Has(D, v) /\ \A n \in Nat : Has(D, n) => v <= n
              /\ Good(WithoutFirst(D))
              /\ \A n \in Nat : Has(WithoutFirst(D), n) <=> Has(D, n) /\ n # v
<1> DEFINE i == The(FirstOf(D))
<1>1. i \in D /\ \A j \in D : i.min <= j.min
  <2>1. \A j \in D : j.min \in Nat
    BY Ends
  <2>2. \E j \in D : \A k \in D : j.min <= k.min
    BY <2>1, FirstExists
  <2>3. FirstOf(D) # {}
    BY <2>2 DEF FirstOf
  <2>4. i \in FirstOf(D)
    BY <2>3 DEF The
  <2> HIDE DEF i
  <2> QED
    BY <2>4 DEF FirstOf
<1>2. WithoutFirst(D) = (D \ {i}) \cup (IF i.min = i.max THEN {} ELSE {Interval(i.min + 1, i.max)})
  BY DEF WithoutFirst
<1> HIDE DEF i
<1>3. i.min \in Nat /\ i.max \in Nat /\ i.min \in Numbers /\ i.max \in Numbers /\ i.min <= i.max
  BY <1>1, Ends
<1>4. Holds(D, i.min) /\ The(Below(D, i.min)) = i
  <2>1. i \in Below(D, i.min)
    BY <1>1, <1>3 DEF Below
  <2>2. Below(D, i.min) = {i}
    BY <2>1, <1>3, BelowIs
  <2> QED
    BY <2>1, <2>2, <1>3, BelowIs DEF Holds
<1>5. RemoveValue(D, i.min) = WithoutFirst(D)
  BY <1>2, <1>4 DEF RemoveValue
<1>6. Has(D, i.min)
  BY <1>1, <1>3 DEF Has
<1>7. \A n \in Nat : Has(D, n) => i.min <= n
  BY <1>1, <1>3, Ends DEF Has
<1>8. /\ Good(WithoutFirst(D))
      /\ \A n \in Nat : Has(WithoutFirst(D), n) <=> Has(D, n) /\ n # i.min
  BY <1>3, <1>5, RemoveValueIs
<1> QED
  BY <1>3, <1>6, <1>7, <1>8

\* What is left of the intervals when a range is taken away.
Untouched(D, lo, hi) == {j \in D : j.max < lo \/ hi < j.min}
OnLeft(D, lo) == {j \in D : j.min < lo /\ lo <= j.max}
OnRight(D, hi) == {j \in D : j.min <= hi /\ hi < j.max}
Trimmed(D, lo, hi) == Untouched(D, lo, hi) \cup {Interval(j.min, lo - 1) : j \in OnLeft(D, lo)}
                                        \cup {Interval(hi + 1, j.max) : j \in OnRight(D, hi)}

\* RemoveRange looks for them from the interval where the range begins.
LEMMA RemoveRangeIsRest ==
    ASSUME NEW D, Good(D), NEW lo \in Numbers, NEW hi \in Numbers, lo <= hi
    PROVE  RemoveRange(D, lo, hi) = Trimmed(D, lo, hi)
<1>1. lo \in Nat /\ hi \in Nat
  BY NumberIsNat
<1> DEFINE first == {i \in Below(D, lo) : lo > i.min}
           cut == {Interval(i.min, lo - 1) : i \in {j \in first : lo <= j.max}}
           kept == {i \in first : lo > i.max}
           inside == \E i \in first : hi < i.max
           from == IF first = {} THEN (Below(D, lo) \cup {i \in D : i.min > lo}) ELSE {i \in D : i.min > lo}
           erased == {i \in from : i.max <= hi}
           reduced == {i \in from : i.max > hi /\ i.min <= hi}
<1>2. RemoveRange(D, lo, hi) =
        IF inside THEN (D \ first) \cup cut \cup {Interval(hi + 1, The(first).max)}
        ELSE (D \ (first \cup erased \cup reduced)) \cup cut \cup kept
             \cup {Interval(hi + 1, i.max) : i \in reduced}
  BY DEF RemoveRange
<1>3. \A j \in D : j.min \in Nat /\ j.max \in Nat /\ j.min <= j.max
  BY Ends
<1>4. Below(D, lo) \subseteq D /\ \A i \in Below(D, lo) : i.min <= lo /\ \A j \in D : j.min <= lo => j.min <= i.min
  BY DEF Below
<1>5. first \subseteq D /\ \A i \in first : i.min < lo /\ first = {i} /\ \A j \in D : j.min <= lo => j.min <= i.min
  BY <1>1, <1>4, BelowIs
<1>6. from = {j \in D : lo <= j.min}
  <2>1. CASE first = {}
    <3>1. \A i \in Below(D, lo) : i.min = lo
      BY <2>1, <1>1, <1>3, <1>4
    <3>2. ASSUME NEW j \in D, j.min = lo PROVE j \in Below(D, lo)
      BY <3>2, <1>1, <1>3 DEF Below
    <3> QED
      BY <2>1, <3>1, <3>2, <1>1, <1>3, <1>4
  <2>2. CASE first # {}
    <3>1. \A j \in D : j.min # lo
      BY <2>2, <1>1, <1>3, <1>5
    <3> QED
      BY <2>2, <3>1, <1>1, <1>3
  <2> QED
    BY <2>1, <2>2
<1>7. ASSUME NEW j \in D, j.min < lo PROVE j \in first \/ j.max < lo
  <2>1. PICK k \in Below(D, lo) : Below(D, lo) = {k}
    BY <1>7, <1>1, <1>3, BelowIs
  <2>2. k \in D /\ k.min <= lo /\ j.min <= k.min
    BY <2>1, <1>4, <1>7, <1>1, <1>3
  <2>3. j = k \/ j.max + 1 < k.min \/ k.max + 1 < j.min
    BY <2>2, Separate
  <2>4. CASE j = k
    BY <2>1, <2>4, <1>7
  <2> HIDE DEF first
  <2>5. CASE j # k
    BY <2>2, <2>3, <2>5, <1>1, <1>3
  <2> QED
    BY <2>4, <2>5
<1>8. cut = {Interval(j.min, lo - 1) : j \in OnLeft(D, lo)}
  <2>1. {j \in first : lo <= j.max} = OnLeft(D, lo)
    <3> HIDE DEF first
    <3> QED
      BY <1>5, <1>7, <1>1, <1>3 DEF OnLeft
  <2> QED
    BY <2>1
<1>9. CASE inside
  <2>1. PICK i \in first : hi < i.max
    BY <1>9
  <2>2. first = {i} /\ i.min < lo /\ i \in D /\ The(first) = i
    BY <2>1, <1>5 DEF The
  <2>3. \A j \in D : j = i \/ j.max + 1 < i.min \/ i.max + 1 < j.min
    BY <2>2, Separate
  <2>4. OnRight(D, hi) = {i}
    BY <2>1, <2>2, <2>3, <1>1, <1>3 DEF OnRight
  <2>5. Untouched(D, lo, hi) = D \ {i}
    BY <2>1, <2>2, <2>3, <1>1, <1>3 DEF Untouched
  <2>6. {Interval(hi + 1, j.max) : j \in OnRight(D, hi)} = {Interval(hi + 1, i.max)}
    BY <2>4
  <2>7. RemoveRange(D, lo, hi) = (D \ first) \cup cut \cup {Interval(hi + 1, The(first).max)}
    BY <1>2, <1>9
  <2> HIDE DEF first, cut
  <2> QED
    BY <2>2, <2>5, <2>6, <2>7, <1>8 DEF Trimmed
<1>10. CASE ~inside
  <2> HIDE DEF from
  <2>1. reduced = OnRight(D, hi)
    <3>1. ASSUME NEW j \in OnRight(D, hi) PROVE j \in reduced
      <4>1. j \in D /\ j.min <= hi /\ hi < j.max
        BY DEF OnRight
      <4>2. ~(j.min < lo)
        BY <4>1, <1>7, <1>10, <1>1, <1>3
      <4> QED
        BY <4>1, <4>2, <1>1, <1>3, <1>6
    <3>2. ASSUME NEW j \in reduced PROVE j \in OnRight(D, hi)
      BY <1>1, <1>3, <1>6 DEF OnRight
    <3> HIDE DEF reduced
    <3> QED
      BY <3>1, <3>2
  <2>2. (D \ (first \cup erased \cup reduced)) \cup kept = Untouched(D, lo, hi)
    <3>1. ASSUME NEW j \in Untouched(D, lo, hi) PROVE j \in D \ (first \cup erased \cup reduced) \/ j \in kept
      <4>1. j \in D /\ (j.max < lo \/ hi < j.min)
        BY DEF Untouched
      <4>2. CASE j.max < lo
        BY <4>1, <4>2, <1>1, <1>3, <1>5, <1>6
      <4>3. CASE hi < j.min
        <5>1. j \notin first /\ j \notin erased /\ j \notin reduced
          BY <4>1, <4>3, <1>1, <1>3, <1>5, <1>6
        <5> QED
          BY <4>1, <5>1
      <4> QED
        BY <4>1, <4>2, <4>3
    <3>2. ASSUME NEW j \in kept PROVE j \in Untouched(D, lo, hi)
      BY <1>1, <1>3, <1>5 DEF Untouched
    <3>3. ASSUME NEW j \in D, j \notin first, j \notin erased, j \notin reduced PROVE j \in Untouched(D, lo, hi)
      <4>1. j.min < lo \/ j \in from
        BY <1>1, <1>3, <1>6
      <4> QED
        BY <3>3, <4>1, <1>1, <1>3, <1>7 DEF Untouched
    <3> HIDE DEF first, erased, reduced, kept
    <3> QED
      BY <3>1, <3>2, <3>3
  <2>3. RemoveRange(D, lo, hi) = (D \ (first \cup erased \cup reduced)) \cup cut \cup kept
                                 \cup {Interval(hi + 1, i.max) : i \in reduced}
    BY <1>2, <1>10
  <2> HIDE DEF first, erased, reduced, kept, cut
  <2>4. {Interval(hi + 1, i.max) : i \in reduced} = {Interval(hi + 1, i.max) : i \in OnRight(D, hi)}
    BY <2>1
  <2> QED
    BY <2>2, <2>3, <2>4, <1>8 DEF Trimmed
<1> QED
  BY <1>9, <1>10

\* remove( min, max ) takes the numbers from min to max away.
LEMMA RemoveRangeIs ==
    ASSUME NEW D, Good(D), NEW lo \in Numbers, NEW hi \in Numbers, lo <= hi
    PROVE  /\ Good(RemoveRange(D, lo, hi))
           /\ \A n \in Nat : Has(RemoveRange(D, lo, hi), n) <=> Has(D, n) /\ ~(lo <= n /\ n <= hi)
<1>1. lo \in Nat /\ hi \in Nat
  BY NumberIsNat
<1>2. PICK R : R = Trimmed(D, lo, hi)
  OBVIOUS
<1>3. \A j \in D : j.min \in Nat /\ j.max \in Nat /\ j.min <= j.max /\ j.min \in Numbers /\ j.max \in Numbers
  BY Ends
<1>4. ASSUME NEW j \in OnLeft(D, lo)
      PROVE  /\ j \in D /\ j.min < lo /\ lo <= j.max
             /\ Interval(j.min, lo - 1) \in Intervals
             /\ Interval(j.min, lo - 1).min = j.min /\ Interval(j.min, lo - 1).max = lo - 1
  <2>1. j \in D /\ j.min < lo /\ lo <= j.max
    BY DEF OnLeft
  <2>2. lo - 1 \in j.min .. lo
    BY <2>1, <1>1, <1>3
  <2>3. lo - 1 \in Numbers /\ j.min \in Numbers
    BY <2>1, <2>2, <1>3, NumbersAssumption
  <2> QED
    BY <2>1, <2>3, IntervalIs
<1>5. ASSUME NEW j \in OnRight(D, hi)
      PROVE  /\ j \in D /\ j.min <= hi /\ hi < j.max
             /\ Interval(hi + 1, j.max) \in Intervals
             /\ Interval(hi + 1, j.max).min = hi + 1 /\ Interval(hi + 1, j.max).max = j.max
  <2>1. j \in D /\ j.min <= hi /\ hi < j.max
    BY DEF OnRight
  <2>2. hi + 1 \in hi .. j.max
    BY <2>1, <1>1, <1>3
  <2>3. hi + 1 \in Numbers /\ j.max \in Numbers
    BY <2>1, <2>2, <1>3, NumbersAssumption
  <2> QED
    BY <2>1, <2>3, IntervalIs
<1>6. ASSUME NEW r \in R
      PROVE  \/ r \in D /\ (r.max < lo \/ hi < r.min)
             \/ \E j \in OnLeft(D, lo) : r = Interval(j.min, lo - 1)
             \/ \E j \in OnRight(D, hi) : r = Interval(hi + 1, j.max)
  BY <1>2 DEF Trimmed, Untouched
<1>7. R \in SUBSET Intervals
  BY <1>4, <1>5, <1>6 DEF Good
<1>8. ASSUME NEW r \in R
      PROVE  /\ r.min <= r.max
             /\ \E i \in D : Within(r, i)
             /\ \A i \in D : Within(r, i) =>
                  \/ r = i /\ (r.max < lo \/ hi < r.min)
                  \/ i.min < lo /\ lo <= i.max /\ r = Interval(i.min, lo - 1)
                     /\ r.min = i.min /\ r.max = lo - 1
                  \/ i.min <= hi /\ hi < i.max /\ r = Interval(hi + 1, i.max)
                     /\ r.min = hi + 1 /\ r.max = i.max
  <2>1. CASE r \in D /\ (r.max < lo \/ hi < r.min)
    <3>1. r.min <= r.max /\ Within(r, r)
      BY <2>1, <1>3 DEF Within
    <3>2. \A i \in D : Within(r, i) => r = i
      BY <2>1, <1>3, Separate DEF Within
    <3> QED
      BY <2>1, <3>1, <3>2
  <2>2. ASSUME NEW j \in OnLeft(D, lo), r = Interval(j.min, lo - 1)
        PROVE  /\ r.min <= r.max /\ Within(r, j) /\ r.min = j.min /\ r.max = lo - 1
               /\ \A i \in D : Within(r, i) => i = j
    <3>1. /\ j \in D /\ j.min < lo /\ lo <= j.max /\ r.min = j.min /\ r.max = lo - 1
          /\ j.min \in Nat /\ j.max \in Nat
      BY <2>2, <1>3, <1>4
    <3>2. r.min <= r.max /\ Within(r, j)
      BY <3>1, <1>1 DEF Within
    <3>3. ASSUME NEW i \in D, Within(r, i) PROVE i = j
      <4>1. i = j \/ i.max + 1 < j.min \/ j.max + 1 < i.min
        BY <3>1, Separate
      <4>2. i.min <= j.min /\ lo - 1 <= i.max /\ i.min \in Nat /\ i.max \in Nat
        BY <3>1, <3>3, <1>3 DEF Within
      <4> QED
        BY <4>1, <4>2, <3>1, <1>1
    <3> QED
      BY <3>1, <3>2, <3>3
  <2>3. ASSUME NEW j \in OnRight(D, hi), r = Interval(hi + 1, j.max)
        PROVE  /\ r.min <= r.max /\ Within(r, j) /\ r.min = hi + 1 /\ r.max = j.max
               /\ \A i \in D : Within(r, i) => i = j
    <3>1. /\ j \in D /\ j.min <= hi /\ hi < j.max /\ r.min = hi + 1 /\ r.max = j.max
          /\ j.min \in Nat /\ j.max \in Nat
      BY <2>3, <1>3, <1>5
    <3>2. r.min <= r.max /\ Within(r, j)
      BY <3>1, <1>1 DEF Within
    <3>3. ASSUME NEW i \in D, Within(r, i) PROVE i = j
      <4>1. i = j \/ i.max + 1 < j.min \/ j.max + 1 < i.min
        BY <3>1, Separate
      <4>2. i.min <= hi + 1 /\ j.max <= i.max /\ i.min \in Nat /\ i.max \in Nat
        BY <3>1, <3>3, <1>3 DEF Within
      <4> QED
        BY <4>1, <4>2, <3>1, <1>1
    <3> QED
      BY <3>1, <3>2, <3>3
  <2>4. CASE \E j \in OnLeft(D, lo) : r = Interval(j.min, lo - 1)
    BY <2>2, <2>4, <1>4
  <2>5. CASE \E j \in OnRight(D, hi) : r = Interval(hi + 1, j.max)
    BY <2>3, <2>5, <1>5
  <2> QED
    BY <1>6, <2>1, <2>4, <2>5
<1>9. ASSUME NEW i \in D, NEW p \in R, NEW q \in R, Within(p, i), Within(q, i), p # q
      PROVE  p.max + 1 < q.min \/ q.max + 1 < p.min
  <2> DEFINE Piece(r) == \/ r = i /\ (r.max < lo \/ hi < r.min)
                         \/ i.min < lo /\ lo <= i.max /\ r = Interval(i.min, lo - 1)
                            /\ r.min = i.min /\ r.max = lo - 1
                         \/ i.min <= hi /\ hi < i.max /\ r = Interval(hi + 1, i.max)
                            /\ r.min = hi + 1 /\ r.max = i.max
  <2>1. Piece(p) /\ Piece(q)
    BY <1>8, <1>9
  <2>2. i.min \in Nat /\ i.max \in Nat
    BY <1>3
  <2> QED
    BY <2>1, <2>2, <1>1, <1>9
<1>10. Good(R)
  BY <1>7, <1>8, <1>9, PartsAreGood
<1>11. ASSUME NEW n \in Nat, NEW r \in R, r.min <= n, n <= r.max PROVE Has(D, n) /\ ~(lo <= n /\ n <= hi)
  <2>1. PICK i \in D : Within(r, i)
    BY <1>8
  <2>2. i.min \in Nat /\ i.max \in Nat
    BY <1>3
  <2>3. \/ r = i /\ (r.max < lo \/ hi < r.min)
        \/ i.min < lo /\ lo <= i.max /\ r.min = i.min /\ r.max = lo - 1
        \/ i.min <= hi /\ hi < i.max /\ r.min = hi + 1 /\ r.max = i.max
    BY <2>1, <1>8
  <2>4. i.min <= n /\ n <= i.max /\ ~(lo <= n /\ n <= hi)
    BY <2>2, <2>3, <1>1, <1>11
  <2> QED
    BY <2>4 DEF Has
<1>12. ASSUME NEW n \in Nat, NEW j \in D, j.min <= n, n <= j.max, ~(lo <= n /\ n <= hi) PROVE Has(R, n)
  <2>1. CASE j.max < lo \/ hi < j.min
    BY <2>1, <1>2, <1>12 DEF Trimmed, Untouched, Has
  <2>2. CASE n < lo /\ ~(j.max < lo \/ hi < j.min)
    <3>1. j \in OnLeft(D, lo)
      BY <2>2, <1>1, <1>3, <1>12 DEF OnLeft
    <3>2. Interval(j.min, lo - 1) \in R
      BY <3>1, <1>2 DEF Trimmed
    <3>3. n <= lo - 1
      BY <2>2, <1>1
    <3> QED
      BY <3>1, <3>2, <3>3, <1>4, <1>12 DEF Has
  <2>3. CASE n > hi /\ ~(j.max < lo \/ hi < j.min)
    <3>1. j \in OnRight(D, hi)
      BY <2>3, <1>1, <1>3, <1>12 DEF OnRight
    <3>2. Interval(hi + 1, j.max) \in R
      BY <3>1, <1>2 DEF Trimmed
    <3>3. hi + 1 <= n
      BY <2>3, <1>1
    <3> QED
      BY <3>1, <3>2, <3>3, <1>5, <1>12 DEF Has
  <2> QED
    BY <2>1, <2>2, <2>3, <1>12, <1>1
<1>13. \A n \in Nat : Has(R, n) <=> Has(D, n) /\ ~(lo <= n /\ n <= hi)
  BY <1>11, <1>12 DEF Has
<1> QED
  BY <1>2, <1>10, <1>13, RemoveRangeIsRest

\* The intervals of the other set are taken one after the other.
LEMMA EndIs ==
    ASSUME NEW E, Good(E)
    PROVE  /\ End(E) \in Nat
           /\ \A i \in E : i.min < End(E)
           /\ \A v \in Nat : \A i, j \in At(E, v) : i = j
           /\ \A v \in Nat : At(E, v) # {} => The(At(E, v)) \in E /\ The(At(E, v)).min = v
                                              /\ At(E, v) = {The(At(E, v))}
<1>1. End(E) \in Nat /\ \A i \in E : i.min < End(E)
  <2>1. CASE E = {}
    BY <2>1 DEF End
  <2>2. CASE E # {}
    <3>1. \A i \in E : i.min \in Nat /\ i.max \in Nat /\ i.min <= i.max
      BY Ends
    <3>2. PICK b \in Nat : \A i \in E : i.max <= b
      BY DEF Good, Bounded
    <3>3. \A i \in E : i.min <= b
      BY <3>1, <3>2
    <3>4. \E l \in E : \A j \in E : j.min <= l.min
      BY <2>2, <3>1, <3>3, LastExists
    <3>5. LastOf(E) \in E /\ \A j \in E : j.min <= LastOf(E).min
      BY <3>4 DEF LastOf
    <3>6. End(E) = LastOf(E).min + 1
      BY <2>2 DEF End
    <3> QED
      BY <3>1, <3>5, <3>6
  <2> QED
    BY <2>1, <2>2
<1>2. ASSUME NEW v \in Nat, NEW i \in At(E, v), NEW j \in At(E, v) PROVE i = j
  <2>1. i \in E /\ j \in E /\ i.min = v /\ j.min = v
    BY DEF At
  <2> QED
    BY <2>1, Ends, Separate
<1>3. ASSUME NEW v \in Nat, At(E, v) # {} PROVE The(At(E, v)) \in At(E, v)
  BY <1>3 DEF The
<1>4. \A v \in Nat : At(E, v) \subseteq E /\ \A i \in At(E, v) : i.min = v
  BY DEF At
<1>5. ASSUME NEW v \in Nat, At(E, v) # {}
      PROVE  The(At(E, v)) \in E /\ The(At(E, v)).min = v /\ At(E, v) = {The(At(E, v))}
  BY <1>2, <1>3, <1>4, <1>5
<1> QED
  BY <1>1, <1>2, <1>5

Goods == {D \in SUBSET Intervals : Good(D)}
Upto(E, v, k) == \E i \in E : i.min < v /\ i.min <= k /\ k <= i.max
InNext(E, v, k) == At(E, v) # {} /\ v <= k /\ k <= The(At(E, v)).max

\* One interval more.
LEMMA UptoNext ==
    ASSUME NEW E, Good(E), NEW v \in Nat, NEW k \in Nat
    PROVE  ~Upto(E, 0, k) /\ (Upto(E, v + 1, k) <=> Upto(E, v, k) \/ InNext(E, v, k))
<1>1. \A i \in E : i.min \in Nat /\ i.max \in Nat
  BY Ends
<1>2. \A i \in E : i.min < v + 1 <=> i.min < v \/ i \in At(E, v)
  BY <1>1 DEF At
<1>3. ~Upto(E, 0, k)
  BY <1>1 DEF Upto
<1>4. CASE At(E, v) = {}
  BY <1>2, <1>3, <1>4 DEF Upto, InNext
<1>5. CASE At(E, v) # {}
  <2>1. PICK t \in E : t = The(At(E, v)) /\ t.min = v /\ At(E, v) = {t}
    BY <1>5, EndIs
  <2> QED
    BY <1>2, <1>3, <1>5, <2>1 DEF Upto, InNext
<1> QED
  BY <1>3, <1>4, <1>5

LEMMA AddAtIs ==
    ASSUME NEW D, Good(D), NEW E, Good(E), NEW v \in Nat
    PROVE  /\ Good(AddAt(D, E, v))
           /\ \A k \in Nat : Has(AddAt(D, E, v), k) <=> Has(D, k) \/ InNext(E, v, k)
<1>1. CASE At(E, v) = {}
  BY <1>1 DEF AddAt, InNext
<1>2. CASE At(E, v) # {}
  <2>1. PICK t \in E : t = The(At(E, v)) /\ t.min = v
    BY <1>2, EndIs
  <2>2. AddAt(D, E, v) = InsertRange(D, t.min, t.max)
    BY <1>2, <2>1 DEF AddAt
  <2>3. t.min \in Numbers /\ t.max \in Numbers /\ t.min <= t.max
    BY Ends
  <2>4. /\ Good(InsertRange(D, t.min, t.max))
        /\ \A k \in Nat : Has(InsertRange(D, t.min, t.max), k) <=> Has(D, k) \/ (t.min <= k /\ k <= t.max)
    BY <2>3, InsertRangeIs
  <2> QED
    BY <1>2, <2>1, <2>2, <2>4 DEF InNext
<1> QED
  BY <1>1, <1>2

LEMMA RemoveAtIs ==
    ASSUME NEW D, Good(D), NEW E, Good(E), NEW v \in Nat
    PROVE  /\ Good(RemoveAt(D, E, v))
           /\ \A k \in Nat : Has(RemoveAt(D, E, v), k) <=> Has(D, k) /\ ~InNext(E, v, k)
<1>1. CASE At(E, v) = {}
  BY <1>1 DEF RemoveAt, InNext
<1>2. CASE At(E, v) # {}
  <2>1. PICK t \in E : t = The(At(E, v)) /\ t.min = v
    BY <1>2, EndIs
  <2>2. RemoveAt(D, E, v) = RemoveRange(D, t.min, t.max)
    BY <1>2, <2>1 DEF RemoveAt
  <2>3. t.min \in Numbers /\ t.max \in Numbers /\ t.min <= t.max
    BY Ends
  <2>4. /\ Good(RemoveRange(D, t.min, t.max))
        /\ \A k \in Nat : Has(RemoveRange(D, t.min, t.max), k) <=> Has(D, k) /\ ~(t.min <= k /\ k <= t.max)
    BY <2>3, RemoveRangeIs
  <2> QED
    BY <1>2, <2>1, <2>2, <2>4 DEF InNext
<1> QED
  BY <1>1, <1>2

\* All the numbers of a set are those of the intervals up to its end.
LEMMA UptoEnd == ASSUME NEW E, Good(E), NEW k \in Nat PROVE Upto(E, End(E), k) <=> Has(E, k)
BY EndIs DEF Upto, Has

\* Adding a set of intervals is a union.
LEMMA AddAllIs ==
    ASSUME NEW D, Good(D), NEW E, Good(E)
    PROVE  /\ Good(AddAll(D, E))
           /\ \A k \in Nat : Has(AddAll(D, E), k) <=> Has(D, k) \/ Has(E, k)
<1>1. PICK n \in Nat : n = End(E)
  BY EndIs
<1>2. PICK s : s = [i \in 1..n |-> [X \in Goods |-> AddAt(X, E, i - 1)]]
  OBVIOUS
<1>3. s \in [1..n -> [Goods -> Goods]] /\ D \in Goods
  <2>1. ASSUME NEW i \in 1..n, NEW X \in Goods PROVE AddAt(X, E, i - 1) \in Goods
    BY AddAtIs DEF Goods, Good
  <2> QED
    BY <2>1, <1>2 DEF Goods, Good
<1>4. PICK g : Run(n, Goods, D, s, g)
  <2>1. s \in Moves(n, Goods)
    BY <1>3 DEF Moves
  <2> QED
    BY <2>1, <1>3, Iterates
<1>5. g \in [0..n -> Goods] /\ g[0] = D /\ \A i \in 1..n : g[i] = AddAt(g[i-1], E, i - 1)
  BY <1>2, <1>4 DEF Run
<1> DEFINE f == CHOOSE f : f = [v \in 0..End(E) |-> IF v = 0 THEN D ELSE AddAt(f[v - 1], E, v - 1)]
<1>6. AddAll(D, E) = f[n]
  BY <1>1 DEF AddAll
<1>7. f = [v \in 0..n |-> IF v = 0 THEN D ELSE AddAt(f[v - 1], E, v - 1)]
  <2>1. g = [v \in 0..n |-> IF v = 0 THEN D ELSE AddAt(g[v - 1], E, v - 1)]
    BY <1>5
  <2> QED
    BY <2>1, <1>1
<1> HIDE DEF f
<1>8. f[0] = D /\ \A i \in 1..n : f[i] = AddAt(f[i - 1], E, i - 1)
  BY <1>7
<1> DEFINE P(v) == Good(f[v]) /\ \A k \in Nat : Has(f[v], k) <=> Has(D, k) \/ Upto(E, v, k)
           S == {v \in 0..n : P(v)}
<1>9. 0 \in S
  BY <1>8, UptoNext
<1>10. ASSUME NEW i \in 1..n, i - 1 \in S PROVE i \in S
  <2>0. PICK v \in Nat : v = i - 1 /\ i = v + 1
    OBVIOUS
  <2>1. PICK F : F = f[v]
    OBVIOUS
  <2>2. Good(F) /\ \A k \in Nat : Has(F, k) <=> Has(D, k) \/ Upto(E, v, k)
    BY <1>10, <2>0, <2>1
  <2>3. f[i] = AddAt(F, E, v)
    BY <1>8, <2>0, <2>1
  <2>4. Good(AddAt(F, E, v)) /\ \A k \in Nat : Has(AddAt(F, E, v), k) <=> Has(F, k) \/ InNext(E, v, k)
    BY <2>2, AddAtIs
  <2>5. \A k \in Nat : Has(f[i], k) <=> Has(D, k) \/ Upto(E, v + 1, k)
    BY <2>2, <2>3, <2>4, UptoNext
  <2> QED
    BY <2>0, <2>3, <2>4, <2>5
<1>11. P(n)
  <2> HIDE DEF P
  <2>1. S \in SUBSET (0..n) /\ \A v \in S : P(v)
    OBVIOUS
  <2> HIDE DEF S
  <2>2. 0..n \subseteq S
    BY <1>9, <1>10, UpTo
  <2> QED
    BY <2>1, <2>2
<1> QED
  BY <1>1, <1>6, <1>11, UptoEnd

\* Removing one is a difference.
LEMMA RemoveAllIs ==
    ASSUME NEW D, Good(D), NEW E, Good(E)
    PROVE  /\ Good(RemoveAll(D, E))
           /\ \A k \in Nat : Has(RemoveAll(D, E), k) <=> Has(D, k) /\ ~Has(E, k)
<1>1. PICK n \in Nat : n = End(E)
  BY EndIs
<1>2. PICK s : s = [i \in 1..n |-> [X \in Goods |-> RemoveAt(X, E, i - 1)]]
  OBVIOUS
<1>3. s \in [1..n -> [Goods -> Goods]] /\ D \in Goods
  <2>1. ASSUME NEW i \in 1..n, NEW X \in Goods PROVE RemoveAt(X, E, i - 1) \in Goods
    BY RemoveAtIs DEF Goods, Good
  <2> QED
    BY <2>1, <1>2 DEF Goods, Good
<1>4. PICK g : Run(n, Goods, D, s, g)
  <2>1. s \in Moves(n, Goods)
    BY <1>3 DEF Moves
  <2> QED
    BY <2>1, <1>3, Iterates
<1>5. g \in [0..n -> Goods] /\ g[0] = D /\ \A i \in 1..n : g[i] = RemoveAt(g[i-1], E, i - 1)
  BY <1>2, <1>4 DEF Run
<1> DEFINE f == CHOOSE f : f = [v \in 0..End(E) |-> IF v = 0 THEN D ELSE RemoveAt(f[v - 1], E, v - 1)]
<1>6. RemoveAll(D, E) = f[n]
  BY <1>1 DEF RemoveAll
<1>7. f = [v \in 0..n |-> IF v = 0 THEN D ELSE RemoveAt(f[v - 1], E, v - 1)]
  <2>1. g = [v \in 0..n |-> IF v = 0 THEN D ELSE RemoveAt(g[v - 1], E, v - 1)]
    BY <1>5
  <2> QED
    BY <2>1, <1>1
<1> HIDE DEF f
<1>8. f[0] = D /\ \A i \in 1..n : f[i] = RemoveAt(f[i - 1], E, i - 1)
  BY <1>7
<1> DEFINE P(v) == Good(f[v]) /\ \A k \in Nat : Has(f[v], k) <=> Has(D, k) /\ ~Upto(E, v, k)
           S == {v \in 0..n : P(v)}
<1>9. 0 \in S
  BY <1>8, UptoNext
<1>10. ASSUME NEW i \in 1..n, i - 1 \in S PROVE i \in S
  <2>0. PICK v \in Nat : v = i - 1 /\ i = v + 1
    OBVIOUS
  <2>1. PICK F : F = f[v]
    OBVIOUS
  <2>2. Good(F) /\ \A k \in Nat : Has(F, k) <=> Has(D, k) /\ ~Upto(E, v, k)
    BY <1>10, <2>0, <2>1
  <2>3. f[i] = RemoveAt(F, E, v)
    BY <1>8, <2>0, <2>1
  <2>4. Good(RemoveAt(F, E, v)) /\ \A k \in Nat : Has(RemoveAt(F, E, v), k) <=> Has(F, k) /\ ~InNext(E, v, k)
    BY <2>2, RemoveAtIs
  <2>5. \A k \in Nat : Has(f[i], k) <=> Has(D, k) /\ ~Upto(E, v + 1, k)
    BY <2>2, <2>3, <2>4, UptoNext
  <2> QED
    BY <2>0, <2>3, <2>4, <2>5
<1>11. P(n)
  <2> HIDE DEF P
  <2>1. S \in SUBSET (0..n) /\ \A v \in S : P(v)
    OBVIOUS
  <2> HIDE DEF S
  <2>2. 0..n \subseteq S
    BY <1>9, <1>10, UpTo
  <2> QED
    BY <2>1, <2>2
<1> QED
  BY <1>1, <1>6, <1>11, UptoEnd

-----------------------------------------------------------------------------
IntervalInv == data \in [Sets -> [Devices -> Goods]]

\* The patches of a set whose intervals are those of a row.
LEMMA RowIs ==
    ASSUME NEW row \in [Devices -> Goods], NEW C, C = {p \in Devices \X Numbers : p[2] \in Members(row[p[1]])}
    PROVE  /\ C \subseteq Devices \X Numbers
           /\ \A d \in Devices, n \in Numbers : <<d, n>> \in C <=> Has(row[d], n)
<1>1. ASSUME NEW d \in Devices, NEW n \in Numbers PROVE <<d, n>> \in C <=> Has(row[d], n)
  <2>1. <<d, n>> \in C <=> n \in Members(row[d])
    OBVIOUS
  <2>2. n \in Members(row[d]) <=> \E i \in row[d] : n \in i.min .. i.max
    BY DEF Members
  <2>3. Good(row[d])
    BY DEF Goods
  <2>4. \A i \in row[d] : n \in i.min .. i.max <=> i.min <= n /\ n <= i.max
    BY <2>3, Ends, NumberIsNat
  <2> QED
    BY <2>1, <2>2, <2>4 DEF Has
<1> QED
  BY <1>1

LEMMA PatchesInIs ==
    ASSUME IntervalInv, NEW s \in Sets
    PROVE  /\ PatchesIn[s] \subseteq Devices \X Numbers
           /\ \A d \in Devices, n \in Numbers : <<d, n>> \in PatchesIn[s] <=> Has(data[s][d], n)
<1>1. PatchesIn[s] = {p \in Devices \X Numbers : p[2] \in Members(data[s][p[1]])}
  BY DEF PatchesIn
<1>2. data[s] \in [Devices -> Goods]
  BY DEF IntervalInv
<1> QED
  BY <1>1, <1>2, RowIs

LEMMA PatchesInNext ==
    ASSUME IntervalInv', NEW s \in Sets
    PROVE  /\ PatchesIn'[s] \subseteq Devices \X Numbers
           /\ \A d \in Devices, n \in Numbers : <<d, n>> \in PatchesIn'[s] <=> Has(data'[s][d], n)
<1>1. PatchesIn'[s] = {p \in Devices \X Numbers : p[2] \in Members(data'[s][p[1]])}
  BY DEF PatchesIn
<1>2. data'[s] \in [Devices -> Goods]
  BY DEF IntervalInv
<1> QED
  BY <1>1, <1>2, RowIs

\* Two sets with the same patches.
LEMMA SameContent ==
    ASSUME NEW A, NEW B, A \subseteq Devices \X Numbers, B \subseteq Devices \X Numbers,
           \A d \in Devices, n \in Numbers : <<d, n>> \in A <=> <<d, n>> \in B
    PROVE  A = B
<1>1. \A p \in Devices \X Numbers : \E d \in Devices, n \in Numbers : p = <<d, n>>
  OBVIOUS
<1> QED
  BY <1>1

\* What PutIn does to the patches of its set.
LEMMA PutInIs ==
    ASSUME IntervalInv, NEW s \in Sets, NEW d \in Devices, NEW D, Good(D), PutIn(s, d, D),
           NEW A, A \subseteq Devices \X Numbers,
           \A e \in Devices, n \in Numbers :
              <<e, n>> \in A <=> IF e = d THEN Has(D, n) ELSE <<e, n>> \in PatchesIn[s]
    PROVE  IntervalInv' /\ PatchesIn' = [PatchesIn EXCEPT ![s] = A]
<1>1. D \in Goods
  BY DEF Good, Goods
<1>2. data' = [data EXCEPT ![s][d] = D]
  BY DEF PutIn
<1>3. IntervalInv'
  BY <1>1, <1>2 DEF IntervalInv
<1>4. PatchesIn' = [t \in Sets |-> PatchesIn'[t]] /\ PatchesIn = [t \in Sets |-> PatchesIn[t]]
  BY DEF PatchesIn
<1>5. ASSUME NEW t \in Sets, t # s PROVE PatchesIn'[t] = PatchesIn[t]
  <2>1. data'[t] = data[t]
    BY <1>2, <1>5 DEF IntervalInv
  <2> QED
    BY <2>1 DEF PatchesIn
<1>6. PatchesIn'[s] = A
  <2>1. data'[s][d] = D /\ \A e \in Devices : e # d => data'[s][e] = data[s][e]
    BY <1>2 DEF IntervalInv
  <2>2. /\ PatchesIn'[s] \subseteq Devices \X Numbers
        /\ \A e \in Devices, n \in Numbers : <<e, n>> \in PatchesIn'[s] <=> Has(data'[s][e], n)
    BY <1>3, PatchesInNext
  <2>3. \A e \in Devices, n \in Numbers : <<e, n>> \in PatchesIn'[s] <=> <<e, n>> \in A
    BY <2>1, <2>2, PatchesInIs
  <2> QED
    BY <2>2, <2>3, SameContent
<1> QED
  BY <1>3, <1>4, <1>5, <1>6

\* Putting intervals that hold the same patches, or more of one device, or fewer.
LEMMA ChangeIs ==
    ASSUME IntervalInv, NEW s \in Sets, NEW d \in Devices, Change(s, d)
    PROVE  IntervalInv' /\ Patch!Next
<1>1. PICK lo \in Numbers, hi \in Numbers :
         /\ lo <= hi
         /\ \/ PutIn(s, d, InsertRange(data[s][d], lo, hi))
            \/ PutIn(s, d, RemoveRange(data[s][d], lo, hi))
  BY DEF Change
<1>2. Good(data[s][d]) /\ lo \in Nat /\ hi \in Nat
  BY NumberIsNat DEF IntervalInv, Goods
<1>3. lo .. hi \subseteq Numbers
  BY NumbersAssumption
<1>4. Patch!Patches(d, lo, hi) \subseteq Devices \X Numbers
      /\ \A e \in Devices, n \in Numbers : <<e, n>> \in Patch!Patches(d, lo, hi) <=> e = d /\ lo <= n /\ n <= hi
  BY <1>2, <1>3, NumberIsNat DEF Patch!Patches
<1>5. CASE PutIn(s, d, InsertRange(data[s][d], lo, hi))
  <2>1. PICK A : A = PatchesIn[s] \cup Patch!Patches(d, lo, hi)
    OBVIOUS
  <2>2. PICK D : D = InsertRange(data[s][d], lo, hi)
    OBVIOUS
  <2>3. Good(D) /\ \A n \in Nat : Has(D, n) <=> Has(data[s][d], n) \/ (lo <= n /\ n <= hi)
    BY <1>1, <1>2, <2>2, InsertRangeIs
  <2>4. \A e \in Devices, n \in Numbers :
           <<e, n>> \in A <=> IF e = d THEN Has(D, n) ELSE <<e, n>> \in PatchesIn[s]
    BY <2>1, <2>3, <1>4, PatchesInIs, NumberIsNat
  <2>5. A \subseteq Devices \X Numbers
    BY <2>1, <1>4, PatchesInIs
  <2>6. IntervalInv' /\ PatchesIn' = [PatchesIn EXCEPT ![s] = A]
    BY <1>5, <2>2, <2>3, <2>4, <2>5, PutInIs
  <2>7. Patch!Add(s, d, lo, hi)
    BY <2>1, <2>6 DEF Patch!Add
  <2> QED
    BY <2>6, <2>7 DEF Patch!Next
<1>6. CASE PutIn(s, d, RemoveRange(data[s][d], lo, hi))
  <2>1. PICK A : A = PatchesIn[s] \ Patch!Patches(d, lo, hi)
    OBVIOUS
  <2>2. PICK D : D = RemoveRange(data[s][d], lo, hi)
    OBVIOUS
  <2>3. Good(D) /\ \A n \in Nat : Has(D, n) <=> Has(data[s][d], n) /\ ~(lo <= n /\ n <= hi)
    BY <1>1, <1>2, <2>2, RemoveRangeIs
  <2>4. \A e \in Devices, n \in Numbers :
           <<e, n>> \in A <=> IF e = d THEN Has(D, n) ELSE <<e, n>> \in PatchesIn[s]
    BY <2>1, <2>3, <1>4, PatchesInIs, NumberIsNat
  <2>5. A \subseteq Devices \X Numbers
    BY <2>1, PatchesInIs
  <2>6. IntervalInv' /\ PatchesIn' = [PatchesIn EXCEPT ![s] = A]
    BY <1>6, <2>2, <2>3, <2>4, <2>5, PutInIs
  <2>7. Patch!Remove(s, d, lo, hi)
    BY <2>1, <2>6 DEF Patch!Remove
  <2> QED
    BY <2>6, <2>7 DEF Patch!Next
<1> QED
  BY <1>1, <1>5, <1>6

LEMMA OnePatchIs ==
    ASSUME IntervalInv, NEW s \in Sets, NEW d \in Devices, NEW v \in Numbers,
           AddPatch(s, d, v) \/ RemovePatch(s, d, v)
    PROVE  IntervalInv' /\ Patch!Next
<1>2. Good(data[s][d]) /\ v \in Nat
  BY NumberIsNat DEF IntervalInv, Goods
<1>4. Patch!Patches(d, v, v) \subseteq Devices \X Numbers
      /\ \A e \in Devices, n \in Numbers : <<e, n>> \in Patch!Patches(d, v, v) <=> e = d /\ n = v
  BY <1>2, NumberIsNat DEF Patch!Patches
<1>5. CASE AddPatch(s, d, v)
  <2>1. PICK A : A = PatchesIn[s] \cup Patch!Patches(d, v, v)
    OBVIOUS
  <2>2. PICK D : D = InsertValue(data[s][d], v) /\ PutIn(s, d, D)
    BY <1>5 DEF AddPatch
  <2>3. Good(D) /\ \A n \in Nat : Has(D, n) <=> Has(data[s][d], n) \/ n = v
    BY <1>2, <2>2, InsertValueIs
  <2>4. \A e \in Devices, n \in Numbers :
           <<e, n>> \in A <=> IF e = d THEN Has(D, n) ELSE <<e, n>> \in PatchesIn[s]
    BY <2>1, <2>3, <1>4, PatchesInIs, NumberIsNat
  <2>5. A \subseteq Devices \X Numbers
    BY <2>1, <1>4, PatchesInIs
  <2>6. IntervalInv' /\ PatchesIn' = [PatchesIn EXCEPT ![s] = A]
    BY <2>2, <2>3, <2>4, <2>5, PutInIs
  <2>7. Patch!Add(s, d, v, v)
    BY <2>1, <2>6 DEF Patch!Add
  <2> QED
    BY <2>6, <2>7 DEF Patch!Next
<1>6. CASE RemovePatch(s, d, v)
  <2>1. PICK A : A = PatchesIn[s] \ Patch!Patches(d, v, v)
    OBVIOUS
  <2>2. PICK D : D = RemoveValue(data[s][d], v) /\ PutIn(s, d, D)
    BY <1>6 DEF RemovePatch
  <2>3. Good(D) /\ \A n \in Nat : Has(D, n) <=> Has(data[s][d], n) /\ n # v
    BY <1>2, <2>2, RemoveValueIs
  <2>4. \A e \in Devices, n \in Numbers :
           <<e, n>> \in A <=> IF e = d THEN Has(D, n) ELSE <<e, n>> \in PatchesIn[s]
    BY <2>1, <2>3, <1>4, PatchesInIs, NumberIsNat
  <2>5. A \subseteq Devices \X Numbers
    BY <2>1, PatchesInIs
  <2>6. IntervalInv' /\ PatchesIn' = [PatchesIn EXCEPT ![s] = A]
    BY <2>2, <2>3, <2>4, <2>5, PutInIs
  <2>7. Patch!Remove(s, d, v, v)
    BY <2>1, <2>6 DEF Patch!Remove
  <2> QED
    BY <2>6, <2>7 DEF Patch!Next
<1> QED
  BY <1>5, <1>6

LEMMA PopIs ==
    ASSUME IntervalInv, NEW s \in Sets, NEW d \in Devices, Pop(s, d)
    PROVE  IntervalInv' /\ Patch!Next
<1>1. Good(data[s][d]) /\ data[s][d] # {}
  BY DEF IntervalInv, Goods, Pop
<1>2. PICK D : D = WithoutFirst(data[s][d]) /\ PutIn(s, d, D)
  BY DEF Pop
<1>3. PICK v \in Numbers :
         /\ Has(data[s][d], v) /\ \A n \in Nat : Has(data[s][d], n) => v <= n
         /\ Good(D) /\ \A n \in Nat : Has(D, n) <=> Has(data[s][d], n) /\ n # v
  BY <1>1, <1>2, WithoutFirstIs
<1>4. PICK A : A = PatchesIn[s] \ {<<d, v>>}
  OBVIOUS
<1>5. \A e \in Devices, n \in Numbers :
         <<e, n>> \in A <=> IF e = d THEN Has(D, n) ELSE <<e, n>> \in PatchesIn[s]
  BY <1>3, <1>4, PatchesInIs, NumberIsNat
<1>6. A \subseteq Devices \X Numbers
  BY <1>4, PatchesInIs
<1>7. IntervalInv' /\ PatchesIn' = [PatchesIn EXCEPT ![s] = A]
  BY <1>2, <1>3, <1>5, <1>6, PutInIs
<1>8. <<d, v>> \in PatchesIn[s] /\ \A k \in Numbers : <<d, k>> \in PatchesIn[s] => v <= k
  BY <1>3, PatchesInIs, NumberIsNat
<1>9. Patch!First(s, d, v)
  BY <1>4, <1>7, <1>8 DEF Patch!First
<1> QED
  BY <1>7, <1>9 DEF Patch!Next

\* All the devices of a set change at once.
LEMMA AllIs ==
    ASSUME IntervalInv, NEW s \in Sets, NEW row \in [Devices -> Goods], data' = [data EXCEPT ![s] = row],
           NEW A, A \subseteq Devices \X Numbers,
           \A e \in Devices, n \in Numbers : <<e, n>> \in A <=> Has(row[e], n)
    PROVE  IntervalInv' /\ PatchesIn' = [PatchesIn EXCEPT ![s] = A]
<1>3. IntervalInv'
  BY DEF IntervalInv
<1>4. PatchesIn' = [t \in Sets |-> PatchesIn'[t]] /\ PatchesIn = [t \in Sets |-> PatchesIn[t]]
  BY DEF PatchesIn
<1>5. ASSUME NEW t \in Sets, t # s PROVE PatchesIn'[t] = PatchesIn[t]
  <2>1. data'[t] = data[t]
    BY <1>5 DEF IntervalInv
  <2> QED
    BY <2>1 DEF PatchesIn
<1>6. PatchesIn'[s] = A
  <2>1. data'[s] = row
    BY DEF IntervalInv
  <2>2. /\ PatchesIn'[s] \subseteq Devices \X Numbers
        /\ \A e \in Devices, n \in Numbers : <<e, n>> \in PatchesIn'[s] <=> Has(data'[s][e], n)
    BY <1>3, PatchesInNext
  <2>3. \A e \in Devices, n \in Numbers : <<e, n>> \in PatchesIn'[s] <=> <<e, n>> \in A
    BY <2>1, <2>2
  <2> QED
    BY <2>2, <2>3, SameContent
<1> QED
  BY <1>3, <1>4, <1>5, <1>6

LEMMA WholeSetIs ==
    ASSUME IntervalInv, NEW s \in Sets, NEW t \in Sets, AddSet(s, t) \/ RemoveSet(s, t)
    PROVE  IntervalInv' /\ Patch!Next
<1>1. \A d \in Devices : Good(data[s][d]) /\ Good(data[t][d])
  BY DEF IntervalInv, Goods
<1>2. CASE AddSet(s, t)
  <2>1. PICK row : row = [d \in Devices |-> AddAll(data[s][d], data[t][d])]
    OBVIOUS
  <2>2. data' = [data EXCEPT ![s] = row]
    BY <1>2, <2>1 DEF AddSet, IntervalInv
  <2>3. \A d \in Devices : row[d] \in Goods
        /\ \A n \in Nat : Has(row[d], n) <=> Has(data[s][d], n) \/ Has(data[t][d], n)
    BY <1>1, <2>1, AddAllIs DEF Goods, Good
  <2>4. PICK A : A = PatchesIn[s] \cup PatchesIn[t]
    OBVIOUS
  <2>5. A \subseteq Devices \X Numbers /\ \A e \in Devices, n \in Numbers : <<e, n>> \in A <=> Has(row[e], n)
    BY <2>3, <2>4, PatchesInIs, NumberIsNat
  <2>6. row \in [Devices -> Goods]
    BY <2>1, <2>3
  <2>7. IntervalInv' /\ PatchesIn' = [PatchesIn EXCEPT ![s] = A]
    BY <2>2, <2>5, <2>6, AllIs
  <2>8. Patch!Union(s, t)
    BY <2>4, <2>7 DEF Patch!Union
  <2> QED
    BY <2>7, <2>8 DEF Patch!Next
<1>3. CASE RemoveSet(s, t)
  <2>1. PICK row : row = [d \in Devices |-> RemoveAll(data[s][d], data[t][d])]
    OBVIOUS
  <2>2. data' = [data EXCEPT ![s] = row]
    BY <1>3, <2>1 DEF RemoveSet, IntervalInv
  <2>3. \A d \in Devices : row[d] \in Goods
        /\ \A n \in Nat : Has(row[d], n) <=> Has(data[s][d], n) /\ ~Has(data[t][d], n)
    BY <1>1, <2>1, RemoveAllIs DEF Goods, Good
  <2>4. PICK A : A = PatchesIn[s] \ PatchesIn[t]
    OBVIOUS
  <2>5. A \subseteq Devices \X Numbers /\ \A e \in Devices, n \in Numbers : <<e, n>> \in A <=> Has(row[e], n)
    BY <2>3, <2>4, PatchesInIs, NumberIsNat
  <2>6. row \in [Devices -> Goods]
    BY <2>1, <2>3
  <2>7. IntervalInv' /\ PatchesIn' = [PatchesIn EXCEPT ![s] = A]
    BY <2>2, <2>5, <2>6, AllIs
  <2>8. Patch!Minus(s, t)
    BY <2>4, <2>7 DEF Patch!Minus
  <2> QED
    BY <2>7, <2>8 DEF Patch!Next
<1> QED
  BY <1>2, <1>3

LEMMA IntervalInitIs == IntervalInit => IntervalInv /\ Patch!Init
<1> SUFFICES ASSUME IntervalInit PROVE IntervalInv /\ Patch!Init
  OBVIOUS
<1>1. {} \in Goods
  <2>1. \E b \in Nat : TRUE
    BY SMT
  <2> QED
    BY <2>1 DEF Goods, Good, Apart, Bounded
<1>2. IntervalInv
  BY <1>1 DEF IntervalInit, IntervalInv
<1>3. PatchesIn = [s \in Sets |-> {}]
  BY DEF IntervalInit, PatchesIn, Members
<1> QED
  BY <1>2, <1>3 DEF Patch!Init

LEMMA IntervalStep == ASSUME IntervalInv, [IntervalNext]_data PROVE IntervalInv' /\ [Patch!Next]_PatchesIn
<1>1. ASSUME NEW s \in Sets, NEW d \in Devices, Change(s, d) \/ Pop(s, d)
      PROVE  IntervalInv' /\ [Patch!Next]_PatchesIn
  BY <1>1, ChangeIs, PopIs
<1>2. ASSUME NEW s \in Sets, NEW d \in Devices, NEW n \in Numbers, AddPatch(s, d, n) \/ RemovePatch(s, d, n)
      PROVE  IntervalInv' /\ [Patch!Next]_PatchesIn
  BY <1>2, OnePatchIs
<1>3. ASSUME NEW s \in Sets, NEW t \in Sets, AddSet(s, t) \/ RemoveSet(s, t)
      PROVE  IntervalInv' /\ [Patch!Next]_PatchesIn
  BY <1>3, WholeSetIs
<1>4. CASE UNCHANGED data
  BY <1>4 DEF IntervalInv, PatchesIn
<1> QED
  BY <1>1, <1>2, <1>3, <1>4 DEF IntervalNext

\* The intervals of a set never meet nor touch: IntervalSet.h, whatever the
\* insertions, the removals and the order they come in.
THEOREM IntervalsNeverTouch == IntervalSpec => []IntervalsApart
<1>1. IntervalInv => IntervalsApart
  BY DEF IntervalInv, IntervalsApart, Goods, Good
<1>2. IntervalInit => IntervalInv
  BY IntervalInitIs
<1>3. IntervalInv /\ [IntervalNext]_data => IntervalInv'
  BY IntervalStep
<1> QED
  BY <1>1, <1>2, <1>3, PTL DEF IntervalSpec

\* The intervals implement the sets of patches: each operation of SetOfPatchId
\* is the one on sets, for all numbers, devices and sets.
THEOREM IntervalsAreSets == IntervalSpec => ImplementsPatchSets
<1>1. IntervalInit => IntervalInv /\ Patch!Init
  BY IntervalInitIs
<1>2. IntervalInv /\ [IntervalNext]_data => IntervalInv' /\ [Patch!Next]_PatchesIn
  BY IntervalStep
<1> QED
  BY <1>1, <1>2, PTL DEF IntervalSpec, ImplementsPatchSets, Patch!Spec

-----------------------------------------------------------------------------
(* Udp: each datagram that was flushed has been sent once or waits once.   *)

Sockets == [room : Nat, broken : BOOLEAN, gone : BOOLEAN, wants : BOOLEAN, ok : BOOLEAN,
            last : Addrs \cup {NoAddr}, prev : [Addrs -> Addrs \cup {NoAddr}],
            pending : [Addrs -> Seq(Nat)], net : Seq(Addrs \X Nat)]
Counts == [Addrs -> Nat]

InNet(u, a, m) == \E i \in DOMAIN u.net : u.net[i] = <<a, m>>
InPending(u, a, m) == \E i \in DOMAIN u.pending[a] : u.pending[a][i] = m

\* The datagrams 1..k[a] of each connection.
NetIsRight(u, k) ==
    /\ \A i, j \in DOMAIN u.net : u.net[i] = u.net[j] => i = j
    /\ \A a \in Addrs, m \in Nat : InNet(u, a, m) => 1 <= m /\ m <= k[a]
QueueIsRight(u, k, a) ==
    /\ \A i \in DOMAIN u.pending[a] : 1 <= u.pending[a][i] /\ u.pending[a][i] <= k[a]
    /\ \A i, j \in DOMAIN u.pending[a] : i < j => u.pending[a][i] < u.pending[a][j]
    /\ \A m \in 1 .. k[a] : InNet(u, a, m) <=> ~InPending(u, a, m)
Right(u, k) == NetIsRight(u, k) /\ \A a \in Addrs : QueueIsRight(u, k, a)

\* A connection where some wait is linked; the list is the links of S, from its last one.
IsLinked(u, a) == u.pending[a] # <<>> /\ ~u.gone => u.prev[a] # NoAddr
Chain(prev, S, c) ==
    /\ S \in SUBSET Addrs /\ c \in S
    /\ \A a \in S : prev[a] \in S
    /\ \A a \in S : prev[a] = c => a = c
    /\ \A a, b \in S : prev[a] = prev[b] /\ a # prev[a] /\ b # prev[b] => a = b
IsList(u) == u.last = NoAddr \/ \E S \in SUBSET Addrs : Chain(u.prev, S, u.last)

LEMMA ToListIs ==
    ASSUME NEW u \in Sockets, NEW a \in Addrs
    PROVE  /\ ToList(u, a) \in Sockets
           /\ ToList(u, a) = [u EXCEPT !.prev = ToList(u, a).prev, !.last = ToList(u, a).last]
           /\ ToList(u, a).prev[a] # NoAddr
           /\ \A b \in Addrs : b # a => ToList(u, a).prev[b] = u.prev[b]
           /\ IsList(u) => IsList(ToList(u, a))
<1>1. CASE u.prev[a] # NoAddr
  <2>1. ToList(u, a) = u
    BY <1>1 DEF ToList
  <2> QED
    BY <1>1, <2>1 DEF Sockets
<1>2. CASE u.prev[a] = NoAddr
  <2>1. PICK v : v = ToList(u, a)
    OBVIOUS
  <2>2. PICK l : l = IF u.last = NoAddr THEN a ELSE u.last
    OBVIOUS
  <2>3. v = [u EXCEPT !.prev[a] = l, !.last = a]
    BY <1>2, <2>1, <2>2 DEF ToList
  <2>4. l \in Addrs /\ a # NoAddr /\ l # NoAddr
    BY <2>2, UdpAssumption DEF Sockets
  <2>5. v \in Sockets /\ v = [u EXCEPT !.prev = v.prev, !.last = v.last] /\ v.last = a
        /\ v.prev \in [Addrs -> Addrs \cup {NoAddr}] /\ v.prev[a] = l
        /\ \A b \in Addrs : b # a => v.prev[b] = u.prev[b]
    BY <2>3, <2>4 DEF Sockets
  <2>6. ASSUME IsList(u) PROVE IsList(v)
    <3>1. CASE u.last = NoAddr
      <4>1. Chain(v.prev, {a}, a)
        BY <2>2, <2>5, <3>1 DEF Chain
      <4> QED
        BY <4>1, <2>5 DEF IsList
    <3>2. CASE u.last # NoAddr
      <4>1. PICK S \in SUBSET Addrs : Chain(u.prev, S, u.last)
        BY <2>6, <3>2 DEF IsList
      <4>2. a \notin S /\ l = u.last
        BY <4>1, <1>2, <2>2, <3>2, UdpAssumption DEF Chain
      <4>3. Chain(v.prev, S \cup {a}, a)
        BY <4>1, <4>2, <2>5 DEF Chain
      <4> QED
        BY <4>3, <2>5 DEF IsList
    <3> QED
      BY <3>1, <3>2
  <2> QED
    BY <2>1, <2>4, <2>5, <2>6
<1> QED
  BY <1>1, <1>2

\* What sending does that is not a datagram on its way.
LEMMA RefusedIs ==
    ASSUME NEW u \in Sockets, NEW a \in Addrs, NEW m \in Nat, u.broken \/ u.room = 0
    PROVE  /\ SendData(u, a, m) \in Sockets
           /\ SendData(u, a, m).net = u.net /\ SendData(u, a, m).pending = u.pending
           /\ ~SendData(u, a, m).ok
           /\ SendData(u, a, m).gone \/ SendData(u, a, m).prev[a] # NoAddr
           /\ u.gone => SendData(u, a, m).gone
           /\ \A b \in Addrs : b # a => SendData(u, a, m).prev[b] = u.prev[b]
           /\ IsList(u) => IsList(SendData(u, a, m))
<1>1. CASE u.broken
  <2>1. PICK v : v = [u EXCEPT !.gone = TRUE, !.ok = FALSE]
    OBVIOUS
  <2>2. SendData(u, a, m) = v
    BY <1>1, <2>1 DEF SendData
  <2>3. v \in Sockets /\ v.net = u.net /\ v.pending = u.pending /\ ~v.ok /\ v.gone /\ v.prev = u.prev /\ v.last = u.last
    BY <2>1 DEF Sockets
  <2> QED
    BY <2>2, <2>3 DEF IsList
<1>2. CASE ~u.broken
  <2>0. PICK t : t = ToList(u, a)
    OBVIOUS
  <2>1. PICK v : v = [t EXCEPT !.wants = TRUE, !.ok = FALSE]
    OBVIOUS
  <2>2. SendData(u, a, m) = v
    BY <1>2, <2>0, <2>1 DEF SendData
  <2>3. t \in Sockets /\ t = [u EXCEPT !.prev = t.prev, !.last = t.last]
        /\ t.prev[a] # NoAddr /\ (\A b \in Addrs : b # a => t.prev[b] = u.prev[b])
        /\ (IsList(u) => IsList(t))
    BY <2>0, ToListIs
  <2>4. v \in Sockets /\ v.net = u.net /\ v.pending = u.pending /\ ~v.ok /\ v.gone = u.gone
        /\ v.prev = t.prev /\ v.last = t.last
    BY <2>1, <2>3 DEF Sockets
  <2> QED
    BY <2>2, <2>3, <2>4 DEF IsList
<1> QED
  BY <1>1, <1>2

\* Nothing has moved.
LEMMA RightStays ==
    ASSUME NEW u, NEW v, NEW k, v.net = u.net, v.pending = u.pending, Right(u, k)
    PROVE  Right(v, k)
BY DEF Right, NetIsRight, QueueIsRight, InNet, InPending

LEMMA Appending ==
    ASSUME NEW T, NEW s \in Seq(T), NEW x \in T
    PROVE  /\ Append(s, x) \in Seq(T) /\ Len(Append(s, x)) = Len(s) + 1
           /\ DOMAIN Append(s, x) = 1..Len(s) + 1
           /\ Append(s, x)[Len(s) + 1] = x
           /\ \A i \in 1..Len(s) : Append(s, x)[i] = s[i]
OBVIOUS

\* The next datagram of a is sent, or waits after those that do.
LEMMA SentIs ==
    ASSUME NEW u \in Sockets, NEW k \in Counts, NEW a \in Addrs, NEW v \in Sockets, Right(u, k),
           v.net = Append(u.net, <<a, k[a] + 1>>), v.pending = u.pending
    PROVE  Right(v, [k EXCEPT ![a] = @ + 1])
<1> DEFINE l == [k EXCEPT ![a] = @ + 1]
<1>0. PICK n \in Nat : n = Len(u.net)
  BY DEF Sockets
<1>1. n \in Nat /\ u.net \in Seq(Addrs \X Nat) /\ DOMAIN u.net = 1..n /\ k[a] \in Nat /\ k[a] + 1 \in Nat
  BY <1>0 DEF Sockets, Counts
<1>2. /\ DOMAIN v.net = 1..n + 1 /\ v.net[n + 1] = <<a, k[a] + 1>>
      /\ \A i \in 1..n : v.net[i] = u.net[i]
  BY <1>1
<1>3. l \in Counts /\ l[a] = k[a] + 1 /\ \A b \in Addrs : b # a => l[b] = k[b]
  BY <1>1 DEF Counts
<1>4. ASSUME NEW b \in Addrs, NEW m \in Nat
      PROVE  InNet(v, b, m) <=> InNet(u, b, m) \/ (b = a /\ m = k[a] + 1)
  <2>1. InNet(v, b, m) => InNet(u, b, m) \/ (b = a /\ m = k[a] + 1)
    <3>1. ASSUME NEW i \in 1..n + 1, v.net[i] = <<b, m>>
          PROVE  InNet(u, b, m) \/ (b = a /\ m = k[a] + 1)
      <4>1. CASE i = n + 1
        BY <3>1, <4>1, <1>2
      <4>2. CASE i \in 1..n
        BY <3>1, <4>2, <1>1, <1>2 DEF InNet
      <4> QED
        BY <4>1, <4>2
    <3> QED
      BY <3>1, <1>2 DEF InNet
  <2>2. \A i \in 1..n : i \in 1..n + 1
    OBVIOUS
  <2>3. InNet(u, b, m) => InNet(v, b, m)
    BY <2>2, <1>1, <1>2 DEF InNet
  <2>4. n + 1 \in 1..n + 1
    OBVIOUS
  <2>5. InNet(v, a, k[a] + 1)
    BY <2>4, <1>2 DEF InNet
  <2> QED
    BY <2>1, <2>3, <2>5
<1>5. ~InNet(u, a, k[a] + 1)
  BY <1>1 DEF Right, NetIsRight
<1> HIDE DEF l
<1>6. NetIsRight(v, l)
  <2>1. \A i, j \in DOMAIN v.net : v.net[i] = v.net[j] => i = j
    <3>1. \A i \in 1..n : u.net[i] # <<a, k[a] + 1>>
      BY <1>1, <1>5 DEF InNet
    <3>2. \A i, j \in 1..n : u.net[i] = u.net[j] => i = j
      BY <1>1 DEF Right, NetIsRight
    <3> QED
      BY <1>1, <1>2, <3>1, <3>2
  <2>2. \A b \in Addrs, m \in Nat : InNet(v, b, m) => 1 <= m /\ m <= l[b]
    BY <1>1, <1>3, <1>4 DEF Right, NetIsRight, Counts
  <2> QED
    BY <2>1, <2>2 DEF NetIsRight
<1>7. ASSUME NEW b \in Addrs PROVE QueueIsRight(v, l, b)
  <2>1. QueueIsRight(u, k, b) /\ k[b] \in Nat
    BY DEF Right, Counts
  <2>2. u.pending[b] \in Seq(Nat)
    BY DEF Sockets
  <2>3. \A i \in DOMAIN u.pending[b] : u.pending[b][i] \in Nat
    BY <2>2
  <2>4. \A m \in Nat : InPending(v, b, m) <=> InPending(u, b, m)
    BY DEF InPending
  <2>5. ~InPending(u, a, k[a] + 1)
    <3>1. \A i \in DOMAIN u.pending[a] : u.pending[a][i] \in Nat /\ u.pending[a][i] <= k[a]
      BY DEF Right, QueueIsRight, Sockets
    <3> QED
      BY <1>1, <3>1 DEF InPending
  <2>6. \A m \in 1..l[b] : InNet(v, b, m) <=> ~InPending(v, b, m)
    <3>1. \A m \in 1..k[b] : InNet(u, b, m) <=> ~InPending(u, b, m)
      BY <2>1 DEF QueueIsRight
    <3>2. ASSUME NEW m \in 1..l[b] PROVE InNet(v, b, m) <=> ~InPending(v, b, m)
      <4>0. m \in Nat
        OBVIOUS
      <4>1. CASE b = a /\ m = k[a] + 1
        BY <4>0, <4>1, <1>4, <2>4, <2>5
      <4>2. CASE ~(b = a /\ m = k[a] + 1)
        <5>1. m \in 1..k[b]
          BY <4>2, <1>1, <1>3, <2>1
        <5> QED
          BY <4>0, <4>2, <5>1, <1>4, <2>4, <3>1
      <4> QED
        BY <4>1, <4>2
    <3> QED
      BY <3>2
  <2>7. \A i \in DOMAIN u.pending[b] : u.pending[b][i] <= l[b]
    BY <2>1, <2>3, <1>3 DEF QueueIsRight
  <2> QED
    BY <2>1, <2>6, <2>7 DEF QueueIsRight
<1> QED
  BY <1>6, <1>7 DEF Right, l

LEMMA WaitsIs ==
    ASSUME NEW u \in Sockets, NEW k \in Counts, NEW a \in Addrs, NEW v \in Sockets, Right(u, k),
           v.net = u.net, v.pending = [u.pending EXCEPT ![a] = Append(@, k[a] + 1)]
    PROVE  Right(v, [k EXCEPT ![a] = @ + 1])
<1> DEFINE l == [k EXCEPT ![a] = @ + 1]
<1>0. PICK n \in Nat : n = Len(u.pending[a])
  BY DEF Sockets
<1>1. n \in Nat /\ u.pending[a] \in Seq(Nat) /\ DOMAIN u.pending[a] = 1..n /\ k[a] \in Nat /\ k[a] + 1 \in Nat
  BY <1>0 DEF Sockets, Counts
<1>2. /\ DOMAIN v.pending[a] = 1..n + 1 /\ v.pending[a][n + 1] = k[a] + 1
      /\ \A i \in 1..n : v.pending[a][i] = u.pending[a][i]
      /\ \A b \in Addrs : b # a => v.pending[b] = u.pending[b]
  <2>1. v.pending[a] = Append(u.pending[a], k[a] + 1) /\ \A b \in Addrs : b # a => v.pending[b] = u.pending[b]
    BY DEF Sockets
  <2> QED
    BY <2>1, <1>0, <1>1, Appending
<1>3. l \in Counts /\ l[a] = k[a] + 1 /\ \A b \in Addrs : b # a => l[b] = k[b]
  BY <1>1 DEF Counts
<1>4. \A b \in Addrs, m \in Nat : InNet(v, b, m) <=> InNet(u, b, m)
  BY DEF InNet
<1>5. ~InNet(u, a, k[a] + 1)
  BY <1>1 DEF Right, NetIsRight
<1>6. \A m \in Nat : InPending(v, a, m) <=> InPending(u, a, m) \/ m = k[a] + 1
  BY <1>1, <1>2 DEF InPending
<1> HIDE DEF l
<1>7. NetIsRight(v, l)
  BY <1>1, <1>3, <1>4 DEF Right, NetIsRight, Counts
<1>8. ASSUME NEW b \in Addrs, b # a PROVE QueueIsRight(v, l, b)
  <2>1. \A m \in Nat : InPending(v, b, m) <=> InPending(u, b, m)
    BY <1>2, <1>8 DEF InPending
  <2>2. QueueIsRight(u, k, b) /\ k[b] \in Nat
    BY DEF Right, Counts
  <2> QED
    BY <2>1, <2>2, <1>2, <1>3, <1>4, <1>8 DEF QueueIsRight
<1>9. QueueIsRight(v, l, a)
  <2>1. QueueIsRight(u, k, a)
    BY DEF Right
  <2>2. \A i \in 1..n : u.pending[a][i] \in Nat
    BY <1>1
  <2>3. \A i \in DOMAIN v.pending[a] : 1 <= v.pending[a][i] /\ v.pending[a][i] <= l[a]
    BY <2>1, <2>2, <1>1, <1>2, <1>3 DEF QueueIsRight
  <2>4. \A i, j \in DOMAIN v.pending[a] : i < j => v.pending[a][i] < v.pending[a][j]
    BY <2>1, <2>2, <1>1, <1>2 DEF QueueIsRight
  <2>5. \A m \in 1..l[a] : InNet(v, a, m) <=> ~InPending(v, a, m)
    <3>1. ASSUME NEW m \in 1..l[a] PROVE InNet(v, a, m) <=> ~InPending(v, a, m)
      <4>0. m \in Nat
        OBVIOUS
      <4>1. CASE m = k[a] + 1
        BY <4>0, <4>1, <1>4, <1>5, <1>6
      <4>2. CASE m # k[a] + 1
        <5>1. m \in 1..k[a]
          BY <4>2, <1>1, <1>3
        <5> QED
          BY <4>0, <4>2, <5>1, <1>4, <1>6, <2>1 DEF QueueIsRight
      <4> QED
        BY <4>1, <4>2
    <3> QED
      BY <3>1
  <2> QED
    BY <2>3, <2>4, <2>5 DEF QueueIsRight
<1> QED
  BY <1>7, <1>8, <1>9 DEF Right, l

LEMMA Later == ASSUME NEW L \in Nat, NEW n \in Nat, NEW i \in 1..L + n, i \notin 1..L
               PROVE  \E j \in 1..n : i = L + j
<1>1. i - L \in 1..n /\ i = L + (i - L)
  OBVIOUS
<1> QED
  BY <1>1

LEMMA Joining ==
    ASSUME NEW T, NEW s \in Seq(T), NEW t \in Seq(T)
    PROVE  /\ s \o t \in Seq(T) /\ Len(s \o t) = Len(s) + Len(t)
           /\ \A i \in 1..Len(s) : (s \o t)[i] = s[i]
           /\ \A i \in 1..Len(t) : (s \o t)[Len(s) + i] = t[i]
<1>1. Len(s) \in Nat /\ Len(t) \in Nat
  OBVIOUS
<1>2. \A i \in 1..Len(t) : Len(s) + i > Len(s) /\ Len(s) + i - Len(s) = i /\ Len(s) + i \in 1..Len(s) + Len(t)
  BY <1>1
<1> QED
  BY <1>1, <1>2

\* The first n that wait at a are sent.
LEMMA UnqueuedIs ==
    ASSUME NEW u \in Sockets, NEW k \in Counts, NEW a \in Addrs, Right(u, k),
           NEW n \in Nat, n <= u.room, n <= Len(u.pending[a])
    PROVE  /\ Unqueued(u, a, n) \in Sockets /\ Right(Unqueued(u, a, n), k)
           /\ Len(Unqueued(u, a, n).pending[a]) = Len(u.pending[a]) - n
           /\ Unqueued(u, a, n).room = u.room - n
           /\ Unqueued(u, a, n).prev = u.prev /\ Unqueued(u, a, n).last = u.last
           /\ Unqueued(u, a, n).gone = u.gone /\ Unqueued(u, a, n).broken = u.broken
           /\ \A b \in Addrs : b # a => Unqueued(u, a, n).pending[b] = u.pending[b]
<1>0. PICK N \in Seq(Addrs \X Nat), Q \in Seq(Nat) : N = u.net /\ Q = u.pending[a]
  BY DEF Sockets
<1>3. PICK L \in Nat, P \in Nat : /\ L = Len(N) /\ P = Len(Q) /\ DOMAIN N = 1..L /\ DOMAIN Q = 1..P
                                  /\ n <= P /\ \A i \in 1..P : Q[i] \in Nat
  <2>1. n <= Len(Q) /\ Len(Q) \in Nat /\ Len(N) \in Nat
    BY <1>0
  <2>2. DOMAIN N = 1..Len(N) /\ DOMAIN Q = 1..Len(Q) /\ \A i \in 1..Len(Q) : Q[i] \in Nat
    OBVIOUS
  <2> QED
    BY <2>1, <2>2
<1>4. PICK t \in Seq(Addrs \X Nat) : Len(t) = n /\ \A i \in 1..n : t[i] = <<a, Q[i]>>
  <2>1. \A i \in 1..n : <<a, Q[i]>> \in Addrs \X Nat
    BY <1>0, <1>3
  <2> DEFINE t == [i \in 1 .. n |-> <<a, Q[i]>>]
  <2>2. t \in Seq(Addrs \X Nat) /\ Len(t) = n /\ (\A i \in 1..n : t[i] = <<a, Q[i]>>)
    BY <2>1
  <2> HIDE DEF t
  <2> QED
    BY <2>2
<1>5. PICK q \in Seq(Nat) : /\ q = SubSeq(Q, n + 1, P) /\ Len(q) = P - n /\ DOMAIN q = 1..P - n
                            /\ \A i \in 1..P - n : q[i] = Q[i + n]
  <2>1. \A x : x = SubSeq(Q, n + 1, P) => x \in Seq(Nat) /\ Len(x) = P - n /\ \A i \in 1..P - n : x[i] = Q[i + n]
    BY <1>3
  <2>2. \A x \in Seq(Nat) : DOMAIN x = 1..Len(x)
    OBVIOUS
  <2> QED
    BY <2>1, <2>2
<1>6. PICK W \in Seq(Addrs \X Nat) : /\ W = N \o t /\ DOMAIN W = 1..L + n
                                     /\ \A i \in 1..L : W[i] = N[i]
                                     /\ \A i \in 1..n : W[L + i] = <<a, Q[i]>>
  <2>0. /\ N \o t \in Seq(Addrs \X Nat) /\ Len(N \o t) = Len(N) + Len(t)
        /\ \A i \in 1..Len(N) : (N \o t)[i] = N[i]
        /\ \A i \in 1..Len(t) : (N \o t)[Len(N) + i] = t[i]
    BY ONLY N \in Seq(Addrs \X Nat), t \in Seq(Addrs \X Nat), Joining
  <2>1. PICK W : W = N \o t
    OBVIOUS
  <2>2. /\ W \in Seq(Addrs \X Nat) /\ Len(W) = L + n
        /\ \A i \in 1..L : W[i] = N[i]
        /\ \A i \in 1..n : W[L + i] = t[i]
    BY <2>0, <2>1, <1>3, <1>4, Zenon
  <2>3. DOMAIN W = 1..Len(W)
    BY <2>2
  <2>4. W \in Seq(Addrs \X Nat) /\ DOMAIN W = 1..L + n /\ \A i \in 1..n : W[L + i] = <<a, Q[i]>>
    BY <2>2, <2>3, <1>4
  <2> QED
    BY <2>1, <2>2, <2>4, Zenon
<1>1. PICK v : v = [u EXCEPT !.room = u.room - n, !.net = W, !.pending[a] = q]
  OBVIOUS
<1>2. Unqueued(u, a, n) = v
  <2>1. t = [i \in 1 .. n |-> <<a, Q[i]>>]
    BY <1>4
  <2> QED
    BY <2>1, <1>0, <1>1, <1>3, <1>5, <1>6 DEF Unqueued
<1>7. /\ v \in Sockets /\ v.net = W /\ v.pending[a] = q /\ v.room = u.room - n
      /\ v.prev = u.prev /\ v.last = u.last /\ v.gone = u.gone /\ v.broken = u.broken
      /\ \A b \in Addrs : b # a => v.pending[b] = u.pending[b]
  <2>1. u.room - n \in Nat
    BY DEF Sockets
  <2> QED
    BY <2>1, <1>1, <1>5, <1>6 DEF Sockets
<1>20. \A i \in 1..n : i \in 1..P
  <2>1. n <= P
    BY <1>3
  <2> QED
    BY <2>1
<1>16. ASSUME NEW b \in Addrs, NEW m \in Nat
       PROVE  /\ InNet(u, b, m) <=> \E i \in 1..L : N[i] = <<b, m>>
              /\ InNet(v, b, m) <=> \E i \in 1..L + n : W[i] = <<b, m>>
  BY <1>0, <1>3, <1>6, <1>7 DEF InNet
<1>17. ASSUME NEW m \in Nat
       PROVE  /\ InPending(u, a, m) <=> \E i \in 1..P : Q[i] = m
              /\ InPending(v, a, m) <=> \E i \in 1..P - n : q[i] = m
  BY <1>0, <1>3, <1>5, <1>7 DEF InPending
<1>10. /\ k[a] \in Nat /\ \A i \in 1..P : 1 <= Q[i] /\ Q[i] <= k[a]
       /\ \A i, j \in 1..P : i < j => Q[i] < Q[j]
       /\ \A m \in 1..k[a] : InNet(u, a, m) <=> ~InPending(u, a, m)
  <2>1. QueueIsRight(u, k, a) /\ u.pending[a] = Q /\ DOMAIN Q = 1..P
    BY <1>0, <1>3 DEF Right
  <2> QED
    BY <2>1 DEF QueueIsRight, Counts
<1>18. \A i, j \in 1..P : Q[i] = Q[j] => i = j
  <2>1. ASSUME NEW i \in 1..P, NEW j \in 1..P, Q[i] = Q[j] PROVE i = j
    <3>1. ~(i < j) /\ ~(j < i)
      BY <2>1, <1>3, <1>10
    <3> QED
      BY <3>1, <1>3
  <2> QED
    BY <2>1
<1>19. /\ \A i, j \in 1..L : N[i] = N[j] => i = j
       /\ \A b \in Addrs, m \in Nat : InNet(u, b, m) => 1 <= m /\ m <= k[b]
  BY <1>0, <1>3 DEF Right, NetIsRight
<1>8. ASSUME NEW b \in Addrs, NEW m \in Nat
      PROVE  InNet(v, b, m) <=> InNet(u, b, m) \/ (b = a /\ \E i \in 1..n : Q[i] = m)
  <2>1. ASSUME NEW i \in 1..L + n, W[i] = <<b, m>>
        PROVE  InNet(u, b, m) \/ (b = a /\ \E j \in 1..n : Q[j] = m)
    <3>1. CASE i \in 1..L
      BY <2>1, <3>1, <1>6, <1>16
    <3>2. CASE i \notin 1..L
      <4>1. PICK j \in 1..n : i = L + j
        BY <3>2, Later
      <4>2. <<b, m>> = <<a, Q[j]>>
        BY <4>1, <2>1, <1>6
      <4> QED
        BY <4>2
    <3> QED
      BY <3>1, <3>2
  <2>2. ASSUME NEW i \in 1..L, N[i] = <<b, m>> PROVE InNet(v, b, m)
    <3>1. i \in 1..L + n /\ W[i] = N[i]
      BY <1>3, <1>6
    <3> QED
      BY <2>2, <3>1, <1>16
  <2>3. ASSUME NEW i \in 1..n, b = a, Q[i] = m PROVE InNet(v, b, m)
    <3>1. L + i \in 1..L + n /\ W[L + i] = <<a, Q[i]>>
      BY <1>3, <1>6
    <3> QED
      BY <2>3, <3>1, <1>16
  <2> QED
    BY <2>1, <2>2, <2>3, <1>16
<1>9. ASSUME NEW m \in Nat PROVE InPending(v, a, m) <=> \E i \in n + 1..P : Q[i] = m
  <2>1. ASSUME NEW i \in 1..P - n PROVE i + n \in n + 1..P /\ q[i] = Q[i + n]
    BY <1>3, <1>5
  <2>2. ASSUME NEW i \in n + 1..P PROVE \E j \in 1..P - n : q[j] = Q[i]
    <3>1. PICK j \in Nat : j = i - n
      BY <1>3
    <3>2. j \in 1..P - n /\ j + n = i
      BY <3>1, <1>3
    <3> QED
      BY <3>2, <1>5
  <2>3. InPending(v, a, m) => \E i \in n + 1..P : Q[i] = m
    BY <2>1, <1>17
  <2>4. (\E i \in n + 1..P : Q[i] = m) => InPending(v, a, m)
    BY <2>2, <1>17
  <2> QED
    BY <2>3, <2>4
<1>11. NetIsRight(v, k)
  <2>1. ASSUME NEW i \in 1..L, NEW j \in 1..n PROVE N[i] # <<a, Q[j]>>
    <3>1. PICK m \in Nat : m = Q[j] /\ j \in 1..P
      <4>1. j \in 1..P
        BY <1>20
      <4> QED
        BY <4>1, <1>3
    <3>2. InPending(u, a, m) /\ m \in 1..k[a]
      BY <3>1, <1>10, <1>17
    <3>3. ~InNet(u, a, m)
      BY <3>2, <1>10
    <3> QED
      BY <3>1, <3>3, <1>16
  <2>3. \A i, j \in 1..n : Q[i] = Q[j] => i = j
    BY <1>18, <1>20
  <2>4. ASSUME NEW i \in 1..L + n, i \notin 1..L PROVE \E j \in 1..n : i = L + j /\ W[i] = <<a, Q[j]>>
    <3>1. PICK j \in 1..n : i = L + j
      BY <2>4, Later
    <3> QED
      BY <3>1, <1>6
  <2>5. ASSUME NEW i \in 1..L + n, NEW j \in 1..L + n, W[i] = W[j] PROVE i = j
    <3>1. CASE i \in 1..L /\ j \in 1..L
      BY <3>1, <1>19, <2>5, <1>6
    <3>2. CASE i \notin 1..L /\ j \in 1..L
      <4>1. PICK x \in 1..n : i = L + x /\ W[i] = <<a, Q[x]>>
        BY <3>2, <2>4
      <4> QED
        BY <3>2, <4>1, <2>1, <2>5, <1>6
    <3>3. CASE i \in 1..L /\ j \notin 1..L
      <4>1. PICK x \in 1..n : j = L + x /\ W[j] = <<a, Q[x]>>
        BY <3>3, <2>4
      <4> QED
        BY <3>3, <4>1, <2>1, <2>5, <1>6
    <3>4. CASE i \notin 1..L /\ j \notin 1..L
      <4>1. PICK x \in 1..n : i = L + x /\ W[i] = <<a, Q[x]>>
        BY <3>4, <2>4
      <4>2. PICK y \in 1..n : j = L + y /\ W[j] = <<a, Q[y]>>
        BY <3>4, <2>4
      <4>3. Q[x] = Q[y]
        BY <4>1, <4>2, <2>5
      <4> QED
        BY <4>1, <4>2, <4>3, <2>3
    <3> QED
      BY <3>1, <3>2, <3>3, <3>4
  <2>6. ASSUME NEW b \in Addrs, NEW m \in Nat, InNet(v, b, m) PROVE 1 <= m /\ m <= k[b]
    <3>1. CASE InNet(u, b, m)
      BY <3>1, <1>19
    <3>2. CASE b = a /\ \E i \in 1..n : Q[i] = m
      <4>1. \A i \in 1..n : i \in 1..P
        BY <1>3
      <4> QED
        BY <3>2, <4>1, <1>10
    <3> QED
      BY <2>6, <3>1, <3>2, <1>8
  <2>7. v.net = W /\ DOMAIN W = 1..L + n
    BY <1>6, <1>7
  <2> QED
    BY <2>5, <2>6, <2>7 DEF NetIsRight
<1>12. ASSUME NEW b \in Addrs, b # a PROVE QueueIsRight(v, k, b)
  <2>1. v.pending[b] = u.pending[b] /\ k[b] \in Nat /\ QueueIsRight(u, k, b)
    BY <1>7, <1>12 DEF Right, Counts
  <2>2. \A m \in Nat : (InPending(v, b, m) <=> InPending(u, b, m)) /\ (InNet(v, b, m) <=> InNet(u, b, m))
    BY <2>1, <1>8, <1>12 DEF InPending
  <2>3. \A m \in 1..k[b] : m \in Nat
    BY <2>1
  <2> QED
    BY <2>1, <2>2, <2>3 DEF QueueIsRight
<1>13. QueueIsRight(v, k, a)
  <2>1. \A i \in 1..P - n : i + n \in 1..P /\ q[i] = Q[i + n]
    BY <1>3, <1>5
  <2>3. \A i \in 1..P - n : 1 <= q[i] /\ q[i] <= k[a]
    BY <2>1, <1>10
  <2>4. ASSUME NEW i \in 1..P - n, NEW j \in 1..P - n, i < j PROVE q[i] < q[j]
    <3>1. i + n < j + n
      BY <2>4
    <3> QED
      BY <3>1, <2>1, <1>10
  <2>5. ASSUME NEW m \in 1..k[a] PROVE InNet(v, a, m) <=> ~InPending(v, a, m)
    <3>1. InNet(u, a, m) <=> ~InPending(u, a, m)
      BY <1>10
    <3>4. \A i \in 1..P : (i \in 1..n \/ i \in n + 1..P) /\ ~(i \in 1..n /\ i \in n + 1..P)
      BY <1>3
    <3>3. \A i : i \in 1..n \/ i \in n + 1..P => i \in 1..P
      BY <1>3
    <3>5. m \in Nat
      BY <1>10
    <3>6. CASE InNet(u, a, m)
      <4>1. InNet(v, a, m)
        BY <3>5, <3>6, <1>8
      <4>2. ~InPending(v, a, m)
        BY <3>1, <3>3, <3>5, <3>6, <1>9, <1>17
      <4> QED
        BY <4>1, <4>2
    <3>7. CASE ~InNet(u, a, m)
      <4>1. PICK i \in 1..P : Q[i] = m
        BY <3>1, <3>5, <3>7, <1>17
      <4>2. \A j \in 1..P : Q[j] = m => j = i
        BY <4>1, <1>18
      <4>3. InNet(v, a, m) <=> i \in 1..n
        BY <4>1, <4>2, <3>3, <3>5, <3>7, <1>8
      <4>4. InPending(v, a, m) <=> i \in n + 1..P
        BY <4>1, <4>2, <3>3, <3>5, <1>9
      <4> QED
        BY <3>4, <4>3, <4>4
    <3> QED
      BY <3>6, <3>7
  <2>6. v.pending[a] = q /\ DOMAIN q = 1..P - n
    BY <1>5, <1>7
  <2> QED
    BY <2>3, <2>4, <2>5, <2>6 DEF QueueIsRight
<1>14. Right(v, k)
  BY <1>11, <1>12, <1>13 DEF Right
<1>15. Len(v.pending[a]) = Len(u.pending[a]) - n
  BY <1>0, <1>3, <1>5, <1>7
<1> QED
  BY <1>2, <1>7, <1>14, <1>15

\* UdpConnection::out: what it cannot send it keeps, linked.
LEMMA ConnectionOutIs ==
    ASSUME NEW u \in Sockets, NEW k \in Counts, NEW a \in Addrs, Right(u, k)
    PROVE  /\ ConnectionOut(u, a) \in Sockets /\ Right(ConnectionOut(u, a), k)
           /\ IsLinked(ConnectionOut(u, a), a)
           /\ u.gone => ConnectionOut(u, a).gone
           /\ \A b \in Addrs : b # a => /\ ConnectionOut(u, a).prev[b] = u.prev[b]
                                        /\ ConnectionOut(u, a).pending[b] = u.pending[b]
<1>1. PICK n \in Nat : n = Accepted(u, a) /\ n <= u.room /\ n <= Len(u.pending[a])
                       /\ (u.broken \/ n = u.room \/ n = Len(u.pending[a]))
  <2>1. u.room \in Nat /\ Len(u.pending[a]) \in Nat
    BY DEF Sockets
  <2> QED
    BY <2>1 DEF Accepted
<1>2. PICK v : v = Unqueued(u, a, n)
  OBVIOUS
<1>3. /\ v \in Sockets /\ Right(v, k)
      /\ Len(v.pending[a]) = Len(u.pending[a]) - n /\ v.room = u.room - n
      /\ v.prev = u.prev /\ v.gone = u.gone /\ v.broken = u.broken
      /\ \A b \in Addrs : b # a => v.pending[b] = u.pending[b]
  BY <1>1, <1>2, UnqueuedIs
<1>4. ConnectionOut(u, a) = IF v.pending[a] = <<>> THEN v ELSE SendData(v, a, Head(v.pending[a]))
  BY <1>1, <1>2 DEF ConnectionOut
<1>5. CASE v.pending[a] = <<>>
  <2>1. ConnectionOut(u, a) = v /\ IsLinked(v, a)
    BY <1>4, <1>5 DEF IsLinked
  <2> QED
    BY <1>3, <2>1
<1>6. CASE v.pending[a] # <<>>
  <2>1. v.pending[a] \in Seq(Nat) /\ u.room \in Nat /\ Len(u.pending[a]) \in Nat
    BY <1>3 DEF Sockets
  <2>2. Len(v.pending[a]) # 0 /\ Head(v.pending[a]) \in Nat
    BY <1>6, <2>1
  <2>3. v.broken \/ v.room = 0
    BY <1>1, <1>3, <2>1, <2>2
  <2>4. PICK w : w = SendData(v, a, Head(v.pending[a]))
    OBVIOUS
  <2>5. /\ w \in Sockets /\ w.net = v.net /\ w.pending = v.pending
        /\ (w.gone \/ w.prev[a] # NoAddr) /\ (v.gone => w.gone)
        /\ \A b \in Addrs : b # a => w.prev[b] = v.prev[b]
    BY <1>3, <2>2, <2>3, <2>4, RefusedIs
  <2>6. Right(w, k)
    BY <1>3, <2>5, RightStays
  <2>7. ConnectionOut(u, a) = w /\ IsLinked(w, a)
    BY <1>4, <1>6, <2>4, <2>5 DEF IsLinked
  <2> QED
    BY <1>3, <2>5, <2>6, <2>7
<1> QED
  BY <1>5, <1>6

\* clear( op ): a link is read, taken out, and its connection sends.
Loops == [u : Sockets, c : Addrs \cup {NoAddr}, done : BOOLEAN]
LoopIsRight(l, k) ==
    /\ Right(l.u, k) /\ \A a \in Addrs : IsLinked(l.u, a)
    /\ l.done \/ \E S \in SUBSET Addrs : Chain(l.u.prev, S, l.c)

LEMMA OneClearedIs ==
    ASSUME NEW l \in Loops, NEW k \in Counts, LoopIsRight(l, k)
    PROVE  OneCleared(l) \in Loops /\ LoopIsRight(OneCleared(l), k)
<1>1. CASE l.done
  BY <1>1 DEF OneCleared
<1>2. CASE ~l.done
  <2>1. PICK S \in SUBSET Addrs : Chain(l.u.prev, S, l.c)
    BY <1>2 DEF LoopIsRight
  <2>2. PICK c \in Addrs, p \in Addrs : c = l.c /\ p = l.u.prev[c] /\ c \in S /\ p \in S
    BY <2>1 DEF Chain
  <2>3. PICK v : v = [l.u EXCEPT !.prev[c] = NoAddr]
    OBVIOUS
  <2>4. /\ v \in Sockets /\ v.net = l.u.net /\ v.pending = l.u.pending /\ v.gone = l.u.gone
        /\ \A b \in Addrs : b # c => v.prev[b] = l.u.prev[b]
    BY <2>3 DEF Loops, Sockets
  <2>5. Right(v, k)
    BY <2>4, RightStays DEF LoopIsRight
  <2>6. PICK w : w = ConnectionOut(v, c)
    OBVIOUS
  <2>7. /\ w \in Sockets /\ Right(w, k) /\ IsLinked(w, c) /\ (v.gone => w.gone)
        /\ \A b \in Addrs : b # c => w.prev[b] = v.prev[b] /\ w.pending[b] = v.pending[b]
    BY <2>4, <2>5, <2>6, ConnectionOutIs
  <2>8. OneCleared(l) = [u |-> w, c |-> p, done |-> p = c]
    BY <1>2, <2>2, <2>3, <2>6 DEF OneCleared
  <2>9. ASSUME NEW a \in Addrs PROVE IsLinked(w, a)
    <3>1. CASE a = c
      BY <3>1, <2>7
    <3>2. CASE a # c
      <4>1. IsLinked(l.u, a)
        BY DEF LoopIsRight
      <4>2. w.prev[a] = l.u.prev[a] /\ w.pending[a] = l.u.pending[a] /\ (l.u.gone => w.gone)
        BY <3>2, <2>4, <2>7
      <4> QED
        BY <4>1, <4>2 DEF IsLinked
    <3> QED
      BY <3>1, <3>2
  <2>10. p # c => Chain(w.prev, S \ {c}, p)
    <3>1. \A b \in S : b # c => w.prev[b] = l.u.prev[b]
      BY <2>4, <2>7
    <3>2. PICK g : g = l.u.prev
      OBVIOUS
    <3>3. PICK h : h = w.prev
      OBVIOUS
    <3>4. Chain(g, S, c) /\ p = g[c] /\ \A b \in S : b # c => h[b] = g[b]
      BY <3>1, <3>2, <3>3, <2>1, <2>2
    <3>5. p # c => Chain(h, S \ {c}, p)
      BY <3>4, <2>2 DEF Chain
    <3> QED
      BY <3>3, <3>5
  <2>11. LoopIsRight([u |-> w, c |-> p, done |-> p = c], k)
    <3>1. PICK m : m = [u |-> w, c |-> p, done |-> p = c]
      OBVIOUS
    <3>2. m.u = w /\ m.c = p /\ m.done = (p = c)
      BY <3>1
    <3>3. p = c \/ \E R \in SUBSET Addrs : Chain(w.prev, R, p)
      BY <2>10
    <3>4. LoopIsRight(m, k)
      BY <3>2, <3>3, <2>7, <2>9 DEF LoopIsRight
    <3> QED
      BY <3>1, <3>4
  <2> QED
    BY <2>2, <2>7, <2>8, <2>11 DEF Loops
<1> QED
  BY <1>1, <1>2

LEMMA ClearedIs ==
    ASSUME NEW u \in Sockets, NEW k \in Counts, Right(u, k), \A a \in Addrs : IsLinked(u, a), IsList(u)
    PROVE  /\ Cleared(u) \in Sockets /\ Right(Cleared(u), k) /\ \A a \in Addrs : IsLinked(Cleared(u), a)
           /\ IsList(Cleared(u))
<1>1. PICK n \in Nat : n = Cardinality(Addrs)
  BY FS_CardinalityType, UdpAssumption
<1>2. PICK D : D = {l \in Loops : LoopIsRight(l, k)}
  OBVIOUS
<1>3. PICK b : b = [u |-> u, c |-> u.last, done |-> u.last = NoAddr]
  OBVIOUS
<1>4. b \in D
  <2>1. b \in Loops
    BY <1>3 DEF Loops, Sockets
  <2>2. b.u = u /\ b.c = u.last /\ b.done = (u.last = NoAddr)
    BY <1>3
  <2>3. LoopIsRight(b, k)
    BY <2>2 DEF LoopIsRight, IsList
  <2> QED
    BY <2>1, <2>3, <1>2
<1>5. PICK s : s = [i \in 1..n |-> [x \in D |-> OneCleared(x)]]
  OBVIOUS
<1>6. s \in Moves(n, D)
  <2>1. \A x \in D : OneCleared(x) \in D
    BY <1>2, OneClearedIs
  <2> QED
    BY <2>1, <1>5 DEF Moves
<1>7. PICK g : Run(n, D, b, s, g)
  BY <1>4, <1>6, Iterates
<1>8. g \in [0..n -> D] /\ g[0] = b /\ \A i \in 1..n : g[i] = OneCleared(g[i - 1])
  BY <1>5, <1>7 DEF Run
<1> DEFINE f == CHOOSE f : f = [i \in 0..Cardinality(Addrs) |->
                   IF i = 0 THEN [u |-> u, c |-> u.last, done |-> u.last = NoAddr] ELSE OneCleared(f[i - 1])]
<1>9. Cleared(u) = [f[n].u EXCEPT !.last = NoAddr]
  BY <1>1 DEF Cleared
<1>10. f = [i \in 0..n |-> IF i = 0 THEN b ELSE OneCleared(f[i - 1])]
  <2>1. g = [i \in 0..n |-> IF i = 0 THEN b ELSE OneCleared(g[i - 1])]
    BY <1>8
  <2> QED
    BY <2>1, <1>1, <1>3
<1> HIDE DEF f
<1>11. f[0] = b /\ \A i \in 1..n : f[i] = OneCleared(f[i - 1])
  BY <1>10
<1> DEFINE S == {i \in 0..n : f[i] \in D}
<1>12. 0 \in S
  BY <1>4, <1>11
<1>13. ASSUME NEW i \in 1..n, i - 1 \in S PROVE i \in S
  <2>1. f[i - 1] \in D /\ i \in 0..n
    BY <1>13
  <2>2. OneCleared(f[i - 1]) \in D
    BY <2>1, <1>2, OneClearedIs
  <2> QED
    BY <2>1, <2>2, <1>11
<1>14. f[n] \in D
  <2>1. \A i \in S : f[i] \in D
    OBVIOUS
  <2> HIDE DEF S
  <2>2. 0..n \subseteq S
    BY <1>12, <1>13, UpTo
  <2> QED
    BY <2>1, <2>2
<1>15. PICK v \in Sockets : v = f[n].u /\ Right(v, k) /\ \A a \in Addrs : IsLinked(v, a)
  BY <1>2, <1>14 DEF Loops, LoopIsRight
<1>16. PICK w : w = [v EXCEPT !.last = NoAddr]
  OBVIOUS
<1>17. /\ Cleared(u) = w /\ w \in Sockets /\ w.net = v.net /\ w.pending = v.pending
       /\ w.prev = v.prev /\ w.gone = v.gone /\ w.last = NoAddr
  BY <1>9, <1>15, <1>16 DEF Sockets
<1>18. Right(w, k) /\ (\A a \in Addrs : IsLinked(w, a)) /\ IsList(w)
  BY <1>15, <1>17, RightStays DEF IsLinked, IsList
<1> QED
  BY <1>17, <1>18

-----------------------------------------------------------------------------
Flushes == [a \in Addrs |-> Len(written[a])]
UdpInv ==
    /\ udp \in Sockets /\ written \in [Addrs -> Seq(Nat)]
    /\ \A a \in Addrs : \A i \in DOMAIN written[a] : written[a][i] = i
    /\ Right(udp, Flushes) /\ (\A a \in Addrs : IsLinked(udp, a)) /\ IsList(udp)

LEMMA UdpInitIs == UdpInit => UdpInv
<1> SUFFICES ASSUME UdpInit PROVE UdpInv
  OBVIOUS
<1>1. /\ udp.net = <<>> /\ udp.pending = [a \in Addrs |-> <<>>] /\ udp.last = NoAddr
      /\ written = [a \in Addrs |-> <<>>]
  BY DEF UdpInit
<1>2. udp \in Sockets
  BY UdpAssumption DEF UdpInit, Sockets
<1>3. Flushes = [a \in Addrs |-> 0]
  BY <1>1 DEF Flushes
<1>4. Right(udp, Flushes)
  BY <1>1, <1>3 DEF Right, NetIsRight, QueueIsRight, InNet, InPending
<1> QED
  BY <1>1, <1>2, <1>4 DEF UdpInv, IsLinked, IsList

LEMMA SocketOutKeeps == UdpInv /\ SocketOut => UdpInv'
<1> SUFFICES ASSUME UdpInv, SocketOut PROVE UdpInv'
  OBVIOUS
<1>0. Flushes \in Counts /\ Flushes' = Flushes
  BY DEF UdpInv, SocketOut, Flushes, Counts
<1>1. PICK u : u = [udp EXCEPT !.wants = FALSE]
  OBVIOUS
<1>2. /\ u \in Sockets /\ u.net = udp.net /\ u.pending = udp.pending
      /\ u.prev = udp.prev /\ u.gone = udp.gone /\ u.last = udp.last
  BY <1>1 DEF UdpInv, Sockets
<1>3. Right(u, Flushes)
  BY <1>2, RightStays DEF UdpInv
<1>4. (\A a \in Addrs : IsLinked(u, a)) /\ IsList(u)
  BY <1>2 DEF UdpInv, IsLinked, IsList
<1>5. udp' = Cleared(u) /\ written' = written
  BY <1>1 DEF SocketOut
<1>6. udp' \in Sockets /\ Right(udp', Flushes) /\ (\A a \in Addrs : IsLinked(udp', a)) /\ IsList(udp')
  BY <1>0, <1>2, <1>3, <1>4, <1>5, ClearedIs
<1> QED
  BY <1>0, <1>5, <1>6 DEF UdpInv

LEMMA KernelKeeps == UdpInv /\ (KernelSends \/ KernelRefuses) => UdpInv'
<1> SUFFICES ASSUME UdpInv, KernelSends \/ KernelRefuses PROVE UdpInv'
  OBVIOUS
<1>1. /\ udp' \in Sockets /\ udp'.net = udp.net /\ udp'.pending = udp.pending
      /\ udp'.prev = udp.prev /\ udp'.gone = udp.gone /\ udp'.last = udp.last
  <2>1. CASE KernelSends
    <3>1. udp \in Sockets /\ udp' = [udp EXCEPT !.room = udp.room + 1]
      BY <2>1 DEF UdpInv, KernelSends
    <3>2. udp.room + 1 \in Nat
      BY <3>1 DEF Sockets
    <3> QED
      BY <3>1, <3>2 DEF Sockets
  <2>2. CASE KernelRefuses
    BY <2>2 DEF UdpInv, KernelRefuses, Sockets
  <2> QED
    BY <2>1, <2>2
<1>2. written' = written /\ Flushes' = Flushes
  BY DEF KernelSends, KernelRefuses, Flushes
<1>3. Right(udp', Flushes)
  BY <1>1, RightStays DEF UdpInv
<1> QED
  BY <1>1, <1>2, <1>3 DEF UdpInv, IsLinked, IsList

LEMMA FlushedKeeps ==
    ASSUME UdpInv, NEW a \in Addrs, Flushed(a, Len(written[a]) + 1)
    PROVE  /\ UdpInv' /\ Len(written'[a]) = Len(written[a]) + 1
           /\ \A b \in Addrs : b # a => written'[b] = written[b]
<1>1. PICK m \in Nat, k \in Counts : m = k[a] + 1 /\ k = Flushes /\ m = Len(written[a]) + 1
  BY DEF UdpInv, Flushes, Counts
<1>2. udp' = SendMsg(udp, a, m) /\ written' = [written EXCEPT ![a] = Append(@, m)]
  BY <1>1 DEF Flushed
<1>3. /\ written' \in [Addrs -> Seq(Nat)] /\ written'[a] = Append(written[a], m)
      /\ \A b \in Addrs : b # a => written'[b] = written[b]
  BY <1>1, <1>2 DEF UdpInv
<1>4. Flushes' = [k EXCEPT ![a] = @ + 1] /\ Len(written'[a]) = Len(written[a]) + 1
  <2>1. Len(written'[a]) = Len(written[a]) + 1
    BY <1>3 DEF UdpInv
  <2> QED
    BY <1>1, <1>3, <2>1 DEF Flushes
<1>5. \A b \in Addrs : \A i \in DOMAIN written'[b] : written'[b][i] = i
  <2>1. written[a] \in Seq(Nat) /\ \A i \in 1..Len(written[a]) : written[a][i] = i
    BY DEF UdpInv
  <2>2. DOMAIN written'[a] = 1..m /\ written'[a][m] = m /\ \A i \in 1..m - 1 : written'[a][i] = written[a][i]
    BY <2>1, <1>1, <1>3
  <2>3. \A i \in 1..m : i = m \/ i \in 1..m - 1
    OBVIOUS
  <2>4. m - 1 = Len(written[a])
    BY <2>1, <1>1
  <2>5. \A i \in DOMAIN written'[a] : written'[a][i] = i
    BY <2>1, <2>2, <2>3, <2>4
  <2> QED
    BY <2>5, <1>3 DEF UdpInv
<1>6. Right(udp, k) /\ udp \in Sockets /\ (\A b \in Addrs : IsLinked(udp, b)) /\ IsList(udp)
  BY <1>1 DEF UdpInv
<1>7. CASE udp.broken \/ udp.room = 0
  <2>1. PICK v : v = SendData(udp, a, m)
    OBVIOUS
  <2>2. /\ v \in Sockets /\ v.net = udp.net /\ v.pending = udp.pending /\ ~v.ok
        /\ (v.gone \/ v.prev[a] # NoAddr) /\ (udp.gone => v.gone)
        /\ (\A b \in Addrs : b # a => v.prev[b] = udp.prev[b])
        /\ IsList(v)
    BY <1>6, <1>7, <2>1, RefusedIs
  <2>3. PICK w : w = [v EXCEPT !.pending[a] = Append(v.pending[a], m)]
    OBVIOUS
  <2>4. /\ w \in Sockets /\ w.net = v.net /\ w.pending = [v.pending EXCEPT ![a] = Append(@, m)]
        /\ w.prev = v.prev /\ w.gone = v.gone /\ w.last = v.last
    <3>1. v.pending[a] \in Seq(Nat)
      BY <2>2 DEF Sockets
    <3>2. Append(v.pending[a], m) \in Seq(Nat)
      BY <3>1
    <3> QED
      BY <2>2, <2>3, <3>2 DEF Sockets
  <2>5. udp' = w
    BY <1>2, <2>1, <2>2, <2>3 DEF SendMsg, Queued
  <2>6. Right(w, [k EXCEPT ![a] = @ + 1])
    BY <1>1, <1>6, <2>2, <2>4, WaitsIs
  <2>7. ASSUME NEW b \in Addrs PROVE IsLinked(w, b)
    <3>1. CASE b = a
      BY <3>1, <2>2, <2>4 DEF IsLinked
    <3>2. CASE b # a
      <4>1. w.prev[b] = udp.prev[b] /\ w.pending[b] = udp.pending[b] /\ (udp.gone => w.gone)
        BY <3>2, <2>2, <2>4 DEF Sockets
      <4> QED
        BY <4>1, <1>6 DEF IsLinked
    <3> QED
      BY <3>1, <3>2
  <2>8. IsList(w)
    BY <2>2, <2>4 DEF IsList
  <2> QED
    BY <1>3, <1>4, <1>5, <2>4, <2>5, <2>6, <2>7, <2>8 DEF UdpInv
<1>8. CASE ~udp.broken /\ udp.room # 0
  <2>1. PICK v : v = [udp EXCEPT !.room = udp.room - 1, !.net = Append(udp.net, <<a, m>>), !.ok = TRUE]
    OBVIOUS
  <2>2. SendData(udp, a, m) = v
    BY <1>8, <2>1 DEF SendData
  <2>3. /\ v \in Sockets /\ v.net = Append(udp.net, <<a, m>>) /\ v.pending = udp.pending /\ v.ok
        /\ v.prev = udp.prev /\ v.gone = udp.gone /\ v.last = udp.last
    <3>1. udp.room - 1 \in Nat /\ udp.net \in Seq(Addrs \X Nat)
      BY <1>6, <1>8 DEF Sockets
    <3>2. Append(udp.net, <<a, m>>) \in Seq(Addrs \X Nat)
      BY <3>1
    <3> QED
      BY <1>6, <2>1, <3>1, <3>2 DEF Sockets
  <2>4. udp' = v
    BY <1>2, <2>2, <2>3 DEF SendMsg, Queued
  <2>5. Right(v, [k EXCEPT ![a] = @ + 1])
    BY <1>1, <1>6, <2>3, SentIs
  <2>6. (\A b \in Addrs : IsLinked(v, b)) /\ IsList(v)
    BY <1>6, <2>3 DEF IsLinked, IsList
  <2> QED
    BY <1>3, <1>4, <1>5, <2>3, <2>4, <2>5, <2>6 DEF UdpInv
<1> QED
  BY <1>3, <1>4, <1>7, <1>8

LEMMA SocketMovesKeep == UdpInv /\ SocketMoves => UdpInv'
BY SocketOutKeeps, KernelKeeps DEF SocketMoves

LEMMA UdpKept == UdpInv => DatagramsKept
<1> SUFFICES ASSUME UdpInv PROVE DatagramsKept
  OBVIOUS
<1>1. \A i, j \in DOMAIN udp.net : udp.net[i] = udp.net[j] => i = j
  BY DEF UdpInv, Right, NetIsRight
<1>2. ASSUME NEW a \in Addrs
      PROVE  /\ \A i \in DOMAIN written[a] : WasSent(a, written[a][i]) # Waits(a, written[a][i])
             /\ \A i, j \in DOMAIN udp.pending[a] : i < j => udp.pending[a][i] < udp.pending[a][j]
             /\ udp.pending[a] # <<>> /\ ~udp.gone => udp.prev[a] # NoAddr
  <2>1. QueueIsRight(udp, Flushes, a) /\ IsLinked(udp, a)
    BY DEF UdpInv, Right
  <2>2. ASSUME NEW i \in DOMAIN written[a] PROVE WasSent(a, written[a][i]) # Waits(a, written[a][i])
    <3>1. written[a][i] = i /\ i \in 1..Flushes[a]
      BY DEF UdpInv, Flushes
    <3>2. InNet(udp, a, i) <=> ~InPending(udp, a, i)
      BY <2>1, <3>1 DEF QueueIsRight
    <3>3. WasSent(a, i) # Waits(a, i)
      BY <3>2 DEF InNet, InPending, WasSent, Waits
    <3> QED
      BY <3>1, <3>3
  <2> QED
    BY <2>1, <2>2 DEF QueueIsRight, IsLinked
<1> QED
  BY <1>1, <1>2 DEF DatagramsKept

\* Each datagram is sent once or waits once, in its order, in a connection that is
\* linked: UdpConnection.cpp, whatever the socket refuses and when.
THEOREM DatagramsAreKept == UdpSpec => []DatagramsKept
<1>1. UdpInit => UdpInv
  BY UdpInitIs
<1>2. UdpInv /\ [UdpNext]_udpvars => UdpInv'
  <2> SUFFICES ASSUME UdpInv, [UdpNext]_udpvars PROVE UdpInv'
    OBVIOUS
  <2>1. CASE SocketMoves
    BY <2>1, SocketMovesKeep
  <2>2. ASSUME NEW a \in Addrs, NewDatagram(a) PROVE UdpInv'
    BY <2>2, FlushedKeeps DEF NewDatagram
  <2>3. CASE UNCHANGED udpvars
    BY <2>3 DEF udpvars, UdpInv, Flushes
  <2> QED
    BY <2>1, <2>2, <2>3 DEF UdpNext
<1>3. UdpInv => DatagramsKept
  BY UdpKept
<1> QED
  BY <1>1, <1>2, <1>3, PTL DEF UdpSpec

-----------------------------------------------------------------------------
(* Dns: a name is asked once, and each query is answered once or waits.    *)

Records == UNION {Range(Zone[n]) : n \in Names}
Any == {r.addr : r \in Records}
Listed(n, type, i) == Zone[n][i].type = type /\ Zone[n][i].name = n
Those(n, type, i) == {Zone[n][j].addr : j \in {h \in 1..i : Listed(n, type, h)}}

\* The records of a name, one after the other.
LEMMA ZoneIs == ASSUME NEW n \in Names
                PROVE  /\ Zone[n] \in Seq(Records) /\ Len(Zone[n]) \in Nat
                       /\ DOMAIN Zone[n] = 1..Len(Zone[n])
                       /\ \A i \in 1..Len(Zone[n]) : Zone[n][i] \in Records /\ Zone[n][i].addr \in Any
<1>1. Zone[n] \in Seq(Records)
  BY DnsAssumption DEF Records
<1>2. \A i \in 1..Len(Zone[n]) : Zone[n][i] \in Records
  BY <1>1
<1> QED
  BY <1>1, <1>2 DEF Any

LEMMA ThoseNext ==
    ASSUME NEW n \in Names, NEW type, NEW i \in Nat, i > 0
    PROVE  /\ Those(n, type, 0) = {}
           /\ Those(n, type, i) = IF Listed(n, type, i) THEN Those(n, type, i - 1) \cup {Zone[n][i].addr}
                                  ELSE Those(n, type, i - 1)
<1>1. 1..i = (1..i - 1) \cup {i}
  OBVIOUS
<1> QED
  BY <1>1 DEF Those

OneMore(n, type, i, x) == IF Listed(n, type, i) THEN Append(x, Zone[n][i].addr) ELSE x
LEMMA FirstRecordsIs ==
    ASSUME NEW n \in Names, NEW type
    PROVE  /\ FirstRecords(n, type)[0] = <<>>
           /\ \A i \in 1..Len(Zone[n]) : FirstRecords(n, type)[i] = OneMore(n, type, i, FirstRecords(n, type)[i - 1])
<1>1. PICK m \in Nat : m = Len(Zone[n])
  BY ZoneIs
<1>2. PICK s : s = [i \in 1..m |-> [x \in Seq(Any) |-> OneMore(n, type, i, x)]]
  OBVIOUS
<1>3. s \in Moves(m, Seq(Any))
  <2>1. \A i \in 1..m, x \in Seq(Any) : OneMore(n, type, i, x) \in Seq(Any)
    BY <1>1, ZoneIs DEF OneMore
  <2> QED
    BY <2>1, <1>2 DEF Moves
<1>4. PICK g : Run(m, Seq(Any), <<>>, s, g)
  <2>1. <<>> \in Seq(Any)
    OBVIOUS
  <2> QED
    BY <2>1, <1>3, Iterates
<1>5. g \in [0..m -> Seq(Any)] /\ g[0] = <<>> /\ \A i \in 1..m : g[i] = OneMore(n, type, i, g[i - 1])
  <2>1. g \in [0..m -> Seq(Any)] /\ g[0] = <<>> /\ \A i \in 1..m : g[i] = s[i][g[i - 1]]
    BY <1>4 DEF Run
  <2>2. \A i \in 1..m : g[i - 1] \in Seq(Any)
    BY <2>1
  <2>3. \A i \in 1..m, x \in Seq(Any) : s[i][x] = OneMore(n, type, i, x)
    BY <1>2
  <2> QED
    BY <2>1, <2>2, <2>3
<1> DEFINE f == CHOOSE f : f = [i \in 0..Len(Zone[n]) |->
                   IF i = 0 THEN <<>>
                   ELSE IF Zone[n][i].type = type /\ Zone[n][i].name = n
                   THEN Append(f[i - 1], Zone[n][i].addr) ELSE f[i - 1]]
<1>6. FirstRecords(n, type) = f
  BY DEF FirstRecords
<1>7. f = [i \in 0..m |-> IF i = 0 THEN <<>> ELSE OneMore(n, type, i, f[i - 1])]
  <2>1. g = [i \in 0..m |-> IF i = 0 THEN <<>> ELSE OneMore(n, type, i, g[i - 1])]
    BY <1>5
  <2>2. g = [i \in 0..Len(Zone[n]) |->
                   IF i = 0 THEN <<>>
                   ELSE IF Zone[n][i].type = type /\ Zone[n][i].name = n
                   THEN Append(g[i - 1], Zone[n][i].addr) ELSE g[i - 1]]
    BY <2>1, <1>1 DEF OneMore, Listed
  <2>3. f = [i \in 0..Len(Zone[n]) |->
                   IF i = 0 THEN <<>>
                   ELSE IF Zone[n][i].type = type /\ Zone[n][i].name = n
                   THEN Append(f[i - 1], Zone[n][i].addr) ELSE f[i - 1]]
    BY <2>2
  <2> HIDE DEF f
  <2> QED
    BY <2>3, <1>1 DEF OneMore, Listed
<1> HIDE DEF f
<1>8. f[0] = <<>> /\ \A i \in 1..m : f[i] = OneMore(n, type, i, f[i - 1])
  BY <1>7
<1> QED
  BY <1>1, <1>6, <1>8

\* What is in what was added to.
LEMMA RangeOfAppend ==
    ASSUME NEW T, NEW s \in Seq(T), NEW x \in T
    PROVE  Range(Append(s, x)) = Range(s) \cup {x}
<1>1. PICK k \in Nat : k = Len(s)
  OBVIOUS
<1>2. PICK t : t = Append(s, x)
  OBVIOUS
<1>3. DOMAIN s = 1..k /\ DOMAIN t = 1..k + 1 /\ t[k + 1] = x /\ \A i \in 1..k : t[i] = s[i]
  BY <1>1, <1>2, Appending
<1>4. 1..k + 1 = (1..k) \cup {k + 1}
  OBVIOUS
<1>5. Range(t) = Range(s) \cup {x}
  BY <1>3, <1>4 DEF Range
<1> QED
  BY <1>2, <1>5

\* The first records of a name are those of its type and no other.
LEMMA FirstAre ==
    ASSUME NEW n \in Names, NEW type
    PROVE  \A i \in 0..Len(Zone[n]) : /\ FirstRecords(n, type)[i] \in Seq(Any)
                                      /\ Range(FirstRecords(n, type)[i]) = Those(n, type, i)
<1>1. PICK m \in Nat : m = Len(Zone[n])
  BY ZoneIs
<1>2. PICK f : f = FirstRecords(n, type)
  OBVIOUS
<1>3. f[0] = <<>> /\ \A i \in 1..m : f[i] = OneMore(n, type, i, f[i - 1])
  BY <1>1, <1>2, FirstRecordsIs
<1> DEFINE P(i) == f[i] \in Seq(Any) /\ Range(f[i]) = Those(n, type, i)
           S == {i \in 0..m : P(i)}
<1>4. 0 \in S
  <2>1. Range(<<>>) = {} /\ <<>> \in Seq(Any)
    BY DEF Range
  <2>2. Those(n, type, 0) = {}
    BY DEF Those
  <2>3. P(0)
    BY <2>1, <2>2, <1>3
  <2> HIDE DEF P
  <2>4. 0 \in 0..m
    BY <1>1
  <2> QED
    BY <2>3, <2>4
<1>5. ASSUME NEW i \in 1..m, i - 1 \in S PROVE i \in S
  <2>0. PICK x \in Seq(Any) : x = f[i - 1] /\ Range(x) = Those(n, type, i - 1)
    BY <1>5
  <2>1. CASE Listed(n, type, i)
    <3>1. PICK a \in Any : a = Zone[n][i].addr
      BY <1>1, ZoneIs
    <3>2. f[i] = Append(x, a) /\ Those(n, type, i) = Those(n, type, i - 1) \cup {a}
      <4>1. f[i] = Append(x, a)
        BY <2>0, <2>1, <3>1, <1>3 DEF OneMore
      <4>2. i \in Nat /\ i > 0
        OBVIOUS
      <4> QED
        BY <4>1, <4>2, <2>1, <3>1, ThoseNext
    <3>3. Append(x, a) \in Seq(Any) /\ Range(Append(x, a)) = Range(x) \cup {a}
      BY Appending, RangeOfAppend
    <3>4. P(i)
      BY <2>0, <3>2, <3>3
    <3> QED
      BY <3>4
  <2>2. CASE ~Listed(n, type, i)
    <3>1. f[i] = x /\ Those(n, type, i) = Those(n, type, i - 1)
      BY <2>0, <2>2, <1>3, ThoseNext DEF OneMore
    <3> QED
      BY <2>0, <3>1
  <2> QED
    BY <2>1, <2>2
<1>6. \A i \in S : P(i)
  OBVIOUS
<1> HIDE DEF S, P
<1>7. 0..m \subseteq S
  BY <1>4, <1>5, UpTo
<1>8. \A i \in 0..m : P(i)
  BY <1>6, <1>7
<1> QED
  BY <1>1, <1>2, <1>8 DEF P

\* What is read of an answer about n up to its i-th record.
Entries == [v4 : Seq(Any), v6 : Seq(Any)]
Readings == [name : Names \cup {""}, ok : BOOLEAN, v4 : Seq(Any), v6 : Seq(Any)]
NamesAreRight ==
    /\ DOMAIN cached_entries \subseteq Names /\ \A n \in DOMAIN cached_entries : cached_entries[n] \in Entries
    /\ DOMAIN waiting_reqs \subseteq Names
Fits(n, i) == \A j \in 1..i : Zone[n][j].type \in {"A", "AAAA"} => Zone[n][j].name = n
ReadUpTo(e, n, i) ==
    /\ e \in Readings /\ e.name = n /\ (e.ok <=> Fits(n, i))
    /\ Range(e.v4) \subseteq Range(Kept(n).v4) \cup Those(n, "A", i)
    /\ Range(e.v6) \subseteq Range(Kept(n).v6) \cup Those(n, "AAAA", i)
    /\ Kept(n).v4 = <<>> /\ e.ok => e.v4 = FirstRecords(n, "A")[i]
    /\ Kept(n).v6 = <<>> /\ e.ok => e.v6 = FirstRecords(n, "AAAA")[i]

LEMMA KeptIs == ASSUME NamesAreRight, NEW n
                PROVE  Kept(n).v4 \in Seq(Any) /\ Kept(n).v6 \in Seq(Any)
BY DEF NamesAreRight, Kept, Entries

LEMMA CheckedIs ==
    ASSUME NamesAreRight, NEW e \in Readings, NEW num, NEW n
    PROVE  CheckName(e, num, n) \in Readings
<1>1. Kept(n).v4 \in Seq(Any) /\ Kept(n).v6 \in Seq(Any)
  BY KeptIs
<1> QED
  BY <1>1 DEF CheckName, Readings, NamesAreRight

LEMMA AddedIs ==
    ASSUME NEW e \in Readings, NEW r, r.addr \in Any
    PROVE  AddRecord(e, r) \in Readings
<1>1. e.v4 \in Seq(Any) /\ e.v6 \in Seq(Any)
  BY DEF Readings
<1>2. Append(e.v4, r.addr) \in Seq(Any) /\ Append(e.v6, r.addr) \in Seq(Any)
  BY <1>1, Appending
<1> QED
  BY <1>2 DEF AddRecord, Readings

LEMMA ReadRecordIs ==
    ASSUME NamesAreRight, NEW e \in Readings, NEW num, NEW r, r.addr \in Any
    PROVE  ReadRecord(e, num, r) \in Readings
BY CheckedIs, AddedIs DEF ReadRecord

LEMMA ReadNext ==
    ASSUME NamesAreRight, NEW n \in Names, NEW num, NEW i \in 1..Len(Zone[n]), NEW e, ReadUpTo(e, n, i - 1)
    PROVE  ReadUpTo(ReadRecord(e, num, Zone[n][i]), n, i)
<1>1. PICK r, a : r = Zone[n][i] /\ a = r.addr /\ a \in Any
  BY ZoneIs
<1>2. PICK f : f = ReadRecord(e, num, r)
  OBVIOUS
<1>3. i \in Nat /\ i > 0 /\ i - 1 \in 0..Len(Zone[n])
  BY ZoneIs
<1>4. n # "" /\ e \in Readings /\ e.name = n /\ e.v4 \in Seq(Any) /\ e.v6 \in Seq(Any) /\ e.ok \in BOOLEAN
  BY DnsAssumption DEF ReadUpTo, Readings
<1>5. Fits(n, i) <=> Fits(n, i - 1) /\ (r.type \in {"A", "AAAA"} => r.name = n)
  <2>1. 1..i = (1..i - 1) \cup {i}
    BY <1>3
  <2> QED
    BY <2>1, <1>1 DEF Fits
<1>6. ASSUME NEW type \in {"A", "AAAA"}
      PROVE  /\ Those(n, type, i) = IF r.type = type /\ r.name = n THEN Those(n, type, i - 1) \cup {a}
                                    ELSE Those(n, type, i - 1)
             /\ FirstRecords(n, type)[i] = IF r.type = type /\ r.name = n THEN Append(FirstRecords(n, type)[i - 1], a)
                                           ELSE FirstRecords(n, type)[i - 1]
  <2>1. Listed(n, type, i) <=> r.type = type /\ r.name = n
    BY <1>1 DEF Listed
  <2>2. Those(n, type, i) = IF Listed(n, type, i) THEN Those(n, type, i - 1) \cup {a} ELSE Those(n, type, i - 1)
    BY <1>1, <1>3, ThoseNext
  <2>3. FirstRecords(n, type)[i] = OneMore(n, type, i, FirstRecords(n, type)[i - 1])
    BY FirstRecordsIs
  <2> QED
    BY <2>1, <2>2, <2>3, <1>1 DEF OneMore
<1>7. CASE ~e.ok \/ r.type \notin {"A", "AAAA"}
  <2>1. f = e
    BY <1>2, <1>7 DEF ReadRecord
  <2>2. e.ok <=> Fits(n, i)
    BY <1>5, <1>7 DEF ReadUpTo
  <2>3. Those(n, "A", i - 1) \subseteq Those(n, "A", i) /\ Those(n, "AAAA", i - 1) \subseteq Those(n, "AAAA", i)
    BY <1>6
  <2>4. e.ok => /\ FirstRecords(n, "A")[i] = FirstRecords(n, "A")[i - 1]
                /\ FirstRecords(n, "AAAA")[i] = FirstRecords(n, "AAAA")[i - 1]
    BY <1>6, <1>7
  <2>5. ReadUpTo(e, n, i)
    BY <2>2, <2>3, <2>4 DEF ReadUpTo
  <2> QED
    BY <2>1, <2>5, <1>1, <1>2
<1>8. CASE e.ok /\ r.type \in {"A", "AAAA"} /\ r.name # n
  <2>1. PICK g : g = [e EXCEPT !.ok = FALSE]
    OBVIOUS
  <2>2. g = CheckName(e, num, r.name) /\ g.ok = FALSE /\ g.v4 = e.v4 /\ g.v6 = e.v6 /\ g \in Readings /\ g.name = n
    BY <2>1, <1>4, <1>8 DEF CheckName, Readings
  <2>3. f = g
    BY <2>2, <1>2, <1>8 DEF ReadRecord, AddRecord
  <2>4. Those(n, "A", i - 1) \subseteq Those(n, "A", i) /\ Those(n, "AAAA", i - 1) \subseteq Those(n, "AAAA", i)
    BY <1>6
  <2>5. ReadUpTo(g, n, i)
    BY <2>2, <2>4, <1>5, <1>8 DEF ReadUpTo
  <2> QED
    BY <2>3, <2>5, <1>1, <1>2
<1>9. CASE e.ok /\ r.type = "A" /\ r.name = n
  <2>1. PICK g, s : g = [e EXCEPT !.v4 = s] /\ s = Append(e.v4, a)
    OBVIOUS
  <2>2. s \in Seq(Any) /\ Range(s) = Range(e.v4) \cup {a}
    <3>1. a \in Any /\ e.v4 \in Seq(Any)
      BY <1>1, <1>4
    <3>2. Append(e.v4, a) \in Seq(Any) /\ Range(Append(e.v4, a)) = Range(e.v4) \cup {a}
      BY ONLY <3>1, RangeOfAppend, Appending
    <3> QED
      BY <2>1, <3>2
  <2>3. g \in Readings /\ g.name = n /\ g.ok = e.ok /\ g.v4 = s /\ g.v6 = e.v6
    BY <2>1, <2>2, <1>4 DEF Readings
  <2>4. PICK h : h = [e EXCEPT !.ok = TRUE]
    OBVIOUS
  <2>5. h = CheckName(e, num, r.name) /\ h.ok /\ h.v4 = e.v4 /\ e.ok = TRUE /\ h = e
    BY <2>4, <1>4, <1>9 DEF CheckName, Readings
  <2>6. f = AddRecord(h, r)
    BY <2>5, <1>2, <1>9 DEF ReadRecord
  <2>7. f = g
    BY <2>1, <2>5, <2>6, <1>1, <1>9 DEF AddRecord
  <2>8. /\ Those(n, "A", i) = Those(n, "A", i - 1) \cup {a} /\ Those(n, "AAAA", i) = Those(n, "AAAA", i - 1)
        /\ FirstRecords(n, "A")[i] = Append(FirstRecords(n, "A")[i - 1], a)
        /\ FirstRecords(n, "AAAA")[i] = FirstRecords(n, "AAAA")[i - 1]
    BY <1>6, <1>9
  <2>9. ReadUpTo(g, n, i)
    BY <2>1, <2>2, <2>3, <2>8, <1>5, <1>9 DEF ReadUpTo
  <2> QED
    BY <2>7, <2>9, <1>1, <1>2
<1>10. CASE e.ok /\ r.type = "AAAA" /\ r.name = n
  <2>1. PICK g, s : g = [e EXCEPT !.v6 = s] /\ s = Append(e.v6, a)
    OBVIOUS
  <2>2. s \in Seq(Any) /\ Range(s) = Range(e.v6) \cup {a}
    <3>1. a \in Any /\ e.v6 \in Seq(Any)
      BY <1>1, <1>4
    <3>2. Append(e.v6, a) \in Seq(Any) /\ Range(Append(e.v6, a)) = Range(e.v6) \cup {a}
      BY ONLY <3>1, RangeOfAppend, Appending
    <3> QED
      BY <2>1, <3>2
  <2>3. g \in Readings /\ g.name = n /\ g.ok = e.ok /\ g.v6 = s /\ g.v4 = e.v4
    BY <2>1, <2>2, <1>4 DEF Readings
  <2>4. PICK h : h = [e EXCEPT !.ok = TRUE]
    OBVIOUS
  <2>5. h = CheckName(e, num, r.name) /\ h.ok /\ h.v6 = e.v6 /\ e.ok = TRUE /\ h = e
    BY <2>4, <1>4, <1>10 DEF CheckName, Readings
  <2>6. f = AddRecord(h, r)
    BY <2>5, <1>2, <1>10 DEF ReadRecord
  <2>7. f = g
    BY <2>1, <2>5, <2>6, <1>1, <1>10 DEF AddRecord
  <2>8. /\ Those(n, "AAAA", i) = Those(n, "AAAA", i - 1) \cup {a} /\ Those(n, "A", i) = Those(n, "A", i - 1)
        /\ FirstRecords(n, "AAAA")[i] = Append(FirstRecords(n, "AAAA")[i - 1], a)
        /\ FirstRecords(n, "A")[i] = FirstRecords(n, "A")[i - 1]
    BY <1>6, <1>10
  <2>9. ReadUpTo(g, n, i)
    BY <2>1, <2>2, <2>3, <2>8, <1>5, <1>10 DEF ReadUpTo
  <2> QED
    BY <2>7, <2>9, <1>1, <1>2
<1> QED
  BY <1>7, <1>8, <1>9, <1>10

\* An answer that is expected is read about its name, to its end if all of its
\* records are about it; another one is not read.
LEMMA ReadAnswerIs ==
    ASSUME NamesAreRight, NEW n \in Names, NEW num, NEW e,
           e = ReadAnswer([num |-> num, name |-> n, records |-> Zone[n]])
    PROVE  /\ n \in DOMAIN waiting_reqs /\ num = waiting_reqs[n].num => ReadUpTo(e, n, Len(Zone[n]))
           /\ ~(n \in DOMAIN waiting_reqs /\ num = waiting_reqs[n].num) => e.name = "" /\ ~e.ok
<1>1. PICK m \in Nat : m = Len(Zone[n])
  BY ZoneIs
<1>2. PICK b : b = CheckName([name |-> "", ok |-> TRUE, v4 |-> <<>>, v6 |-> <<>>], num, n)
  OBVIOUS
<1>3. b \in Readings
  <2>1. [name |-> "", ok |-> TRUE, v4 |-> <<>>, v6 |-> <<>>] \in Readings
    BY DEF Readings
  <2> QED
    BY <2>1, <1>2, CheckedIs
<1>4. PICK s : s = [i \in 1..m |-> [x \in Readings |-> ReadRecord(x, num, Zone[n][i])]]
  OBVIOUS
<1>5. s \in Moves(m, Readings)
  <2>1. \A i \in 1..m, x \in Readings : ReadRecord(x, num, Zone[n][i]) \in Readings
    BY <1>1, ZoneIs, ReadRecordIs
  <2> QED
    BY <2>1, <1>4 DEF Moves
<1>6. PICK g : Run(m, Readings, b, s, g)
  BY <1>3, <1>5, Iterates
<1>7. g \in [0..m -> Readings] /\ g[0] = b /\ \A i \in 1..m : g[i] = ReadRecord(g[i - 1], num, Zone[n][i])
  <2>1. g \in [0..m -> Readings] /\ g[0] = b /\ \A i \in 1..m : g[i] = s[i][g[i - 1]]
    BY <1>6 DEF Run
  <2>2. \A i \in 1..m : g[i - 1] \in Readings
    BY <2>1
  <2>3. \A i \in 1..m, x \in Readings : s[i][x] = ReadRecord(x, num, Zone[n][i])
    BY <1>4
  <2> QED
    BY <2>1, <2>2, <2>3
<1>8. PICK q : q = [num |-> num, name |-> n, records |-> Zone[n]]
  OBVIOUS
<1>9. q.num = num /\ q.name = n /\ q.records = Zone[n]
  BY <1>8
<1> DEFINE f == CHOOSE f : f = [i \in 0..Len(q.records) |->
                  IF i = 0 THEN CheckName([name |-> "", ok |-> TRUE, v4 |-> <<>>, v6 |-> <<>>], q.num, q.name)
                  ELSE ReadRecord(f[i - 1], q.num, q.records[i])]
<1>10. e = f[m]
  BY <1>1, <1>8, <1>9 DEF ReadAnswer
<1>11. f = [i \in 0..m |-> IF i = 0 THEN b ELSE ReadRecord(f[i - 1], num, Zone[n][i])]
  <2>1. g = [i \in 0..m |-> IF i = 0 THEN b ELSE ReadRecord(g[i - 1], num, Zone[n][i])]
    BY <1>7
  <2>2. g = [i \in 0..Len(q.records) |->
                  IF i = 0 THEN CheckName([name |-> "", ok |-> TRUE, v4 |-> <<>>, v6 |-> <<>>], q.num, q.name)
                  ELSE ReadRecord(g[i - 1], q.num, q.records[i])]
    BY <2>1, <1>1, <1>2, <1>9
  <2>3. f = [i \in 0..Len(q.records) |->
                  IF i = 0 THEN CheckName([name |-> "", ok |-> TRUE, v4 |-> <<>>, v6 |-> <<>>], q.num, q.name)
                  ELSE ReadRecord(f[i - 1], q.num, q.records[i])]
    BY <2>2
  <2> HIDE DEF f
  <2> QED
    BY <2>3, <1>1, <1>2, <1>9
<1> HIDE DEF f
<1>12. f[0] = b /\ \A i \in 1..m : f[i] = ReadRecord(f[i - 1], num, Zone[n][i])
  BY <1>11
<1>13. ASSUME n \in DOMAIN waiting_reqs, num = waiting_reqs[n].num PROVE ReadUpTo(f[m], n, m)
  <2>1. b = [name |-> n, ok |-> TRUE, v4 |-> Kept(n).v4, v6 |-> Kept(n).v6]
    BY <1>2, <1>13 DEF CheckName
  <2>2. ReadUpTo(b, n, 0)
    <3>1. b.name = n /\ b.ok = TRUE /\ b.v4 = Kept(n).v4 /\ b.v6 = Kept(n).v6
      BY <2>1
    <3>2. FirstRecords(n, "A")[0] = <<>> /\ FirstRecords(n, "AAAA")[0] = <<>> /\ Fits(n, 0)
      BY FirstRecordsIs DEF Fits
    <3> QED
      BY <3>1, <3>2, <1>3 DEF ReadUpTo
  <2> DEFINE S == {i \in 0..m : ReadUpTo(f[i], n, i)}
  <2>3. 0 \in S
    BY <2>2, <1>12
  <2>4. ASSUME NEW i \in 1..m, i - 1 \in S PROVE i \in S
    <3>1. ReadUpTo(f[i - 1], n, i - 1) /\ i \in 0..m
      BY <2>4
    <3>2. ReadUpTo(ReadRecord(f[i - 1], num, Zone[n][i]), n, i)
      BY <3>1, <1>1, ReadNext
    <3> QED
      BY <3>1, <3>2, <1>12
  <2>5. \A i \in S : ReadUpTo(f[i], n, i)
    OBVIOUS
  <2> HIDE DEF S
  <2>6. 0..m \subseteq S
    BY <2>3, <2>4, UpTo
  <2> QED
    BY <2>5, <2>6
<1>14. ASSUME ~(n \in DOMAIN waiting_reqs /\ num = waiting_reqs[n].num) PROVE f[m].name = "" /\ ~f[m].ok
  <2>1. b.name = "" /\ ~b.ok
    <3>1. PICK c : c = [name |-> "", ok |-> TRUE, v4 |-> <<>>, v6 |-> <<>>]
      OBVIOUS
    <3>2. b = [c EXCEPT !.ok = FALSE] /\ c.name = ""
      BY <3>1, <1>2, <1>14 DEF CheckName
    <3> QED
      BY <3>1, <3>2
  <2> DEFINE P(x) == x.name = "" /\ ~x.ok
             S == {i \in 0..m : P(f[i])}
  <2>3. 0 \in S
    <3>1. P(f[0])
      BY <2>1, <1>12
    <3>2. 0 \in 0..m
      BY <1>1
    <3> HIDE DEF P
    <3> QED
      BY <3>1, <3>2
  <2>4. ASSUME NEW i \in 1..m, i - 1 \in S PROVE i \in S
    <3>1. P(f[i - 1]) /\ i \in 0..m
      <4> HIDE DEF P
      <4> QED
        BY <2>4
    <3>2. f[i] = f[i - 1]
      BY <3>1, <1>12 DEF ReadRecord
    <3> HIDE DEF P
    <3> QED
      BY <3>1, <3>2
  <2>5. \A i \in S : P(f[i])
    <3> HIDE DEF P
    <3> QED
      OBVIOUS
  <2> HIDE DEF S
  <2>6. 0..m \subseteq S
    BY <2>3, <2>4, UpTo
  <2>7. P(f[m])
    <3> HIDE DEF P
    <3> QED
      BY <2>5, <2>6
  <2> QED
    BY <2>7
<1> QED
  BY <1>1, <1>10, <1>13, <1>14

-----------------------------------------------------------------------------
AnswerKinds == [id : Nat, v4 : Seq(Any), v6 : Seq(Any)]
Requests == [num : Nums, ok : Seq(Nat)]
DnsTypes ==
    /\ NamesAreRight /\ known \subseteq Names
    /\ asked \in Seq(Names) /\ queries \in Seq([num : Nums, name : Names]) /\ answers \in Seq(AnswerKinds)
    /\ cached_entries \in [DOMAIN cached_entries -> Entries]
    /\ waiting_reqs \in [DOMAIN waiting_reqs -> Requests]

\* The addresses are of a name of the cache, all of them if an answer was read to
\* its end: D are the names of the cache, K those that are known.
AllOf(n, type) == Those(n, type, Len(Zone[n]))
EntryRight(D, K, n, e) ==
    /\ n \in D
    /\ Range(e.v4) \subseteq AllOf(n, "A") /\ Range(e.v6) \subseteq AllOf(n, "AAAA")
    /\ n \in K => e.v4 = RecordsOf(n, "A") /\ e.v6 = RecordsOf(n, "AAAA")

\* A name whose answers can be read to their end is in the cache with all of its
\* addresses or not at all.
CacheRight ==
    /\ \A n \in DOMAIN cached_entries : EntryRight(DOMAIN cached_entries, known, n, cached_entries[n])
    /\ \A n \in DOMAIN cached_entries : Fits(n, Len(Zone[n])) => n \in known
    /\ known \subseteq DOMAIN cached_entries /\ known \cap DOMAIN waiting_reqs = {}
RepliesRight ==
    /\ \A i, j \in DOMAIN answers : answers[i].id = answers[j].id => i = j
    /\ \A i \in DOMAIN answers : answers[i].id \in 1..Len(asked) /\ EntryRight(DOMAIN cached_entries, known, asked[answers[i].id], answers[i])
WaitsRight ==
    \A n \in DOMAIN waiting_reqs :
        /\ \A i \in DOMAIN waiting_reqs[n].ok : waiting_reqs[n].ok[i] \in 1..Len(asked) /\ asked[waiting_reqs[n].ok[i]] = n
        /\ \A i, j \in DOMAIN waiting_reqs[n].ok : i < j => waiting_reqs[n].ok[i] < waiting_reqs[n].ok[j]

IsAnswered(id) == \E i \in DOMAIN answers : answers[i].id = id
WaitsFor(n, id) == n \in DOMAIN waiting_reqs /\ \E i \in DOMAIN waiting_reqs[n].ok : waiting_reqs[n].ok[i] = id
AllServed == \A id \in 1..Len(asked) : IsAnswered(id) <=> ~WaitsFor(asked[id], id)

AskedOnce ==
    /\ \A i, j \in DOMAIN queries : queries[i].name = queries[j].name => i = j
    /\ \A i \in DOMAIN queries : queries[i].name \in DOMAIN waiting_reqs \cup DOMAIN cached_entries
    /\ Len(written[Server]) = Len(queries)
DnsInv == UdpInv /\ DnsTypes /\ CacheRight /\ RepliesRight /\ WaitsRight /\ AllServed /\ AskedOnce

LEMMA DnsInitIs == UdpInit /\ DnsInit => DnsInv
<1> SUFFICES ASSUME UdpInit, DnsInit PROVE DnsInv
  OBVIOUS
<1>1. UdpInv
  BY UdpInitIs
<1>2. DOMAIN cached_entries = {} /\ DOMAIN waiting_reqs = {} /\ asked = <<>> /\ queries = <<>> /\ answers = <<>> /\ known = {}
  BY DEF DnsInit, Empty
<1>3. DnsTypes
  <2>1. cached_entries \in [DOMAIN cached_entries -> Entries] /\ waiting_reqs \in [DOMAIN waiting_reqs -> Requests]
    BY DEF DnsInit, Empty
  <2> QED
    BY <2>1, <1>2 DEF DnsTypes, NamesAreRight
<1>4. CacheRight /\ RepliesRight /\ WaitsRight /\ AllServed
  BY <1>2 DEF CacheRight, RepliesRight, WaitsRight, AllServed
<1>5. AskedOnce
  <2>1. written[Server] = <<>>
    BY DnsAssumption DEF UdpInit
  <2> QED
    BY <2>1, <1>2 DEF AskedOnce
<1> QED
  BY <1>1, <1>3, <1>4, <1>5 DEF DnsInv

\* A query is numbered after the others.
LEMMA NewQuery ==
    ASSUME DnsInv, NEW name \in Names, asked' = Append(asked, name)
    PROVE  /\ asked' \in Seq(Names) /\ Len(asked) \in Nat /\ Len(asked') = Len(asked) + 1
           /\ asked'[Len(asked) + 1] = name /\ \A i \in 1..Len(asked) : asked'[i] = asked[i]
           /\ \A i \in 1..Len(asked') : i \in 1..Len(asked) \/ i = Len(asked) + 1
           /\ \A i \in DOMAIN answers : answers[i].id \in 1..Len(asked)
           /\ \A n : ~WaitsFor(n, Len(asked) + 1)
<1>1. asked \in Seq(Names) /\ Len(asked) \in Nat
  BY DEF DnsInv, DnsTypes
<1>2. asked' \in Seq(Names) /\ Len(asked') = Len(asked) + 1 /\ asked'[Len(asked) + 1] = name
      /\ \A i \in 1..Len(asked) : asked'[i] = asked[i]
  BY <1>1, Appending
<1>3. \A n : ~WaitsFor(n, Len(asked) + 1)
  BY <1>1 DEF DnsInv, WaitsRight, WaitsFor
<1>4. \A i \in 1..Len(asked') : i \in 1..Len(asked) \/ i = Len(asked) + 1
  BY <1>1, <1>2
<1> QED
  BY <1>1, <1>2, <1>3, <1>4 DEF DnsInv, RepliesRight

LEMMA CachedKeeps ==
    ASSUME DnsInv, NEW name \in Names, Query(name), Cached(name)
    PROVE  DnsInv'
<1>1. PICK k \in Nat : k = Len(asked)
  BY DEF DnsInv, DnsTypes
<1>2. /\ asked' = Append(asked, name) /\ cached_entries' = cached_entries /\ known' = known
      /\ waiting_reqs' = waiting_reqs /\ queries' = queries /\ udp' = udp /\ written' = written
  BY DEF Query, Cached, udpvars
<1>3. PICK r : r = AnswerTo(k + 1, cached_entries[name]) /\ answers' = Append(answers, r) /\ name \in DOMAIN cached_entries
  BY <1>1 DEF Cached
<1>4. r.id = k + 1 /\ r.v4 = cached_entries[name].v4 /\ r.v6 = cached_entries[name].v6 /\ r \in AnswerKinds
  BY <1>3 DEF AnswerTo, AnswerKinds, DnsInv, DnsTypes, Entries
<1>5. /\ asked' \in Seq(Names) /\ Len(asked') = k + 1 /\ asked'[k + 1] = name
      /\ \A i \in 1..k : asked'[i] = asked[i]
      /\ \A i \in 1..k + 1 : i \in 1..k \/ i = k + 1
      /\ \A i \in DOMAIN answers : answers[i].id \in 1..k
      /\ \A n : ~WaitsFor(n, k + 1)
  BY <1>1, <1>2, NewQuery
<1>6. PICK l \in Nat : /\ l = Len(answers) /\ DOMAIN answers = 1..l /\ DOMAIN answers' = 1..l + 1 /\ answers' \in Seq(AnswerKinds)
                       /\ answers'[l + 1] = r /\ \A i \in 1..l : answers'[i] = answers[i]
  <2>1. answers \in Seq(AnswerKinds) /\ r \in AnswerKinds
    BY <1>4 DEF DnsInv, DnsTypes
  <2>2. Len(answers) \in Nat /\ DOMAIN answers = 1..Len(answers)
    BY <2>1
  <2>3. /\ Append(answers, r) \in Seq(AnswerKinds) /\ DOMAIN Append(answers, r) = 1..Len(answers) + 1
        /\ Append(answers, r)[Len(answers) + 1] = r /\ \A i \in 1..Len(answers) : Append(answers, r)[i] = answers[i]
    BY ONLY <2>1, Appending
  <2> QED
    BY <2>2, <2>3, <1>3, Zenon
<1>7. DnsTypes'
  BY <1>2, <1>5, <1>6 DEF DnsInv, DnsTypes, NamesAreRight
<1>8. CacheRight'
  BY <1>2 DEF DnsInv, CacheRight, EntryRight
<1>9. WaitsRight'
  <2>1. \A n \in DOMAIN waiting_reqs : \A i \in DOMAIN waiting_reqs[n].ok :
           waiting_reqs[n].ok[i] \in 1..k /\ asked[waiting_reqs[n].ok[i]] = n
    BY <1>1 DEF DnsInv, WaitsRight
  <2>2. \A i \in 1..k : i \in 1..k + 1
    OBVIOUS
  <2> QED
    BY <2>1, <2>2, <1>2, <1>5 DEF DnsInv, WaitsRight
<1>10. \A id \in 1..k + 1 : IsAnswered(id)' <=> IsAnswered(id) \/ id = k + 1
  <2>1. \A i \in 1..l : i \in 1..l + 1
    OBVIOUS
  <2>2. l + 1 \in 1..l + 1 /\ \A i \in 1..l + 1 : i \in 1..l \/ i = l + 1
    OBVIOUS
  <2> QED
    BY <2>1, <2>2, <1>4, <1>6 DEF IsAnswered
<1>11. AllServed'
  <2>1. ASSUME NEW id \in 1..k + 1 PROVE IsAnswered(id)' <=> ~WaitsFor(asked'[id], id)
    <3>1. CASE id \in 1..k
      <4>1. id # k + 1 /\ (IsAnswered(id) <=> ~WaitsFor(asked[id], id))
        BY <3>1, <1>1 DEF DnsInv, AllServed
      <4> QED
        BY <3>1, <4>1, <1>5, <1>10
    <3>2. CASE id = k + 1
      BY <3>2, <1>5, <1>10
    <3> QED
      BY <3>1, <3>2, <1>5
  <2>2. \A n, id : WaitsFor(n, id)' <=> WaitsFor(n, id)
    BY <1>2 DEF WaitsFor
  <2> QED
    BY <2>1, <2>2, <1>5 DEF AllServed
<1>12. RepliesRight'
  <2>1. \A i, j \in 1..l + 1 : answers'[i].id = answers'[j].id => i = j
    <3>1. \A i, j \in 1..l : answers[i].id = answers[j].id => i = j
      BY <1>6 DEF DnsInv, RepliesRight
    <3>2. \A i \in 1..l : answers[i].id # k + 1
      BY <1>5, <1>6
    <3>3. \A i \in 1..l + 1 : i \in 1..l \/ i = l + 1
      OBVIOUS
    <3> QED
      BY <3>1, <3>2, <3>3, <1>4, <1>6
  <2>2. ASSUME NEW i \in 1..l + 1
        PROVE  answers'[i].id \in 1..k + 1 /\ EntryRight(DOMAIN cached_entries, known, asked'[answers'[i].id], answers'[i])
    <3>1. CASE i \in 1..l
      <4>1. answers[i].id \in 1..k /\ EntryRight(DOMAIN cached_entries, known, asked[answers[i].id], answers[i]) /\ answers'[i] = answers[i]
        BY <3>1, <1>1, <1>6 DEF DnsInv, RepliesRight
      <4>2. asked'[answers[i].id] = asked[answers[i].id] /\ answers[i].id \in 1..k + 1
        BY <4>1, <1>5
      <4> QED
        BY <4>1, <4>2
    <3>2. CASE i = l + 1
      <4>1. EntryRight(DOMAIN cached_entries, known, name, cached_entries[name])
        BY <1>3 DEF DnsInv, CacheRight
      <4>2. EntryRight(DOMAIN cached_entries, known, name, r)
        BY <4>1, <1>4 DEF EntryRight
      <4> QED
        BY <3>2, <4>2, <1>4, <1>5, <1>6
    <3> QED
      BY <3>1, <3>2
  <2>3. \A n, e : EntryRight(DOMAIN cached_entries', known', n, e) <=> EntryRight(DOMAIN cached_entries, known, n, e)
    BY <1>2 DEF EntryRight
  <2> QED
    BY <2>1, <2>2, <2>3, <1>5, <1>6 DEF RepliesRight
<1>13. AskedOnce' /\ UdpInv'
  BY <1>2 DEF DnsInv, AskedOnce, UdpInv, Flushes
<1> QED
  BY <1>7, <1>8, <1>9, <1>11, <1>12, <1>13 DEF DnsInv

LEMMA AddedKeeps ==
    ASSUME DnsInv, NEW name \in Names, Query(name), Added(name)
    PROVE  DnsInv'
<1>1. PICK k \in Nat : k = Len(asked)
  BY DEF DnsInv, DnsTypes
<1>2. /\ asked' = Append(asked, name) /\ cached_entries' = cached_entries /\ known' = known
      /\ answers' = answers /\ queries' = queries /\ udp' = udp /\ written' = written
      /\ name \in DOMAIN waiting_reqs
      /\ waiting_reqs' = [waiting_reqs EXCEPT ![name].ok = Append(@, k + 1)]
  BY <1>1 DEF Query, Added, udpvars
<1>5. /\ asked' \in Seq(Names) /\ Len(asked') = k + 1 /\ asked'[k + 1] = name
      /\ \A i \in 1..k : asked'[i] = asked[i]
      /\ \A i \in 1..k + 1 : i \in 1..k \/ i = k + 1
      /\ \A i \in DOMAIN answers : answers[i].id \in 1..k
      /\ \A n : ~WaitsFor(n, k + 1)
  BY <1>1, <1>2, NewQuery
<1>6. PICK l \in Nat, s, t \in Seq(Nat) :
           /\ s = waiting_reqs[name].ok /\ DOMAIN s = 1..l /\ DOMAIN t = 1..l + 1 /\ t = Append(s, k + 1)
           /\ t[l + 1] = k + 1 /\ \A i \in 1..l : t[i] = s[i]
  <2>1. waiting_reqs[name].ok \in Seq(Nat)
    BY <1>2 DEF DnsInv, DnsTypes, Requests
  <2>2. PICK s : s = waiting_reqs[name].ok /\ s \in Seq(Nat)
    BY <2>1
  <2>3. Len(s) \in Nat /\ DOMAIN s = 1..Len(s) /\ k + 1 \in Nat
    BY <2>2
  <2>4. /\ Append(s, k + 1) \in Seq(Nat) /\ DOMAIN Append(s, k + 1) = 1..Len(s) + 1
        /\ Append(s, k + 1)[Len(s) + 1] = k + 1 /\ \A i \in 1..Len(s) : Append(s, k + 1)[i] = s[i]
    BY ONLY <2>2, <2>3, Appending
  <2> QED
    BY <2>2, <2>3, <2>4, Zenon
<1>7. /\ waiting_reqs' \in [DOMAIN waiting_reqs -> Requests] /\ DOMAIN waiting_reqs' = DOMAIN waiting_reqs
      /\ waiting_reqs'[name].ok = t /\ \A n \in DOMAIN waiting_reqs : n # name => waiting_reqs'[n] = waiting_reqs[n]
  <2>1. waiting_reqs \in [DOMAIN waiting_reqs -> Requests]
    BY DEF DnsInv, DnsTypes
  <2>2. waiting_reqs' = [waiting_reqs EXCEPT ![name] = [waiting_reqs[name] EXCEPT !.ok = t]]
    BY <1>2, <1>6
  <2>3. [waiting_reqs[name] EXCEPT !.ok = t] \in Requests /\ [waiting_reqs[name] EXCEPT !.ok = t].ok = t
    BY <2>1, <1>2, <1>6 DEF Requests
  <2> QED
    BY <2>1, <2>2, <2>3, <1>2
<1>8. DnsTypes'
  BY <1>2, <1>5, <1>7 DEF DnsInv, DnsTypes, NamesAreRight
<1>9. CacheRight'
  BY <1>2, <1>7 DEF DnsInv, CacheRight, EntryRight
<1>10. WaitsRight'
  <2>1. ASSUME NEW n \in DOMAIN waiting_reqs, n # name
        PROVE  /\ \A i \in DOMAIN waiting_reqs'[n].ok : waiting_reqs'[n].ok[i] \in 1..k + 1 /\ asked'[waiting_reqs'[n].ok[i]] = n
               /\ \A i, j \in DOMAIN waiting_reqs'[n].ok : i < j => waiting_reqs'[n].ok[i] < waiting_reqs'[n].ok[j]
    <3>1. waiting_reqs'[n] = waiting_reqs[n]
      BY <2>1, <1>7
    <3>2. \A i \in 1..k : i \in 1..k + 1
      OBVIOUS
    <3> QED
      BY <3>1, <3>2, <1>1, <1>5 DEF DnsInv, WaitsRight
  <2>2. \A i \in 1..l : s[i] \in 1..k /\ asked[s[i]] = name
    BY <1>1, <1>2, <1>6 DEF DnsInv, WaitsRight
  <2>3. \A i, j \in 1..l : i < j => s[i] < s[j]
    BY <1>2, <1>6 DEF DnsInv, WaitsRight
  <2>4. \A i \in 1..l + 1 : i \in 1..l \/ i = l + 1
    OBVIOUS
  <2>5. \A i \in 1..l + 1 : t[i] \in 1..k + 1 /\ asked'[t[i]] = name
    BY <2>2, <2>4, <1>5, <1>6
  <2>6. ASSUME NEW i \in 1..l + 1, NEW j \in 1..l + 1, i < j PROVE t[i] < t[j]
    <3>1. i \in 1..l /\ t[i] = s[i]
      BY <2>6, <1>6
    <3>2. CASE j \in 1..l
      BY <3>1, <3>2, <2>3, <2>6, <1>6
    <3>3. CASE j = l + 1
      <4>1. s[i] < k + 1
        BY <3>1, <2>2
      <4> QED
        BY <3>1, <3>3, <4>1, <1>6
    <3> QED
      BY <3>2, <3>3, <2>4
  <2>7. DOMAIN t = 1..l + 1 /\ waiting_reqs'[name].ok = t /\ Len(asked') = k + 1 /\ DOMAIN waiting_reqs' = DOMAIN waiting_reqs
    BY <1>5, <1>6, <1>7
  <2>8. \A i, j \in DOMAIN t : i < j => t[i] < t[j]
    BY <2>6, <2>7
  <2>9. ASSUME NEW n \in DOMAIN waiting_reqs'
        PROVE  /\ \A i \in DOMAIN waiting_reqs'[n].ok : waiting_reqs'[n].ok[i] \in 1..k + 1 /\ asked'[waiting_reqs'[n].ok[i]] = n
               /\ \A i, j \in DOMAIN waiting_reqs'[n].ok : i < j => waiting_reqs'[n].ok[i] < waiting_reqs'[n].ok[j]
    <3>1. CASE n = name
      BY <3>1, <2>5, <2>7, <2>8
    <3>2. CASE n # name
      BY <3>2, <2>1, <2>7
    <3> QED
      BY <3>1, <3>2
  <2> QED
    BY <2>7, <2>9 DEF WaitsRight
<1>11. \A n, id : WaitsFor(n, id)' <=> WaitsFor(n, id) \/ (n = name /\ id = k + 1)
  <2>1. \A i \in 1..l : i \in 1..l + 1
    OBVIOUS
  <2>2. l + 1 \in 1..l + 1 /\ \A i \in 1..l + 1 : i \in 1..l \/ i = l + 1
    OBVIOUS
  <2>3. \A id : WaitsFor(name, id)' <=> WaitsFor(name, id) \/ id = k + 1
    BY <2>1, <2>2, <1>2, <1>6, <1>7 DEF WaitsFor
  <2>4. \A n, id : n # name => (WaitsFor(n, id)' <=> WaitsFor(n, id))
    BY <1>7 DEF WaitsFor
  <2> QED
    BY <2>3, <2>4
<1>12. AllServed'
  <2>1. \A id : IsAnswered(id)' <=> IsAnswered(id)
    BY <1>2 DEF IsAnswered
  <2>2. ~IsAnswered(k + 1)
    BY <1>5 DEF IsAnswered
  <2>3. ASSUME NEW id \in 1..k + 1 PROVE IsAnswered(id) <=> ~(WaitsFor(asked'[id], id) \/ (asked'[id] = name /\ id = k + 1))
    <3>1. CASE id \in 1..k
      <4>1. id # k + 1 /\ (IsAnswered(id) <=> ~WaitsFor(asked[id], id))
        BY <3>1, <1>1 DEF DnsInv, AllServed
      <4> QED
        BY <3>1, <4>1, <1>5
    <3>2. CASE id = k + 1
      BY <3>2, <2>2, <1>5
    <3> QED
      BY <3>1, <3>2, <1>5
  <2> QED
    BY <2>1, <2>3, <1>5, <1>11 DEF AllServed
<1>13. RepliesRight'
  <2>1. \A n, e : EntryRight(DOMAIN cached_entries', known', n, e) <=> EntryRight(DOMAIN cached_entries, known, n, e)
    BY <1>2 DEF EntryRight
  <2>2. ASSUME NEW i \in DOMAIN answers
        PROVE  answers[i].id \in 1..k + 1 /\ EntryRight(DOMAIN cached_entries, known, asked'[answers[i].id], answers[i])
    <3>1. answers[i].id \in 1..k /\ EntryRight(DOMAIN cached_entries, known, asked[answers[i].id], answers[i])
      BY <1>1 DEF DnsInv, RepliesRight
    <3> QED
      BY <3>1, <1>5
  <2> QED
    BY <2>1, <2>2, <1>2, <1>5 DEF DnsInv, RepliesRight
<1>14. AskedOnce' /\ UdpInv'
  BY <1>2, <1>7 DEF DnsInv, AskedOnce, UdpInv, Flushes
<1> QED
  BY <1>8, <1>9, <1>10, <1>12, <1>13, <1>14 DEF DnsInv

LEMMA AskedKeeps ==
    ASSUME DnsInv, NEW name \in Names, Query(name), Asked(name)
    PROVE  DnsInv'
<1>1. PICK k \in Nat, l \in Nat : k = Len(asked) /\ l = Len(queries) /\ DOMAIN queries = 1..l
  BY DEF DnsInv, DnsTypes
<1>2. /\ asked' = Append(asked, name) /\ cached_entries' = cached_entries /\ known' = known
      /\ answers' = answers
      /\ name \notin DOMAIN waiting_reqs /\ name \notin DOMAIN cached_entries
      /\ Flushed(Server, l + 1)
  BY <1>1 DEF Query, Asked
<1>0. PICK num \in Nums : \E r, q :
        /\ r = [num |-> num, ok |-> <<k + 1>>] /\ q = [num |-> num, name |-> name]
        /\ waiting_reqs' = Put(waiting_reqs, name, r) /\ queries' = Append(queries, q)
  BY <1>1 DEF Asked
<1>3. PICK r, q : /\ r = [num |-> num, ok |-> <<k + 1>>] /\ q = [num |-> num, name |-> name]
                  /\ waiting_reqs' = Put(waiting_reqs, name, r) /\ queries' = Append(queries, q)
  BY <1>0
<1>4. r \in Requests /\ DOMAIN r.ok = {1} /\ r.ok[1] = k + 1
  BY <1>3 DEF Requests
<1>5. /\ asked' \in Seq(Names) /\ Len(asked') = k + 1 /\ asked'[k + 1] = name
      /\ \A i \in 1..k : asked'[i] = asked[i]
      /\ \A i \in 1..k + 1 : i \in 1..k \/ i = k + 1
      /\ \A i \in DOMAIN answers : answers[i].id \in 1..k
      /\ \A n : ~WaitsFor(n, k + 1)
  BY <1>1, <1>2, NewQuery
<1>6. /\ queries' \in Seq([num : Nums, name : Names]) /\ DOMAIN queries' = 1..l + 1 /\ Len(queries') = l + 1
      /\ queries'[l + 1].name = name /\ \A i \in 1..l : queries'[i] = queries[i]
  <2>1. queries \in Seq([num : Nums, name : Names]) /\ q \in [num : Nums, name : Names] /\ q.name = name
    BY <1>3 DEF DnsInv, DnsTypes
  <2>2. /\ Append(queries, q) \in Seq([num : Nums, name : Names]) /\ DOMAIN Append(queries, q) = 1..Len(queries) + 1
        /\ Append(queries, q)[Len(queries) + 1] = q /\ \A i \in 1..Len(queries) : Append(queries, q)[i] = queries[i]
        /\ Len(Append(queries, q)) = Len(queries) + 1
    BY ONLY <2>1, Appending
  <2> QED
    BY <2>1, <2>2, <1>1, <1>3, Zenon
<1>7. /\ DOMAIN waiting_reqs' = DOMAIN waiting_reqs \cup {name} /\ waiting_reqs'[name] = r
      /\ waiting_reqs' \in [DOMAIN waiting_reqs' -> Requests]
      /\ \A n \in DOMAIN waiting_reqs : n # name => waiting_reqs'[n] = waiting_reqs[n]
  BY <1>2, <1>3, <1>4 DEF Put, DnsInv, DnsTypes
<1>8. DnsTypes'
  BY <1>2, <1>5, <1>6, <1>7 DEF DnsInv, DnsTypes, NamesAreRight
<1>9. CacheRight'
  BY <1>2, <1>7 DEF DnsInv, CacheRight, EntryRight
<1>10. WaitsRight'
  <2>1. ASSUME NEW n \in DOMAIN waiting_reqs, n # name
        PROVE  /\ \A i \in DOMAIN waiting_reqs'[n].ok : waiting_reqs'[n].ok[i] \in 1..k + 1 /\ asked'[waiting_reqs'[n].ok[i]] = n
               /\ \A i, j \in DOMAIN waiting_reqs'[n].ok : i < j => waiting_reqs'[n].ok[i] < waiting_reqs'[n].ok[j]
    <3>1. waiting_reqs'[n] = waiting_reqs[n]
      BY <2>1, <1>7
    <3>2. \A i \in 1..k : i \in 1..k + 1
      OBVIOUS
    <3> QED
      BY <3>1, <3>2, <1>1, <1>5 DEF DnsInv, WaitsRight
  <2>2. k + 1 \in 1..k + 1
    OBVIOUS
  <2> QED
    BY <2>1, <2>2, <1>4, <1>5, <1>7 DEF WaitsRight
<1>11. \A n, id : WaitsFor(n, id)' <=> WaitsFor(n, id) \/ (n = name /\ id = k + 1)
  BY <1>2, <1>4, <1>7 DEF WaitsFor
<1>12. AllServed'
  <2>1. \A id : IsAnswered(id)' <=> IsAnswered(id)
    BY <1>2 DEF IsAnswered
  <2>2. ~IsAnswered(k + 1)
    BY <1>5 DEF IsAnswered
  <2>3. ASSUME NEW id \in 1..k + 1 PROVE IsAnswered(id) <=> ~(WaitsFor(asked'[id], id) \/ (asked'[id] = name /\ id = k + 1))
    <3>1. CASE id \in 1..k
      <4>1. id # k + 1 /\ (IsAnswered(id) <=> ~WaitsFor(asked[id], id))
        BY <3>1, <1>1 DEF DnsInv, AllServed
      <4> QED
        BY <3>1, <4>1, <1>5
    <3>2. CASE id = k + 1
      BY <3>2, <2>2, <1>5
    <3> QED
      BY <3>1, <3>2, <1>5
  <2> QED
    BY <2>1, <2>3, <1>5, <1>11 DEF AllServed
<1>13. RepliesRight'
  <2>1. \A n, e : EntryRight(DOMAIN cached_entries', known', n, e) <=> EntryRight(DOMAIN cached_entries, known, n, e)
    BY <1>2 DEF EntryRight
  <2>2. ASSUME NEW i \in DOMAIN answers
        PROVE  answers[i].id \in 1..k + 1 /\ EntryRight(DOMAIN cached_entries, known, asked'[answers[i].id], answers[i])
    <3>1. answers[i].id \in 1..k /\ EntryRight(DOMAIN cached_entries, known, asked[answers[i].id], answers[i])
      BY <1>1 DEF DnsInv, RepliesRight
    <3> QED
      BY <3>1, <1>5
  <2> QED
    BY <2>1, <2>2, <1>2, <1>5 DEF DnsInv, RepliesRight
<1>14. AskedOnce' /\ UdpInv'
  <2>1. Len(written[Server]) = l /\ UdpInv /\ Server \in Addrs
    BY <1>1, DnsAssumption DEF DnsInv, AskedOnce
  <2>2. UdpInv' /\ Len(written'[Server]) = l + 1
    BY <2>1, <1>2, FlushedKeeps
  <2>3. \A i \in 1..l : queries[i].name # name
    BY <1>1, <1>2 DEF DnsInv, AskedOnce
  <2>4. \A i \in 1..l + 1 : i \in 1..l \/ i = l + 1
    OBVIOUS
  <2>5. \A i, j \in 1..l + 1 : queries'[i].name = queries'[j].name => i = j
    <3>1. \A i, j \in 1..l : queries[i].name = queries[j].name => i = j
      BY <1>1 DEF DnsInv, AskedOnce
    <3> QED
      BY <3>1, <2>3, <2>4, <1>6
  <2>6. \A i \in 1..l + 1 : queries'[i].name \in DOMAIN waiting_reqs' \cup DOMAIN cached_entries'
    <3>1. \A i \in 1..l : queries[i].name \in DOMAIN waiting_reqs \cup DOMAIN cached_entries
      BY <1>1 DEF DnsInv, AskedOnce
    <3> QED
      BY <3>1, <2>4, <1>2, <1>6, <1>7
  <2> QED
    BY <2>2, <2>5, <2>6, <1>6 DEF AskedOnce
<1> QED
  BY <1>8, <1>9, <1>10, <1>12, <1>13, <1>14 DEF DnsInv

\* An answer that is not read changes nothing.
LEMMA NotReadKeeps ==
    ASSUME DnsInv, NEW e, e.name = "", ~e.ok, Parsed(e)
    PROVE  DnsInv'
<1>1. /\ cached_entries' = cached_entries /\ answers' = answers /\ waiting_reqs' = waiting_reqs /\ known' = known
      /\ asked' = asked /\ queries' = queries /\ udp' = udp /\ written' = written
  BY DEF Parsed, udpvars
<1>2. UdpInv' /\ AskedOnce' /\ DnsTypes'
  BY <1>1 DEF DnsInv, UdpInv, Flushes, AskedOnce, DnsTypes, NamesAreRight
<1>3. CacheRight' /\ RepliesRight'
  BY <1>1 DEF DnsInv, CacheRight, RepliesRight, EntryRight
<1>4. WaitsRight' /\ AllServed'
  BY <1>1 DEF DnsInv, WaitsRight, AllServed, IsAnswered, WaitsFor
<1> QED
  BY <1>2, <1>3, <1>4 DEF DnsInv

\* What was read is put in the cache.
LEMMA CacheGrows ==
    ASSUME DnsInv, NEW n \in DOMAIN waiting_reqs, NEW e, ReadUpTo(e, n, Len(Zone[n])),
           cached_entries' = Put(cached_entries, n, Entry(e)),
           known' = IF e.ok THEN known \cup {n} ELSE known
    PROVE  /\ cached_entries' \in [DOMAIN cached_entries' -> Entries]
           /\ DOMAIN cached_entries' = DOMAIN cached_entries \cup {n} /\ n \in Names /\ n \notin known
           /\ EntryRight(DOMAIN cached_entries', known', n, e) /\ EntryRight(DOMAIN cached_entries', known', n, Entry(e))
           /\ \A m \in DOMAIN cached_entries' : EntryRight(DOMAIN cached_entries', known', m, cached_entries'[m])
           /\ \A m \in DOMAIN cached_entries' : Fits(m, Len(Zone[m])) => m \in known'
           /\ \A m, x : m # n => (EntryRight(DOMAIN cached_entries', known', m, x) <=> EntryRight(DOMAIN cached_entries, known, m, x))
           /\ e.ok => n \notin DOMAIN cached_entries
<1>0. n \in Names /\ n \notin known
  BY DEF DnsInv, DnsTypes, NamesAreRight, CacheRight
<1>1. PICK c : c = Entry(e) /\ c \in Entries /\ c.v4 = e.v4 /\ c.v6 = e.v6
  <2>1. e.v4 \in Seq(Any) /\ e.v6 \in Seq(Any)
    BY DEF ReadUpTo, Readings
  <2>2. Entry(e) \in Entries /\ Entry(e).v4 = e.v4 /\ Entry(e).v6 = e.v6
    BY <2>1 DEF Entry, Entries
  <2> QED
    BY <2>2
<1>2. /\ cached_entries' \in [DOMAIN cached_entries' -> Entries] /\ DOMAIN cached_entries' = DOMAIN cached_entries \cup {n}
      /\ cached_entries'[n] = c /\ \A m \in DOMAIN cached_entries : m # n => cached_entries'[m] = cached_entries[m]
  BY <1>1 DEF Put, DnsInv, DnsTypes
<1>3. \A m, x : m # n => (EntryRight(DOMAIN cached_entries', known', m, x) <=> EntryRight(DOMAIN cached_entries, known, m, x))
  BY <1>2 DEF EntryRight
<1>4. e.ok <=> Fits(n, Len(Zone[n]))
  BY DEF ReadUpTo
<1>5. e.ok => n \notin DOMAIN cached_entries
  BY <1>0, <1>4 DEF DnsInv, CacheRight
<1>6. Range(Kept(n).v4) \subseteq AllOf(n, "A") /\ Range(Kept(n).v6) \subseteq AllOf(n, "AAAA")
  <2>1. CASE n \in DOMAIN cached_entries
    BY <2>1 DEF DnsInv, CacheRight, EntryRight, Kept
  <2>2. CASE n \notin DOMAIN cached_entries
    <3>1. Kept(n).v4 = <<>> /\ Kept(n).v6 = <<>>
      BY <2>2 DEF Kept
    <3>2. Range(<<>>) = {}
      BY DEF Range
    <3> QED
      BY <3>1, <3>2
  <2> QED
    BY <2>1, <2>2
<1>7. Range(e.v4) \subseteq AllOf(n, "A") /\ Range(e.v6) \subseteq AllOf(n, "AAAA")
  BY <1>6 DEF ReadUpTo, AllOf
<1>8. n \in known' => e.v4 = RecordsOf(n, "A") /\ e.v6 = RecordsOf(n, "AAAA")
  <2>1. ASSUME e.ok PROVE e.v4 = RecordsOf(n, "A") /\ e.v6 = RecordsOf(n, "AAAA")
    <3>1. Kept(n).v4 = <<>> /\ Kept(n).v6 = <<>>
      BY <2>1, <1>5 DEF Kept
    <3> QED
      BY <2>1, <3>1 DEF ReadUpTo, RecordsOf
  <2> QED
    BY <2>1, <1>0
<1>9. EntryRight(DOMAIN cached_entries', known', n, e) /\ EntryRight(DOMAIN cached_entries', known', n, c)
  BY <1>1, <1>2, <1>7, <1>8 DEF EntryRight
<1>10. \A m \in DOMAIN cached_entries' : EntryRight(DOMAIN cached_entries', known', m, cached_entries'[m])
  BY <1>2, <1>3, <1>9 DEF DnsInv, CacheRight
<1>11. \A m \in DOMAIN cached_entries' : Fits(m, Len(Zone[m])) => m \in known'
  BY <1>2, <1>4 DEF DnsInv, CacheRight
<1> QED
  BY <1>0, <1>1, <1>2, <1>3, <1>5, <1>9, <1>10, <1>11

LEMMA GivenUpKeeps ==
    ASSUME DnsInv, NEW n \in DOMAIN waiting_reqs, NEW e, ReadUpTo(e, n, Len(Zone[n])), ~e.ok, Parsed(e)
    PROVE  DnsInv'
<1>1. n \in Names /\ n # "" /\ e.name = n
  BY DnsAssumption DEF DnsInv, DnsTypes, NamesAreRight, ReadUpTo
<1>2. /\ cached_entries' = Put(cached_entries, n, Entry(e)) /\ answers' = answers /\ waiting_reqs' = waiting_reqs
      /\ known' = known /\ asked' = asked /\ queries' = queries /\ udp' = udp /\ written' = written
  BY <1>1 DEF Parsed, udpvars
<1>3. /\ cached_entries' \in [DOMAIN cached_entries' -> Entries]
      /\ DOMAIN cached_entries' = DOMAIN cached_entries \cup {n} /\ n \notin known
      /\ \A m \in DOMAIN cached_entries' : EntryRight(DOMAIN cached_entries', known', m, cached_entries'[m])
      /\ \A m \in DOMAIN cached_entries' : Fits(m, Len(Zone[m])) => m \in known'
      /\ \A m, x : m # n => (EntryRight(DOMAIN cached_entries', known', m, x) <=> EntryRight(DOMAIN cached_entries, known, m, x))
  BY <1>2, CacheGrows
<1>4. UdpInv' /\ AskedOnce'
  BY <1>2, <1>3 DEF DnsInv, UdpInv, Flushes, AskedOnce
<1>5. DnsTypes'
  BY <1>1, <1>2, <1>3 DEF DnsInv, DnsTypes, NamesAreRight
<1>6. CacheRight'
  BY <1>2, <1>3 DEF DnsInv, CacheRight
<1>7. RepliesRight'
  <2>1. \A m, x : EntryRight(DOMAIN cached_entries, known, m, x) => EntryRight(DOMAIN cached_entries', known', m, x)
    BY <1>2, <1>3 DEF EntryRight
  <2> QED
    BY <2>1, <1>2 DEF DnsInv, RepliesRight
<1>8. WaitsRight' /\ AllServed'
  BY <1>2 DEF DnsInv, WaitsRight, AllServed, IsAnswered, WaitsFor
<1> QED
  BY <1>4, <1>5, <1>6, <1>7, <1>8 DEF DnsInv

LEMMA ReadKeeps ==
    ASSUME DnsInv, NEW n \in DOMAIN waiting_reqs, NEW e, ReadUpTo(e, n, Len(Zone[n])), e.ok, Parsed(e)
    PROVE  DnsInv'
<1>1. n \in Names /\ n # "" /\ e.name = n /\ e \in Readings
  BY DnsAssumption DEF DnsInv, DnsTypes, NamesAreRight, ReadUpTo
<1>2. PICK s \in Seq(Nat), w \in Nat, k \in Nat, l \in Nat :
          /\ s = waiting_reqs[n].ok /\ w = Len(s) /\ DOMAIN s = 1..w
          /\ k = Len(asked) /\ l = Len(answers) /\ DOMAIN answers = 1..l
  <2>1. waiting_reqs[n].ok \in Seq(Nat) /\ asked \in Seq(Names) /\ answers \in Seq(AnswerKinds)
    BY DEF DnsInv, DnsTypes, Requests
  <2>2. PICK s \in Seq(Nat) : s = waiting_reqs[n].ok
    BY <2>1
  <2>3. Len(s) \in Nat /\ DOMAIN s = 1..Len(s) /\ Len(asked) \in Nat
    BY <2>1, <2>2
  <2>4. Len(answers) \in Nat /\ DOMAIN answers = 1..Len(answers)
    BY <2>1
  <2> QED
    BY <2>2, <2>3, <2>4
<1>3. /\ cached_entries' = Put(cached_entries, n, Entry(e)) /\ waiting_reqs' = Without(waiting_reqs, n)
      /\ known' = known \cup {n} /\ asked' = asked /\ queries' = queries /\ udp' = udp /\ written' = written
  BY <1>1 DEF Parsed, udpvars
<1>4. PICK t \in Seq(AnswerKinds) : /\ Len(t) = w /\ answers' = answers \o t
                                /\ \A i \in 1..w : t[i].id = s[i] /\ t[i].v4 = e.v4 /\ t[i].v6 = e.v6
  <2>1. PICK t : t = [i \in 1..w |-> AnswerTo(s[i], e)]
    OBVIOUS
  <2>2. \A i \in 1..w : /\ AnswerTo(s[i], e) \in AnswerKinds
                        /\ AnswerTo(s[i], e).id = s[i] /\ AnswerTo(s[i], e).v4 = e.v4 /\ AnswerTo(s[i], e).v6 = e.v6
    <3>1. e.v4 \in Seq(Any) /\ e.v6 \in Seq(Any)
      BY <1>1 DEF Readings
    <3>2. \A i \in 1..w : s[i] \in Nat
      BY <1>2
    <3> QED
      BY <3>1, <3>2 DEF AnswerTo, AnswerKinds
  <2>3. answers' = answers \o t
    BY <2>1, <1>1, <1>2 DEF Parsed
  <2>4. t \in [1..w -> AnswerKinds] /\ \A i \in 1..w : t[i] = AnswerTo(s[i], e)
    BY <2>1, <2>2
  <2>5. t \in Seq(AnswerKinds) /\ Len(t) = w
    BY <2>4
  <2> QED
    BY <2>2, <2>3, <2>4, <2>5
<1>5. /\ answers' \in Seq(AnswerKinds) /\ DOMAIN answers' = 1..l + w
      /\ \A i \in 1..l : answers'[i] = answers[i]
      /\ \A i \in 1..w : answers'[l + i] = t[i]
  <2>1. answers \in Seq(AnswerKinds)
    BY DEF DnsInv, DnsTypes
  <2>2. /\ answers \o t \in Seq(AnswerKinds) /\ Len(answers \o t) = Len(answers) + Len(t)
        /\ \A i \in 1..Len(answers) : (answers \o t)[i] = answers[i]
        /\ \A i \in 1..Len(t) : (answers \o t)[Len(answers) + i] = t[i]
    BY ONLY <2>1, t \in Seq(AnswerKinds), Joining
  <2>3. /\ answers' \in Seq(AnswerKinds) /\ Len(answers') = l + w
        /\ \A i \in 1..l : answers'[i] = answers[i]
        /\ \A i \in 1..w : answers'[l + i] = t[i]
    BY <2>2, <1>2, <1>4, Zenon
  <2>4. DOMAIN answers' = 1..Len(answers')
    BY <2>3
  <2> QED
    BY <2>3, <2>4
<1>6. \A i \in 1..l + w : i \in 1..l \/ \E j \in 1..w : i = l + j
  BY Later
<1>7. /\ cached_entries' \in [DOMAIN cached_entries' -> Entries]
      /\ DOMAIN cached_entries' = DOMAIN cached_entries \cup {n} /\ n \notin known /\ n \notin DOMAIN cached_entries
      /\ EntryRight(DOMAIN cached_entries', known', n, e)
      /\ \A m \in DOMAIN cached_entries' : EntryRight(DOMAIN cached_entries', known', m, cached_entries'[m])
      /\ \A m \in DOMAIN cached_entries' : Fits(m, Len(Zone[m])) => m \in known'
      /\ \A m, x : m # n => (EntryRight(DOMAIN cached_entries', known', m, x) <=> EntryRight(DOMAIN cached_entries, known, m, x))
  BY <1>3, CacheGrows
<1>8. /\ DOMAIN waiting_reqs' = DOMAIN waiting_reqs \ {n} /\ waiting_reqs' \in [DOMAIN waiting_reqs' -> Requests]
      /\ \A m \in DOMAIN waiting_reqs' : waiting_reqs'[m] = waiting_reqs[m]
  BY <1>3 DEF Without, DnsInv, DnsTypes
<1>9. UdpInv' /\ AskedOnce'
  BY <1>3, <1>7, <1>8 DEF DnsInv, UdpInv, Flushes, AskedOnce
<1>10. DnsTypes'
  BY <1>1, <1>3, <1>5, <1>7, <1>8 DEF DnsInv, DnsTypes, NamesAreRight
<1>11. CacheRight'
  BY <1>3, <1>7, <1>8 DEF DnsInv, CacheRight
<1>12. WaitsRight'
  BY <1>3, <1>8 DEF DnsInv, WaitsRight
<1>13. \A i \in 1..w : s[i] \in 1..k /\ asked[s[i]] = n /\ ~IsAnswered(s[i])
  <2>1. \A i \in 1..w : s[i] \in 1..k /\ asked[s[i]] = n
    BY <1>2 DEF DnsInv, WaitsRight
  <2>2. \A i \in 1..w : WaitsFor(n, s[i])
    BY <1>2 DEF WaitsFor
  <2> QED
    BY <2>1, <2>2, <1>2 DEF DnsInv, AllServed
<1>14. \A i, j \in 1..w : s[i] = s[j] => i = j
  <2>1. \A i, j \in 1..w : i < j => s[i] < s[j]
    BY <1>2 DEF DnsInv, WaitsRight
  <2>2. \A i \in 1..w : s[i] \in Nat
    BY <1>2
  <2>3. ASSUME NEW i \in 1..w, NEW j \in 1..w, s[i] = s[j] PROVE i = j
    <3>1. ~(i < j) /\ ~(j < i)
      BY <2>1, <2>2, <2>3
    <3> QED
      BY <3>1
  <2> QED
    BY <2>3
<1>15. \A id : IsAnswered(id)' <=> IsAnswered(id) \/ \E i \in 1..w : s[i] = id
  <2>1. \A i \in 1..l : i \in 1..l + w
    OBVIOUS
  <2>2. \A i \in 1..w : l + i \in 1..l + w
    OBVIOUS
  <2>3. ASSUME NEW id, NEW i \in 1..l + w, answers'[i].id = id PROVE IsAnswered(id) \/ \E j \in 1..w : s[j] = id
    <3>1. CASE i \in 1..l
      BY <2>3, <3>1, <1>2, <1>5 DEF IsAnswered
    <3>2. CASE \E j \in 1..w : i = l + j
      <4>1. PICK j \in 1..w : i = l + j
        BY <3>2
      <4>2. answers'[i].id = s[j]
        BY <4>1, <1>4, <1>5
      <4> QED
        BY <2>3, <4>2
    <3> QED
      BY <3>1, <3>2, <1>6
  <2>4. ASSUME NEW id, IsAnswered(id) PROVE IsAnswered(id)'
    BY <2>1, <2>4, <1>2, <1>5 DEF IsAnswered
  <2>5. ASSUME NEW i \in 1..w PROVE IsAnswered(s[i])'
    <3>1. l + i \in DOMAIN answers' /\ answers'[l + i].id = s[i]
      BY <2>2, <1>4, <1>5
    <3> QED
      BY <3>1 DEF IsAnswered
  <2>6. ASSUME NEW id, IsAnswered(id)' PROVE \E i \in 1..l + w : answers'[i].id = id
    BY <2>6, <1>5 DEF IsAnswered
  <2> QED
    BY <2>3, <2>4, <2>5, <2>6
<1>16. AllServed'
  <2>1. \A m, id : WaitsFor(m, id)' <=> WaitsFor(m, id) /\ m # n
    BY <1>8 DEF WaitsFor
  <2>2. \A id : WaitsFor(n, id) <=> \E i \in 1..w : s[i] = id
    BY <1>2 DEF WaitsFor
  <2>3. ASSUME NEW id \in 1..k PROVE IsAnswered(id)' <=> ~(WaitsFor(asked[id], id) /\ asked[id] # n)
    <3>1. IsAnswered(id) <=> ~WaitsFor(asked[id], id)
      BY <1>2 DEF DnsInv, AllServed
    <3>2. CASE asked[id] = n
      BY <3>1, <3>2, <2>2, <1>15
    <3>3. CASE asked[id] # n
      <4>1. ~ \E i \in 1..w : s[i] = id
        BY <3>3, <1>13
      <4> QED
        BY <3>1, <3>3, <4>1, <1>15
    <3> QED
      BY <3>2, <3>3
  <2> QED
    BY <2>1, <2>3, <1>2, <1>3 DEF AllServed
<1>17. RepliesRight'
  <2>1. \A i, j \in 1..l : answers[i].id = answers[j].id => i = j
    BY <1>2 DEF DnsInv, RepliesRight
  <2>2. ASSUME NEW i \in 1..l, NEW j \in 1..w PROVE answers[i].id # s[j]
    BY <1>2, <1>13 DEF IsAnswered
  <2>3. ASSUME NEW i \in 1..l + w, NEW j \in 1..l + w, answers'[i].id = answers'[j].id PROVE i = j
    <3>1. CASE i \in 1..l /\ j \in 1..l
      BY <3>1, <2>1, <2>3, <1>5
    <3>2. CASE i \in 1..l /\ \E y \in 1..w : j = l + y
      BY <3>2, <2>2, <2>3, <1>4, <1>5
    <3>3. CASE j \in 1..l /\ \E x \in 1..w : i = l + x
      BY <3>3, <2>2, <2>3, <1>4, <1>5
    <3>4. ASSUME NEW x \in 1..w, NEW y \in 1..w, i = l + x, j = l + y PROVE i = j
      <4>1. s[x] = s[y]
        BY <3>4, <2>3, <1>4, <1>5
      <4> QED
        BY <3>4, <4>1, <1>14
    <3> QED
      BY <3>1, <3>2, <3>3, <3>4, <1>6
  <2>4. ASSUME NEW i \in 1..l + w 
          PROVE  answers'[i].id \in 1..k /\ EntryRight(DOMAIN cached_entries', known', asked[answers'[i].id], answers'[i])
    <3>1. CASE i \in 1..l
      <4>1. PICK m : m = asked[answers[i].id]
        OBVIOUS
      <4>2. answers[i].id \in 1..k /\ EntryRight(DOMAIN cached_entries, known, m, answers[i]) /\ answers'[i] = answers[i]
        BY <3>1, <4>1, <1>2, <1>5 DEF DnsInv, RepliesRight
      <4>3. m # n
        BY <4>2, <1>7 DEF EntryRight
      <4>4. EntryRight(DOMAIN cached_entries', known', m, answers[i])
        BY <4>2, <4>3, <1>7
      <4> QED
        BY <4>1, <4>2, <4>4
    <3>2. ASSUME NEW x \in 1..w, i = l + x 
          PROVE  answers'[i].id \in 1..k /\ EntryRight(DOMAIN cached_entries', known', asked[answers'[i].id], answers'[i])
      <4>1. PICK r : r = answers'[i]
        OBVIOUS
      <4>2. r.id = s[x] /\ r.v4 = e.v4 /\ r.v6 = e.v6
        BY <3>2, <4>1, <1>4, <1>5
      <4>3. r.id \in 1..k /\ asked[r.id] = n
        BY <4>2, <1>13
      <4> QED
        BY <4>1, <4>2, <4>3, <1>7 DEF EntryRight
    <3> QED
      BY <3>1, <3>2, <1>6
  <2> QED
    BY <2>3, <2>4, <1>2, <1>3, <1>5 DEF RepliesRight
<1> QED
  BY <1>9, <1>10, <1>11, <1>12, <1>16, <1>17 DEF DnsInv

LEMMA AnswerKeeps ==
    ASSUME DnsInv, NEW q \in Reached, NEW num \in Nums, Answer(q, num)
    PROVE  DnsInv'
<1>1. PICK n \in Names : n = q.name
  <2>1. queries \in Seq([num : Nums, name : Names])
    BY DEF DnsInv, DnsTypes
  <2>2. \A i \in DOMAIN queries : queries[i].name \in Names
    <3>1. PICK R : R = [num : Nums, name : Names]
      OBVIOUS
    <3>2. queries \in Seq(R)
      BY <2>1, <3>1
    <3>3. \A i \in DOMAIN queries : queries[i] \in R
      BY <3>2
    <3> QED
      BY <3>1, <3>3
  <2> QED
    BY <2>2 DEF Reached
<1>2. PICK e : e = ReadAnswer([num |-> num, name |-> n, records |-> Zone[n]])
  OBVIOUS
<1>3. Parsed(e) /\ NamesAreRight
  BY <1>1, <1>2 DEF Answer, DnsInv, DnsTypes
<1>4. CASE n \in DOMAIN waiting_reqs /\ num = waiting_reqs[n].num
  <2>1. ReadUpTo(e, n, Len(Zone[n]))
    BY <1>2, <1>3, <1>4, ReadAnswerIs
  <2> QED
    BY <2>1, <1>3, <1>4, GivenUpKeeps, ReadKeeps
<1>5. CASE ~(n \in DOMAIN waiting_reqs /\ num = waiting_reqs[n].num)
  <2>1. e.name = "" /\ ~e.ok
    BY <1>2, <1>3, <1>5, ReadAnswerIs
  <2> QED
    BY <2>1, <1>3, NotReadKeeps
<1> QED
  BY <1>4, <1>5

LEMMA SocketKeeps ==
    ASSUME DnsInv, SocketMoves \/ UNCHANGED udpvars, UNCHANGED dnsvars
    PROVE  DnsInv'
<1>1. /\ cached_entries' = cached_entries /\ answers' = answers /\ waiting_reqs' = waiting_reqs /\ known' = known
      /\ asked' = asked /\ queries' = queries
  BY DEF dnsvars
<1>2. UdpInv' /\ written' = written
  <2>1. CASE SocketMoves
    BY <2>1, SocketMovesKeep DEF DnsInv, SocketMoves, SocketOut, KernelSends, KernelRefuses
  <2>2. CASE UNCHANGED udpvars
    BY <2>2 DEF DnsInv, udpvars, UdpInv, Flushes
  <2> QED
    BY <2>1, <2>2
<1>3. AskedOnce' /\ DnsTypes'
  BY <1>1, <1>2 DEF DnsInv, AskedOnce, DnsTypes, NamesAreRight
<1>4. CacheRight' /\ RepliesRight'
  BY <1>1 DEF DnsInv, CacheRight, RepliesRight, EntryRight
<1>5. WaitsRight' /\ AllServed'
  BY <1>1 DEF DnsInv, WaitsRight, AllServed, IsAnswered, WaitsFor
<1> QED
  BY <1>2, <1>3, <1>4, <1>5 DEF DnsInv

LEMMA DnsServes == DnsInv => LookupsServed
<1> SUFFICES ASSUME DnsInv PROVE LookupsServed
  OBVIOUS
<1>1. DatagramsKept
  BY UdpKept DEF DnsInv
<1>2. ASSUME NEW i \in DOMAIN answers
      PROVE  LET name == asked[answers[i].id]
             IN  /\ Range(answers[i].v4) \subseteq Range(RecordsOf(name, "A"))
                 /\ Range(answers[i].v6) \subseteq Range(RecordsOf(name, "AAAA"))
                 /\ name \in known => /\ answers[i].v4 = RecordsOf(name, "A")
                                      /\ answers[i].v6 = RecordsOf(name, "AAAA")
  <2>1. PICK n : n = asked[answers[i].id]
    OBVIOUS
  <2>2. EntryRight(DOMAIN cached_entries, known, n, answers[i])
    BY <2>1 DEF DnsInv, RepliesRight
  <2>3. n \in Names
    BY <2>2 DEF EntryRight, DnsInv, DnsTypes, NamesAreRight
  <2>4. \A type : Range(RecordsOf(n, type)) = AllOf(n, type)
    <3>1. Len(Zone[n]) \in 0..Len(Zone[n])
      BY <2>3, ZoneIs
    <3> QED
      BY <2>3, <3>1, FirstAre DEF RecordsOf, AllOf
  <2> QED
    BY <2>1, <2>2, <2>4 DEF EntryRight
<1>3. ASSUME NEW id \in DOMAIN asked
      PROVE  (\E i \in DOMAIN answers : answers[i].id = id)
               # (asked[id] \in DOMAIN waiting_reqs
                  /\ \E i \in DOMAIN waiting_reqs[asked[id]].ok : waiting_reqs[asked[id]].ok[i] = id)
  <2>1. id \in 1..Len(asked)
    BY DEF DnsInv, DnsTypes
  <2>2. IsAnswered(id) <=> ~WaitsFor(asked[id], id)
    BY <2>1 DEF DnsInv, AllServed
  <2> QED
    BY <2>2 DEF IsAnswered, WaitsFor
<1>4. QueriesAnswered
  BY <1>2, <1>3 DEF QueriesAnswered, DnsInv, RepliesRight, WaitsRight, AskedOnce
<1> QED
  BY <1>1, <1>4 DEF LookupsServed

\* A query is answered once or waits, in order, a name is asked once, and a callback
\* is given addresses of its name, whatever the socket does and whatever answers
\* come, late, twice or not: Dns.cpp, for all names, zones and numbers.
THEOREM LookupsAreServed == DnsSpec => []LookupsServed
<1>1. UdpInit /\ DnsInit => DnsInv
  BY DnsInitIs
<1>2. DnsInv /\ [ResolverMoves]_<<udpvars, dnsvars>> => DnsInv'
  <2> SUFFICES ASSUME DnsInv, [ResolverMoves]_<<udpvars, dnsvars>> PROVE DnsInv'
    OBVIOUS
  <2>1. ASSUME NEW name \in Names, Query(name) PROVE DnsInv'
    BY <2>1, CachedKeeps, AddedKeeps, AskedKeeps DEF Query
  <2>2. ASSUME NEW q \in Reached, NEW num \in Nums, Answer(q, num) PROVE DnsInv'
    BY <2>2, AnswerKeeps
  <2>3. CASE (SocketMoves \/ UNCHANGED udpvars) /\ UNCHANGED dnsvars
    BY <2>3, SocketKeeps
  <2> QED
    BY <2>1, <2>2, <2>3 DEF ResolverMoves, DnsNext
<1>3. DnsInv => LookupsServed
  BY DnsServes
<1> QED
  BY <1>1, <1>2, <1>3, PTL DEF DnsSpec

-----------------------------------------------------------------------------
(* The connections between TypeScript clients (RbPeers): the commands and  *)
(* the descriptions of the connections that bring them.                    *)

LinesOf(C) == [open : BOOLEAN, pending : Seq(C), bw : Seq(C)]
Command == Sides \X Nat
Conns == [made : BOOLEAN, line : LinesOf(Command), described : BOOLEAN, ready : BOOLEAN]
PeersTyped ==
    /\ sock \in [Sides -> LinesOf(Kinds)]
    /\ peer \in [Sides -> [Kinds -> Conns]]
    /\ signal \in [Sides -> Seq(Kinds)]
    /\ air \subseteq [to : Sides, cmds : Seq(Command)]
    /\ told \in [Sides -> Nat]
    /\ heard \in [Sides -> Seq(Command)]
    /\ \A d \in Sides, k \in Kinds : ~ peer[d][k].made => peer[d][k] = NoConn

\* How far the offer of d is: it is described before it travels, it travels until
\* the other side has an answerer, and so for the answer.
OfferRight(d) ==
    LET i == peer[d]["initiator"]
        a == peer[Other(d)]["answerer"]
    IN  /\ Travels(d, "initiator") \/ a.made \/ Travels(Other(d), "answerer") \/ i.ready => i.described
        /\ i.described => Travels(d, "initiator") \/ a.made
        /\ a.described => a.ready /\ (Travels(Other(d), "answerer") \/ i.ready)

PeersInv == PeersTyped /\ \A d \in Sides : OfferRight(d) /\ EachOnce(d)

LEMMA TwoSides ==
    ASSUME NEW d \in Sides
    PROVE  /\ Other(d) \in Sides /\ Other(d) # d /\ Other(Other(d)) = d
           /\ Sides = {d, Other(d)}
<1>1. PICK a, b \in Sides : a # b /\ Sides = {a, b}
  BY PeersAssumption
<1>2. \A e \in Sides : Other(e) \in Sides /\ Other(e) # e
  BY <1>1 DEF Other
<1> QED
  BY <1>1, <1>2

LEMMA LineSends ==
    ASSUME NEW C, NEW l \in LinesOf(C), NEW c \in C
    PROVE  /\ SendCmd(l, c) \in LinesOf(C)
           /\ SendCmd(l, c).open = l.open
           /\ l.open => SendCmd(l, c).bw = Append(l.bw, c) /\ SendCmd(l, c).pending = l.pending
           /\ ~ l.open => SendCmd(l, c).pending = Append(l.pending, c) /\ SendCmd(l, c).bw = l.bw
<1>1. l.pending \in Seq(C) /\ l.bw \in Seq(C) /\ l.open \in BOOLEAN
  BY DEF LinesOf
<1>2. Append(l.pending, c) \in Seq(C) /\ Append(l.bw, c) \in Seq(C)
  BY <1>1
<1> QED
  BY <1>1, <1>2 DEF LinesOf, SendCmd

LEMMA LineEmpties ==
    ASSUME NEW C, NEW l \in LinesOf(C)
    PROVE  /\ Opened(l) \in LinesOf(C) /\ Opened(l).pending = <<>> /\ Opened(l).bw = l.bw /\ Opened(l).open
           /\ Emptied(l) \in LinesOf(C) /\ Emptied(l).bw = <<>> /\ Emptied(l).pending = l.pending
           /\ Emptied(l).open = l.open
<1>1. <<>> \in Seq(C)
  OBVIOUS
<1> QED
  BY <1>1 DEF LinesOf, Opened, Emptied

\* One connection changes.
LEMMA PeerSet ==
    ASSUME NEW P \in [Sides -> [Kinds -> Conns]], NEW d \in Sides, NEW k \in Kinds, NEW c \in Conns,
           NEW Q, Q = [P EXCEPT ![d][k] = c]
    PROVE  /\ Q \in [Sides -> [Kinds -> Conns]]
           /\ Q[d][k] = c
           /\ \A e \in Sides, h \in Kinds : e # d \/ h # k => Q[e][h] = P[e][h]
OBVIOUS

LEMMA NoConnIs == NoConn \in Conns /\ MadeConn \in Conns
                  /\ MadeConn.made /\ ~ MadeConn.described /\ ~ MadeConn.ready /\ ~ MadeConn.line.open
                  /\ ~ NoConn.made /\ ~ NoConn.described /\ ~ NoConn.ready /\ ~ NoConn.line.open
                  /\ MadeConn.line = NoConn.line /\ NoConn.line.pending = <<>> /\ NoConn.line.bw = <<>>
<1>1. <<>> \in Seq(Command)
  OBVIOUS
<1> QED
  BY <1>1 DEF NoConn, MadeConn, NewLine, Conns, LinesOf

LEMMA ChosenIs ==
    ASSUME PeersTyped, NEW d \in Sides
    PROVE  Chosen(d) \in Kinds /\ (Chosen(d) = "answerer" => peer[d]["answerer"].made)
BY NoConnIs DEF PeersTyped, Chosen, Kinds

\* What each action does to the connections.
Same(d, k) == \A e \in Sides, h \in Kinds : e # d \/ h # k => peer'[e][h] = peer[e][h]
PeersAre == peer' \in [Sides -> [Kinds -> Conns]]

LEMMA TellDoes ==
    ASSUME PeersTyped, NEW d \in Sides, Tell(d), NEW k, k = Chosen(d)
    PROVE  /\ k \in Kinds /\ PeersAre /\ Same(d, k) /\ peer'[d][k].made
           /\ peer'[d][k].described = peer[d][k].described /\ peer'[d][k].ready = peer[d][k].ready
           /\ peer'[d][k].line = SendCmd(peer[d][k].line, <<d, told[d] + 1>>)
<1>1. PICK c : c = IF peer[d][k].made THEN peer[d][k] ELSE MadeConn
  OBVIOUS
<1>2. PICK x : x = [c EXCEPT !.line = SendCmd(@, <<d, told[d] + 1>>)]
  OBVIOUS
<1>3. peer' = [peer EXCEPT ![d][k] = x]
  BY <1>1, <1>2 DEF Tell
<1>4. k \in Kinds
  BY ChosenIs
<1>5. /\ c \in Conns /\ c.made /\ c.line = peer[d][k].line /\ c.described = peer[d][k].described
      /\ c.ready = peer[d][k].ready
  BY <1>1, <1>4, NoConnIs DEF PeersTyped, Conns
<1>6. <<d, told[d] + 1>> \in Command
  BY DEF PeersTyped, Command
<1>7. PICK l : l = SendCmd(c.line, <<d, told[d] + 1>>)
  OBVIOUS
<1>8. c.line \in LinesOf(Command) /\ l \in LinesOf(Command)
  BY <1>5, <1>6, <1>7, LineSends DEF Conns
<1>9. x = [c EXCEPT !.line = l]
  BY <1>2, <1>7
<1>10. x \in Conns /\ x.made /\ x.line = l /\ x.described = c.described /\ x.ready = c.ready
  BY <1>5, <1>8, <1>9 DEF Conns
<1>11. PeersAre /\ Same(d, k) /\ peer'[d][k] = x
  BY <1>3, <1>4, <1>10, PeerSet DEF PeersTyped, PeersAre, Same
<1> QED
  BY <1>4, <1>5, <1>7, <1>10, <1>11

LEMMA DescribeDoes ==
    ASSUME PeersTyped, NEW d \in Sides, NEW k \in Kinds, Describe(d, k)
    PROVE  /\ PeersAre /\ Same(d, k) /\ peer'[d][k].made /\ peer'[d][k].described
           /\ peer'[d][k].ready = (k = "answerer") /\ peer'[d][k].line = peer[d][k].line
<1>1. PICK c : c = peer[d][k]
  OBVIOUS
<1>2. PICK x : x = [c EXCEPT !.described = TRUE, !.ready = (k = "answerer")]
  OBVIOUS
<1>3. peer' = [peer EXCEPT ![d][k] = x]
  BY <1>1, <1>2 DEF Describe, PeersTyped
<1>4. c \in Conns /\ c.made
  BY <1>1 DEF PeersTyped, Describe
<1>5. x \in Conns /\ x.made /\ x.described /\ x.ready = (k = "answerer") /\ x.line = c.line
  BY <1>2, <1>4 DEF Conns
<1>6. PeersAre /\ Same(d, k) /\ peer'[d][k] = x
  BY <1>3, <1>5, PeerSet DEF PeersTyped, PeersAre, Same
<1> QED
  BY <1>1, <1>5, <1>6

LEMMA SignalledDoes ==
    ASSUME PeersTyped, NEW d \in Sides, Signalled(d)
    PROVE  /\ PeersAre
           /\ \A e \in Sides, h \in Kinds : peer'[e][h].line = peer[e][h].line
           /\ Head(signal[d]) = "initiator" =>
                /\ Same(d, "answerer") /\ peer'[d]["answerer"].made
                /\ peer'[d]["answerer"].described = peer[d]["answerer"].described
                /\ peer'[d]["answerer"].ready = peer[d]["answerer"].ready
           /\ Head(signal[d]) # "initiator" =>
                /\ Same(d, "initiator") /\ peer'[d]["initiator"].made = peer[d]["initiator"].made
                /\ peer'[d]["initiator"].described = peer[d]["initiator"].described
                /\ peer'[d]["initiator"].ready
<1>0. "initiator" \in Kinds /\ "answerer" \in Kinds
  BY DEF Kinds
<1>1. CASE Head(signal[d]) = "initiator"
  <2>1. PICK c : c = peer[d]["answerer"]
    OBVIOUS
  <2>2. PICK x : x = IF c.made THEN c ELSE MadeConn
    OBVIOUS
  <2>3. peer' = [peer EXCEPT ![d]["answerer"] = x]
    BY <1>1, <2>1, <2>2, <1>0 DEF Signalled, PeersTyped
  <2>4. x \in Conns /\ x.made /\ x.described = c.described /\ x.ready = c.ready /\ x.line = c.line
    BY <2>1, <2>2, <1>0, NoConnIs DEF PeersTyped, Conns
  <2>5. PeersAre /\ Same(d, "answerer") /\ peer'[d]["answerer"] = x
    BY <2>3, <2>4, <1>0, PeerSet DEF PeersTyped, PeersAre, Same
  <2>6. \A e \in Sides, h \in Kinds : peer'[e][h].line = peer[e][h].line
    BY <2>1, <2>4, <2>5 DEF Same
  <2> QED
    BY <1>1, <2>1, <2>4, <2>5, <2>6
<1>2. CASE Head(signal[d]) # "initiator"
  <2>1. PICK c : c = peer[d]["initiator"]
    OBVIOUS
  <2>2. PICK x : x = [c EXCEPT !.ready = TRUE]
    OBVIOUS
  <2>3. peer' = [peer EXCEPT ![d]["initiator"] = x]
    BY <1>2, <2>1, <2>2, <1>0 DEF Signalled, PeersTyped
  <2>7. c \in Conns
    BY <2>1, <1>0 DEF PeersTyped
  <2>4. x \in Conns /\ x.made = c.made /\ x.described = c.described /\ x.ready /\ x.line = c.line
    BY <2>2, <2>7 DEF Conns
  <2>5. PeersAre /\ Same(d, "initiator") /\ peer'[d]["initiator"] = x
    BY <2>3, <2>4, <1>0, PeerSet DEF PeersTyped, PeersAre, Same
  <2>6. \A e \in Sides, h \in Kinds : peer'[e][h].line = peer[e][h].line
    BY <2>1, <2>4, <2>5 DEF Same
  <2> QED
    BY <1>2, <2>1, <2>4, <2>5, <2>6
<1> QED
  BY <1>1, <1>2

LEMMA ChannelDoes ==
    ASSUME PeersTyped, NEW d \in Sides, NEW k \in Kinds, NEW l,
           \/ ChannelOpens(d, k) /\ l = Opened(peer[d][k].line)
           \/ ChannelSends(d, k) /\ l = Emptied(peer[d][k].line)
    PROVE  /\ PeersAre /\ Same(d, k)
           /\ peer'[d][k].made = peer[d][k].made
           /\ peer'[d][k].described = peer[d][k].described /\ peer'[d][k].ready = peer[d][k].ready
           /\ peer'[d][k].line = l
<1>1. PICK c : c = peer[d][k]
  OBVIOUS
<1>2. PICK x : x = [c EXCEPT !.line = l]
  OBVIOUS
<1>3. peer' = [peer EXCEPT ![d][k] = x]
  BY <1>1, <1>2 DEF ChannelOpens, ChannelSends, PeersTyped
<1>4. c \in Conns /\ l \in LinesOf(Command)
  BY <1>1, LineEmpties DEF PeersTyped, Conns
<1>5. x \in Conns /\ x.made = c.made /\ x.described = c.described /\ x.ready = c.ready /\ x.line = l
  BY <1>2, <1>4 DEF Conns
<1>6. PeersAre /\ Same(d, k) /\ peer'[d][k] = x
  BY <1>3, <1>5, PeerSet DEF PeersTyped, PeersAre, Same
<1> QED
  BY <1>1, <1>5, <1>6 DEF ChannelOpens, ChannelSends

-----------------------------------------------------------------------------
LEMMA RangeJoins ==
    ASSUME NEW C, NEW s \in Seq(C), NEW t \in Seq(C)
    PROVE  Range(s \o t) = Range(s) \cup Range(t)
<1>1. PICK k \in Nat, n \in Nat : k = Len(s) /\ n = Len(t)
  OBVIOUS
<1>2. PICK u : u = s \o t
  OBVIOUS
<1>3. /\ DOMAIN s = 1..k /\ DOMAIN t = 1..n /\ DOMAIN u = 1..k + n
      /\ \A i \in 1..k + n : u[i] = IF i <= k THEN s[i] ELSE t[i - k]
  BY <1>1, <1>2
<1>4. \A i \in 1..k : u[i] = s[i] /\ i \in 1..k + n
  BY <1>3
<1>5. \A i \in 1..n : k + i \in 1..k + n /\ u[k + i] = t[i]
  <2> TAKE i \in 1..n
  <2>1. k + i \in 1..k + n /\ ~ (k + i <= k) /\ k + i - k = i
    OBVIOUS
  <2> QED
    BY <2>1, <1>3
<1>6. \A i \in 1..k + n : i \in 1..k \/ \E j \in 1..n : i = k + j
  <2> SUFFICES ASSUME NEW i \in 1..k + n, i \notin 1..k PROVE \E j \in 1..n : i = k + j
    OBVIOUS
  <2>1. i - k \in 1..n /\ i = k + (i - k)
    OBVIOUS
  <2> QED
    BY <2>1
<1>7. Range(u) \subseteq Range(s) \cup Range(t)
  <2> SUFFICES ASSUME NEW i \in 1..k + n PROVE u[i] \in Range(s) \cup Range(t)
    BY <1>3 DEF Range
  <2>1. CASE i \in 1..k
    BY <2>1, <1>3, <1>4 DEF Range
  <2>2. CASE \E j \in 1..n : i = k + j
    BY <2>2, <1>3, <1>5 DEF Range
  <2> QED
    BY <2>1, <2>2, <1>6
<1>8. Range(s) \cup Range(t) \subseteq Range(u)
  <2>1. \A i \in 1..k : s[i] \in Range(u)
    BY <1>3, <1>4 DEF Range
  <2>2. \A i \in 1..n : t[i] \in Range(u)
    BY <1>3, <1>5 DEF Range
  <2> QED
    BY <1>3, <2>1, <2>2 DEF Range
<1> QED
  BY <1>2, <1>7, <1>8

LEMMA RangeTail ==
    ASSUME NEW C, NEW s \in Seq(C), s # <<>>
    PROVE  Tail(s) \in Seq(C) /\ Head(s) \in C /\ Range(s) = {Head(s)} \cup Range(Tail(s))
<1>1. PICK k \in Nat : k = Len(s) /\ k > 0
  OBVIOUS
<1>2. PICK t : t = Tail(s)
  OBVIOUS
<1>3. /\ DOMAIN s = 1..k /\ t \in Seq(C) /\ DOMAIN t = 1..k - 1 /\ s[1] = Head(s) /\ s[1] \in C
      /\ \A i \in 1..k - 1 : t[i] = s[i + 1]
  BY <1>1, <1>2
<1>4. \A i \in 1..k : i = 1 \/ (i - 1 \in 1..k - 1 /\ i = i - 1 + 1)
  BY <1>1
<1>5. 1 \in 1..k /\ \A i \in 1..k - 1 : i + 1 \in 1..k
  BY <1>1
<1>6. Range(s) \subseteq {Head(s)} \cup Range(t)
  <2> SUFFICES ASSUME NEW i \in 1..k, i # 1 PROVE s[i] \in Range(t)
    BY <1>3 DEF Range
  <2>1. i - 1 \in 1..k - 1 /\ s[i] = t[i - 1]
    BY <1>3, <1>4
  <2> QED
    BY <2>1, <1>3 DEF Range
<1>7. {Head(s)} \cup Range(t) \subseteq Range(s)
  BY <1>3, <1>5 DEF Range
<1> QED
  BY <1>2, <1>3, <1>6, <1>7

\* Which descriptions travel.
LEMMA DescribeTravels ==
    ASSUME PeersTyped, NEW d \in Sides, NEW k \in Kinds, Describe(d, k)
    PROVE  /\ sock' \in [Sides -> LinesOf(Kinds)]
           /\ \A e \in Sides, h \in Kinds : Travels(e, h)' <=> Travels(e, h) \/ (e = d /\ h = k)
<1>1. PICK l : l = sock[d]
  OBVIOUS
<1>2. PICK n : n = SendCmd(l, k)
  OBVIOUS
<1>3. sock' = [sock EXCEPT ![d] = n]
  BY <1>1, <1>2 DEF Describe
<1>4. l \in LinesOf(Kinds) /\ n \in LinesOf(Kinds)
  BY <1>1, <1>2, LineSends DEF PeersTyped
<1>5. Range(n.pending) \cup Range(n.bw) = Range(l.pending) \cup Range(l.bw) \cup {k}
  <2>1. l.pending \in Seq(Kinds) /\ l.bw \in Seq(Kinds)
    BY <1>4 DEF LinesOf
  <2>4. /\ Range(Append(l.pending, k)) = Range(l.pending) \cup {k}
        /\ Range(Append(l.bw, k)) = Range(l.bw) \cup {k}
    BY <2>1, RangeOfAppend
  <2>5. /\ l.open => n.bw = Append(l.bw, k) /\ n.pending = l.pending
        /\ ~ l.open => n.pending = Append(l.pending, k) /\ n.bw = l.bw
    BY <1>2, <1>4, LineSends
  <2>2. CASE l.open
    BY <2>2, <2>4, <2>5, Zenon
  <2>3. CASE ~ l.open
    BY <2>3, <2>4, <2>5, Zenon
  <2> QED
    BY <2>2, <2>3
<1>6. /\ sock' \in [Sides -> LinesOf(Kinds)] /\ sock'[d] = n
      /\ \A e \in Sides : e # d => sock'[e] = sock[e]
  BY <1>3, <1>4 DEF PeersTyped
<1>7. signal' = signal
  BY DEF Describe
<1> QED
  BY <1>1, <1>5, <1>6, <1>7 DEF Travels

LEMMA SocketTravels ==
    ASSUME PeersTyped, NEW d \in Sides, SocketOpens(d) \/ SocketSends(d)
    PROVE  /\ sock' \in [Sides -> LinesOf(Kinds)] /\ signal' \in [Sides -> Seq(Kinds)]
           /\ \A e \in Sides, h \in Kinds : Travels(e, h)' <=> Travels(e, h)
<1>1. PICK l, f : l = sock[d] /\ f = Other(d)
  OBVIOUS
<1>2. PICK n, q : /\ sock' = [sock EXCEPT ![d] = n] /\ signal' = [signal EXCEPT ![f] = @ \o q]
                  /\ \/ n = Opened(l) /\ q = l.pending
                     \/ n = Emptied(l) /\ q = l.bw
  BY <1>1 DEF SocketOpens, SocketSends
<1>3. l \in LinesOf(Kinds) /\ f \in Sides
  BY <1>1, TwoSides DEF PeersTyped
<1>4. l.pending \in Seq(Kinds) /\ l.bw \in Seq(Kinds) /\ q \in Seq(Kinds)
  BY <1>2, <1>3 DEF LinesOf
<1>5. n \in LinesOf(Kinds) /\ Range(n.pending) \cup Range(n.bw) \cup Range(q) = Range(l.pending) \cup Range(l.bw)
  <2>1. Range(<<>>) = {}
    BY DEF Range
  <2> QED
    BY <1>2, <1>3, <2>1, LineEmpties
<1>6. /\ sock' \in [Sides -> LinesOf(Kinds)] /\ sock'[d] = n
      /\ \A e \in Sides : e # d => sock'[e] = sock[e]
  BY <1>2, <1>5 DEF PeersTyped
<1>7. PICK s \in Seq(Kinds) : s = signal[f]
  BY <1>3 DEF PeersTyped
<1>8. PICK t : t = s \o q
  OBVIOUS
<1>9. t \in Seq(Kinds) /\ Range(t) = Range(s) \cup Range(q)
  BY <1>4, <1>7, <1>8, RangeJoins
<1>10. signal' \in [Sides -> Seq(Kinds)] /\ signal'[f] = t /\ \A e \in Sides : e # f => signal'[e] = signal[e]
  BY <1>2, <1>3, <1>7, <1>8, <1>9 DEF PeersTyped
<1>11. \A e \in Sides : e # d => Other(e) # f
  BY <1>1, TwoSides
<1>12. ASSUME NEW e \in Sides, NEW h \in Kinds PROVE Travels(e, h)' <=> Travels(e, h)
  <2>1. CASE e = d
    BY <2>1, <1>1, <1>5, <1>6, <1>7, <1>9, <1>10 DEF Travels
  <2>2. CASE e # d
    <3>1. Other(e) \in Sides /\ Other(e) # f
      BY <2>2, <1>11, TwoSides
    <3> QED
      BY <2>2, <3>1, <1>6, <1>10 DEF Travels
  <2> QED
    BY <2>1, <2>2
<1> QED
  BY <1>6, <1>10, <1>12

LEMMA SignalledTravels ==
    ASSUME PeersTyped, NEW d \in Sides, Signalled(d), NEW x, x = Head(signal[d])
    PROVE  /\ x \in Kinds /\ Travels(Other(d), x) /\ signal' \in [Sides -> Seq(Kinds)]
           /\ \A e \in Sides, h \in Kinds : e # Other(d) \/ h # x => (Travels(e, h)' <=> Travels(e, h))
           /\ Travels(Other(d), x)' => Travels(Other(d), x)
<1>1. PICK s \in Seq(Kinds) : s = signal[d]
  BY DEF PeersTyped
<1>2. s # <<>> /\ signal' = [signal EXCEPT ![d] = Tail(s)] /\ sock' = sock /\ x = Head(s)
  BY <1>1 DEF Signalled
<1>3. PICK t : t = Tail(s)
  OBVIOUS
<1>4. t \in Seq(Kinds) /\ x \in Kinds /\ Range(s) = {x} \cup Range(t)
  BY <1>2, <1>3, RangeTail
<1>5. signal' \in [Sides -> Seq(Kinds)] /\ signal'[d] = t /\ \A e \in Sides : e # d => signal'[e] = signal[e]
  BY <1>2, <1>3, <1>4 DEF PeersTyped
<1>6. PICK f \in Sides : f = Other(d) /\ Other(f) = d /\ \A e \in Sides : e # f => Other(e) # d /\ Other(e) \in Sides
  BY TwoSides
<1>7. Travels(f, x) /\ \A h \in Kinds : h # x => (Travels(f, h)' <=> Travels(f, h))
  BY <1>1, <1>2, <1>4, <1>5, <1>6 DEF Travels
<1>8. \A e \in Sides, h \in Kinds : e # f => (Travels(e, h)' <=> Travels(e, h))
  BY <1>2, <1>5, <1>6 DEF Travels
<1> QED
  BY <1>4, <1>5, <1>6, <1>7, <1>8

-----------------------------------------------------------------------------
\* The offers and answers after each action.
OffersRight == \A d \in Sides : OfferRight(d)
SocketsStay == sock' = sock /\ signal' = signal
LEMMA TravelsStay == ASSUME SocketsStay PROVE \A e \in Sides, h \in Kinds : Travels(e, h)' <=> Travels(e, h)
BY DEF SocketsStay, Travels

LEMMA TellOffers ==
    ASSUME PeersTyped, OffersRight, NEW d \in Sides, Tell(d)
    PROVE  OffersRight'
<1> SUFFICES ASSUME NEW e \in Sides PROVE OfferRight(e)'
  BY DEF OffersRight
<1>1. PICK k : k = Chosen(d)
  OBVIOUS
<1>2. PICK f \in Sides : f = Other(e) /\ f # e
  BY TwoSides
<1>3. SocketsStay
  BY DEF Tell, SocketsStay
<1>4. OfferRight(e) /\ "initiator" \in Kinds /\ "answerer" \in Kinds
  BY DEF OffersRight, Kinds
<1>5. /\ peer'[e]["initiator"].described = peer[e]["initiator"].described
      /\ peer'[e]["initiator"].ready = peer[e]["initiator"].ready
      /\ peer'[f]["answerer"].described = peer[f]["answerer"].described
      /\ peer'[f]["answerer"].ready = peer[f]["answerer"].ready
  BY <1>1, <1>4, TellDoes DEF Same
<1>6. peer'[f]["answerer"].made <=> peer[f]["answerer"].made
  <2>3. k \in Kinds /\ peer'[d][k].made /\ Same(d, k) /\ (k = "answerer" => peer[d][k].made)
    BY <1>1, ChosenIs, TellDoes
  <2>1. CASE f = d /\ k = "answerer"
    BY <2>1, <2>3
  <2>2. CASE ~ (f = d /\ k = "answerer")
    <3>1. peer'[f]["answerer"] = peer[f]["answerer"]
      BY <1>2, <1>4, <2>2, <2>3 DEF Same
    <3> QED
      BY <3>1
  <2> QED
    BY <2>1, <2>2
<1> QED
  BY <1>2, <1>3, <1>4, <1>5, <1>6, TravelsStay DEF OfferRight

LEMMA ChannelOffers ==
    ASSUME PeersTyped, OffersRight, NEW d \in Sides, NEW k \in Kinds, ChannelOpens(d, k) \/ ChannelSends(d, k)
    PROVE  OffersRight'
<1> SUFFICES ASSUME NEW e \in Sides PROVE OfferRight(e)'
  BY DEF OffersRight
<1>2. PICK f \in Sides : f = Other(e) /\ f # e
  BY TwoSides
<1>3. SocketsStay
  BY DEF ChannelOpens, ChannelSends, SocketsStay
<1>4. OfferRight(e) /\ "initiator" \in Kinds /\ "answerer" \in Kinds
  BY DEF OffersRight, Kinds
<1>5. /\ Same(d, k) /\ peer'[d][k].made = peer[d][k].made
      /\ peer'[d][k].described = peer[d][k].described /\ peer'[d][k].ready = peer[d][k].ready
  <2>1. PICK l : \/ ChannelOpens(d, k) /\ l = Opened(peer[d][k].line)
                 \/ ChannelSends(d, k) /\ l = Emptied(peer[d][k].line)
    OBVIOUS
  <2> QED
    BY <2>1, ChannelDoes
<1>6. \A g \in Sides, h \in Kinds :
         /\ peer'[g][h].made = peer[g][h].made
         /\ peer'[g][h].described = peer[g][h].described /\ peer'[g][h].ready = peer[g][h].ready
  BY <1>5 DEF Same
<1> QED
  BY <1>2, <1>3, <1>4, <1>6, TravelsStay DEF OfferRight

LEMMA SocketOffers ==
    ASSUME PeersTyped, OffersRight, NEW d \in Sides, SocketOpens(d) \/ SocketSends(d)
    PROVE  OffersRight'
<1>1. peer' = peer
  BY DEF SocketOpens, SocketSends
<1>2. \A e \in Sides, h \in Kinds : Travels(e, h)' <=> Travels(e, h)
  BY SocketTravels
<1>3. "initiator" \in Kinds /\ "answerer" \in Kinds
  BY DEF Kinds
<1>4. \A e \in Sides : Other(e) \in Sides
  BY TwoSides
<1> QED
  BY <1>1, <1>2, <1>3, <1>4 DEF OffersRight, OfferRight

LEMMA DescribeOffers ==
    ASSUME PeersTyped, OffersRight, NEW d \in Sides, NEW k \in Kinds, Describe(d, k)
    PROVE  OffersRight'
<1> SUFFICES ASSUME NEW e \in Sides PROVE OfferRight(e)'
  BY DEF OffersRight
<1>1. PICK f \in Sides : f = Other(e) /\ f # e
  BY TwoSides
<1>2. OfferRight(e) /\ "initiator" \in Kinds /\ "answerer" \in Kinds
  BY DEF OffersRight, Kinds
<1>3. /\ Same(d, k) /\ peer'[d][k].made /\ peer'[d][k].described /\ peer'[d][k].ready = (k = "answerer")
      /\ peer[d][k].made /\ ~ peer[d][k].described
      /\ \A g \in Sides, h \in Kinds : Travels(g, h)' <=> Travels(g, h) \/ (g = d /\ h = k)
  <2>1. /\ Same(d, k) /\ peer'[d][k].made /\ peer'[d][k].described /\ peer'[d][k].ready = (k = "answerer")
    BY DescribeDoes
  <2>2. \A g \in Sides, h \in Kinds : Travels(g, h)' <=> Travels(g, h) \/ (g = d /\ h = k)
    BY DescribeTravels
  <2>3. peer[d][k].made /\ ~ peer[d][k].described
    BY DEF Describe
  <2> QED
    BY <2>1, <2>2, <2>3
<1>4. CASE e = d /\ k = "initiator"
  <2>1. peer'[f]["answerer"] = peer[f]["answerer"]
    BY <1>1, <1>2, <1>3, <1>4 DEF Same
  <2>2. ~ peer[e]["initiator"].ready /\ ~ peer[f]["answerer"].made
    BY <1>1, <1>2, <1>3, <1>4 DEF OfferRight
  <2>3. ~ peer[f]["answerer"].described
    BY <1>1, <1>2, <2>2, NoConnIs DEF PeersTyped
  <2> QED
    BY <1>1, <1>2, <1>3, <1>4, <2>1, <2>2, <2>3 DEF OfferRight
<1>5. CASE f = d /\ k = "answerer"
  <2>1. peer'[e]["initiator"] = peer[e]["initiator"]
    BY <1>1, <1>2, <1>3, <1>5 DEF Same
  <2>2. peer[e]["initiator"].described
    BY <1>1, <1>2, <1>3, <1>5 DEF OfferRight
  <2> QED
    BY <1>1, <1>2, <1>3, <1>5, <2>1, <2>2 DEF OfferRight
<1>6. CASE ~ (e = d /\ k = "initiator") /\ ~ (f = d /\ k = "answerer")
  <2>1. peer'[e]["initiator"] = peer[e]["initiator"] /\ peer'[f]["answerer"] = peer[f]["answerer"]
    BY <1>1, <1>2, <1>3, <1>6 DEF Same
  <2>2. /\ Travels(e, "initiator")' <=> Travels(e, "initiator")
        /\ Travels(f, "answerer")' <=> Travels(f, "answerer")
    BY <1>1, <1>2, <1>3, <1>6
  <2> QED
    BY <1>1, <1>2, <2>1, <2>2 DEF OfferRight
<1> QED
  BY <1>4, <1>5, <1>6

LEMMA SignalledOffers ==
    ASSUME PeersTyped, OffersRight, NEW d \in Sides, Signalled(d)
    PROVE  OffersRight' /\ (Head(signal[d]) # "initiator" => peer[d]["initiator"].made)
<1>1. PICK x \in Kinds : x = Head(signal[d])
  BY SignalledTravels
<1>2. PICK g \in Sides : g = Other(d) /\ g # d /\ Other(g) = d /\ Sides = {d, g}
  BY TwoSides
<1>3. /\ Travels(g, x) /\ (Travels(g, x)' => Travels(g, x))
      /\ \A e \in Sides, h \in Kinds : e # g \/ h # x => (Travels(e, h)' <=> Travels(e, h))
  BY <1>1, <1>2, SignalledTravels
<1>4. OfferRight(d) /\ OfferRight(g) /\ "initiator" \in Kinds /\ "answerer" \in Kinds
  BY <1>2 DEF OffersRight, Kinds
<1>5. CASE x = "initiator"
  <2>1. /\ Same(d, "answerer") /\ peer'[d]["answerer"].made
        /\ peer'[d]["answerer"].described = peer[d]["answerer"].described
        /\ peer'[d]["answerer"].ready = peer[d]["answerer"].ready
    BY <1>1, <1>5, SignalledDoes
  <2>2. OfferRight(g)'
    <3>1. peer'[g]["initiator"] = peer[g]["initiator"]
      BY <1>2, <1>4, <2>1 DEF Same
    <3>2. Travels(d, "answerer")' <=> Travels(d, "answerer")
      BY <1>2, <1>3, <1>4
    <3> QED
      BY <1>2, <1>3, <1>4, <1>5, <2>1, <3>1, <3>2 DEF OfferRight
  <2>3. OfferRight(d)'
    <3>1. peer'[d]["initiator"] = peer[d]["initiator"] /\ peer'[g]["answerer"] = peer[g]["answerer"]
      BY <1>2, <1>4, <2>1 DEF Same
    <3>2. (Travels(d, "initiator")' <=> Travels(d, "initiator"))
          /\ (Travels(g, "answerer")' <=> Travels(g, "answerer"))
      BY <1>2, <1>3, <1>4, <1>5
    <3> QED
      BY <1>2, <1>4, <3>1, <3>2 DEF OfferRight
  <2> QED
    BY <1>1, <1>2, <1>5, <2>2, <2>3 DEF OffersRight
<1>6. CASE x # "initiator"
  <2>0. x = "answerer"
    BY <1>1, <1>6 DEF Kinds
  <2>1. /\ Same(d, "initiator") /\ peer'[d]["initiator"].ready
        /\ peer'[d]["initiator"].made = peer[d]["initiator"].made
        /\ peer'[d]["initiator"].described = peer[d]["initiator"].described
    BY <1>1, <1>6, SignalledDoes
  <2>2. peer[d]["initiator"].described
    BY <1>2, <1>3, <1>4, <2>0 DEF OfferRight
  <2>3. peer[d]["initiator"].made
    BY <1>4, <2>2, NoConnIs DEF PeersTyped
  <2>4. OfferRight(d)'
    <3>1. peer'[g]["answerer"] = peer[g]["answerer"]
      BY <1>2, <1>4, <2>1 DEF Same
    <3>2. Travels(d, "initiator")' <=> Travels(d, "initiator")
      BY <1>2, <1>3, <1>4
    <3> QED
      BY <1>2, <1>3, <1>4, <2>0, <2>1, <2>2, <3>1, <3>2 DEF OfferRight
  <2>5. OfferRight(g)'
    <3>1. peer'[g]["initiator"] = peer[g]["initiator"] /\ peer'[d]["answerer"] = peer[d]["answerer"]
      BY <1>2, <1>4, <2>1 DEF Same
    <3>2. (Travels(g, "initiator")' <=> Travels(g, "initiator"))
          /\ (Travels(d, "answerer")' <=> Travels(d, "answerer"))
      BY <1>2, <1>3, <1>4, <2>0
    <3> QED
      BY <1>2, <1>4, <3>1, <3>2 DEF OfferRight
  <2> QED
    BY <1>1, <1>2, <2>3, <2>4, <2>5 DEF OffersRight
<1> QED
  BY <1>5, <1>6

-----------------------------------------------------------------------------
\* The places of the commands of d: a store, and which one in it.
Slots(d) == UNION {{s} \X DOMAIN In(d, s) : s \in Stores(d)}
Held(d, x) == In(d, x[1])[x[2]]

SlotsRight(d) ==
    /\ \A s \in Stores(d) : \A i \in DOMAIN In(d, s) :
          <<s, i>> \in Slots(d) /\ Held(d, <<s, i>>) = In(d, s)[i]
    /\ \A x \in Slots(d) : \E s \in Stores(d) : \E i \in DOMAIN In(d, s) : x = <<s, i>>
LEMMA SlotsAre == ASSUME NEW d PROVE SlotsRight(d)
<1>1. ASSUME NEW x \in Slots(d) PROVE \E s \in Stores(d) : \E i \in DOMAIN In(d, s) : x = <<s, i>>
  BY DEF Slots
<1>2. ASSUME NEW s \in Stores(d), NEW i \in DOMAIN In(d, s)
      PROVE  <<s, i>> \in Slots(d) /\ Held(d, <<s, i>>) = In(d, s)[i]
  BY DEF Slots, Held
<1> QED
  BY <1>1, <1>2 DEF SlotsRight
LEMMA SlotsWillBe == ASSUME NEW d PROVE SlotsRight(d)'
BY SlotsAre, PTL

StoresRight(d) ==
    /\ \A k \in Kinds : /\ <<"pending", k>> \in Stores(d) /\ In(d, <<"pending", k>>) = peer[d][k].line.pending
                        /\ <<"buffered", k>> \in Stores(d) /\ In(d, <<"buffered", k>>) = peer[d][k].line.bw
    /\ \A p \in air : p.to # d => <<"flies", p>> \in Stores(d) /\ In(d, <<"flies", p>>) = p.cmds
    /\ <<"heard", Other(d)>> \in Stores(d) /\ In(d, <<"heard", Other(d)>>) = heard[Other(d)]
    /\ \A s \in Stores(d) : \/ \E k \in Kinds : (s = <<"pending", k>> \/ s = <<"buffered", k>>)
                            \/ \E p \in air : p.to # d /\ s = <<"flies", p>>
                            \/ s = <<"heard", Other(d)>>
LEMMA StoresAre == ASSUME NEW d PROVE StoresRight(d)
<1>1. \A k \in Kinds : <<"pending", k>> \in Stores(d) /\ <<"buffered", k>> \in Stores(d)
  BY DEF Stores
<1>2. \A k : In(d, <<"pending", k>>) = peer[d][k].line.pending /\ In(d, <<"buffered", k>>) = peer[d][k].line.bw
  BY DEF In
<1>3. \A p \in air : p.to # d => <<"flies", p>> \in Stores(d)
  BY DEF Stores
<1>4. \A p : In(d, <<"flies", p>>) = p.cmds
  BY DEF In
<1>5. <<"heard", Other(d)>> \in Stores(d)
  BY DEF Stores
<1>6. \A e : In(d, <<"heard", e>>) = heard[e]
  BY DEF In
<1>7. ASSUME NEW s \in Stores(d)
      PROVE  \/ \E k \in Kinds : (s = <<"pending", k>> \/ s = <<"buffered", k>>)
             \/ \E p \in air : p.to # d /\ s = <<"flies", p>>
             \/ s = <<"heard", Other(d)>>
  BY DEF Stores
<1> QED
  BY <1>1, <1>2, <1>3, <1>4, <1>5, <1>6, <1>7, Zenon DEF StoresRight
LEMMA StoresWillBe == ASSUME NEW d PROVE StoresRight(d)'
BY StoresAre, PTL

\* The commands that are told, and the slots they are in.
Told(d) == {<<d, n>> : n \in 1..told[d]}
OnceRight(d) ==
    EachOnce(d) <=> /\ \A x \in Slots(d) : Held(d, x) \in Told(d)
                    /\ \A c \in Told(d) : \E x \in Slots(d) : Held(d, x) = c
                    /\ \A x, y \in Slots(d) : Held(d, x) = Held(d, y) => x = y
LEMMA OnceIs == ASSUME NEW d PROVE OnceRight(d)
<1> DEFINE all == UNION {Range(In(d, s)) : s \in Stores(d)}
<1>1. \A x \in Slots(d) : Held(d, x) \in all
  <2> SUFFICES ASSUME NEW s \in Stores(d), NEW i \in DOMAIN In(d, s) PROVE Held(d, <<s, i>>) \in all
    BY SlotsAre DEF SlotsRight
  <2>1. Held(d, <<s, i>>) = In(d, s)[i]
    BY SlotsAre DEF SlotsRight
  <2>2. In(d, s)[i] \in Range(In(d, s))
    BY DEF Range
  <2> QED
    BY <2>1, <2>2
<1>2. ASSUME NEW c \in all PROVE \E x \in Slots(d) : Held(d, x) = c
  <2>1. PICK s \in Stores(d) : c \in Range(In(d, s))
    OBVIOUS
  <2>2. PICK i \in DOMAIN In(d, s) : c = In(d, s)[i]
    BY <2>1 DEF Range
  <2> QED
    BY <2>2, SlotsAre DEF SlotsRight
<1>3. all = Told(d) <=> /\ \A x \in Slots(d) : Held(d, x) \in Told(d)
                        /\ \A c \in Told(d) : \E x \in Slots(d) : Held(d, x) = c
  <2> HIDE DEF all
  <2> QED
    BY <1>1, <1>2
<1>4. (\A s, t \in Stores(d) : \A i \in DOMAIN In(d, s), j \in DOMAIN In(d, t) :
          In(d, s)[i] = In(d, t)[j] => s = t /\ i = j)
      <=> (\A x, y \in Slots(d) : Held(d, x) = Held(d, y) => x = y)
  <2>1. ASSUME \A s, t \in Stores(d) : \A i \in DOMAIN In(d, s), j \in DOMAIN In(d, t) :
                   In(d, s)[i] = In(d, t)[j] => s = t /\ i = j,
               NEW x \in Slots(d), NEW y \in Slots(d), Held(d, x) = Held(d, y)
        PROVE  x = y
    <3>1. PICK s \in Stores(d) : \E i \in DOMAIN In(d, s) : x = <<s, i>>
      BY SlotsAre DEF SlotsRight
    <3>2. PICK i \in DOMAIN In(d, s) : x = <<s, i>>
      BY <3>1
    <3>3. PICK t \in Stores(d) : \E j \in DOMAIN In(d, t) : y = <<t, j>>
      BY SlotsAre DEF SlotsRight
    <3>4. PICK j \in DOMAIN In(d, t) : y = <<t, j>>
      BY <3>3
    <3>5. In(d, s)[i] = In(d, t)[j]
      BY <2>1, <3>2, <3>4, SlotsAre DEF SlotsRight
    <3> QED
      BY <2>1, <3>2, <3>4, <3>5
  <2>2. ASSUME \A x, y \in Slots(d) : Held(d, x) = Held(d, y) => x = y,
               NEW s \in Stores(d), NEW t \in Stores(d), NEW i \in DOMAIN In(d, s), NEW j \in DOMAIN In(d, t),
               In(d, s)[i] = In(d, t)[j]
        PROVE  s = t /\ i = j
    <3>1. <<s, i>> \in Slots(d) /\ <<t, j>> \in Slots(d) /\ Held(d, <<s, i>>) = Held(d, <<t, j>>)
      BY <2>2, SlotsAre DEF SlotsRight
    <3>2. <<s, i>> = <<t, j>>
      BY <2>2, <3>1
    <3> QED
      BY <3>2
  <2> QED
    BY <2>1, <2>2
<1>5. EachOnce(d) <=> all = Told(d) /\ (\A s, t \in Stores(d) : \A i \in DOMAIN In(d, s), j \in DOMAIN In(d, t) :
                                         In(d, s)[i] = In(d, t)[j] => s = t /\ i = j)
  BY DEF EachOnce, Told
<1> HIDE DEF all
<1> QED
  BY <1>3, <1>4, <1>5 DEF OnceRight
LEMMA OnceWillBe == ASSUME NEW d PROVE OnceRight(d)'
BY OnceIs, PTL

\* Commands that move, each to a place of its own, stay where they are once.
LEMMA Moved ==
    ASSUME NEW d, EachOnce(d), Told(d)' = Told(d), NEW F,
           \A x \in Slots(d) : F[x] \in Slots(d)' /\ Held(d, F[x])' = Held(d, x),
           \A y \in Slots(d)' : \E x \in Slots(d) : y = F[x]
    PROVE  EachOnce(d)'
<1>1. \A x \in Slots(d)' : Held(d, x)' \in Told(d)'
  BY OnceIs DEF OnceRight
<1>2. \A c \in Told(d)' : \E x \in Slots(d)' : Held(d, x)' = c
  BY OnceIs DEF OnceRight
<1>3. ASSUME NEW x \in Slots(d)', NEW y \in Slots(d)', Held(d, x)' = Held(d, y)' PROVE x = y
  <2>1. PICK u, v : u \in Slots(d) /\ x = F[u] /\ v \in Slots(d) /\ y = F[v]
    OBVIOUS
  <2>2. Held(d, u) = Held(d, v)
    BY <1>3, <2>1
  <2> QED
    BY <2>1, <2>2, OnceIs DEF OnceRight
<1> QED
  BY <1>1, <1>2, <1>3, OnceWillBe DEF OnceRight

\* Nothing of d changes.
LEMMA Unmoved ==
    ASSUME NEW d, EachOnce(d), told'[d] = told[d],
           \A k \in Kinds : peer'[d][k].line = peer[d][k].line,
           {p \in air' : p.to # d} = {p \in air : p.to # d}, heard'[Other(d)] = heard[Other(d)]
    PROVE  EachOnce(d)'
<1>1. Stores(d)' = Stores(d)
  BY DEF Stores
<1>2. ASSUME NEW s \in Stores(d) PROVE In(d, s)' = In(d, s)
  BY DEF Stores, In
<1> QED
  BY <1>1, <1>2 DEF EachOnce

\* What is told is not told yet.
LEMMA TellOnce ==
    ASSUME PeersTyped, NEW d \in Sides, EachOnce(d), Tell(d)
    PROVE  EachOnce(d)'
<1>1. PICK k : k = Chosen(d)
  OBVIOUS
<1>2. PICK c : c = <<d, told[d] + 1>>
  OBVIOUS
<1>3. PICK l : l = peer[d][k].line
  OBVIOUS
<1>4. k \in Kinds /\ peer'[d][k].line = SendCmd(l, c) /\ Same(d, k)
  BY <1>1, <1>2, <1>3, TellDoes
<1>5. l \in LinesOf(Command) /\ c \in Command /\ told[d] \in Nat
  <2>1. told[d] \in Nat /\ peer[d][k] \in Conns
    BY <1>4 DEF PeersTyped
  <2>2. l \in LinesOf(Command)
    BY <1>3, <2>1 DEF Conns
  <2>3. c \in Command
    BY <1>2, <2>1 DEF Command
  <2> QED
    BY <2>1, <2>2, <2>3
<1>6. PICK s \in Stores(d), q \in Seq(Command) :
        /\ In(d, s) = q /\ In(d, s)' = Append(q, c)
        /\ \A t \in Stores(d) : t # s => In(d, t)' = In(d, t)
  <2>0. air' = air /\ heard' = heard
    BY DEF Tell
  <2>1. \A h \in Kinds : h # k => peer'[d][h].line = peer[d][h].line
    BY <1>4 DEF Same
  <2>2. CASE l.open
    <3>1. SendCmd(l, c).bw = Append(l.bw, c) /\ SendCmd(l, c).pending = l.pending
      BY <1>5, <2>2, LineSends
    <3>2. PICK s, q : s = <<"buffered", k>> /\ q = l.bw
      OBVIOUS
    <3>5. q \in Seq(Command)
      BY <1>5, <3>2 DEF LinesOf
    <3>6. s \in Stores(d) /\ In(d, s) = peer[d][k].line.bw
      BY <1>4, <3>2, StoresAre DEF StoresRight
    <3>7. In(d, s)' = peer'[d][k].line.bw
      BY <1>4, <3>2, StoresWillBe DEF StoresRight
    <3>3. s \in Stores(d) /\ In(d, s) = q /\ In(d, s)' = Append(q, c) /\ q \in Seq(Command)
      BY <1>3, <1>4, <3>1, <3>2, <3>5, <3>6, <3>7
    <3>4. ASSUME NEW t \in Stores(d), t # s PROVE In(d, t)' = In(d, t)
      BY <1>3, <1>4, <2>0, <2>1, <3>1, <3>2, <3>4 DEF Stores, In
    <3> QED
      BY <3>3, <3>4
  <2>3. CASE ~ l.open
    <3>1. SendCmd(l, c).pending = Append(l.pending, c) /\ SendCmd(l, c).bw = l.bw
      BY <1>5, <2>3, LineSends
    <3>2. PICK s, q : s = <<"pending", k>> /\ q = l.pending
      OBVIOUS
    <3>5. q \in Seq(Command)
      BY <1>5, <3>2 DEF LinesOf
    <3>6. s \in Stores(d) /\ In(d, s) = peer[d][k].line.pending
      BY <1>4, <3>2, StoresAre DEF StoresRight
    <3>7. In(d, s)' = peer'[d][k].line.pending
      BY <1>4, <3>2, StoresWillBe DEF StoresRight
    <3>3. s \in Stores(d) /\ In(d, s) = q /\ In(d, s)' = Append(q, c) /\ q \in Seq(Command)
      BY <1>3, <1>4, <3>1, <3>2, <3>5, <3>6, <3>7
    <3>4. ASSUME NEW t \in Stores(d), t # s PROVE In(d, t)' = In(d, t)
      BY <1>3, <1>4, <2>0, <2>1, <3>1, <3>2, <3>4 DEF Stores, In
    <3> QED
      BY <3>3, <3>4
  <2> QED
    BY <2>2, <2>3
<1>7. Stores(d)' = Stores(d)
  BY DEF Stores, Tell
<1>8. PICK m \in Nat : m = Len(q)
  OBVIOUS
<1>9. PICK r : r = Append(q, c)
  OBVIOUS
<1>10. DOMAIN q = 1..m /\ DOMAIN r = 1..m + 1 /\ r[m + 1] = c /\ \A i \in 1..m : r[i] = q[i] /\ i \in 1..m + 1
  BY <1>5, <1>8, <1>9
<1>11. PICK z : z = <<s, m + 1>>
  OBVIOUS
<1>12. z \in Slots(d)' /\ Held(d, z)' = c
  BY <1>6, <1>7, <1>9, <1>10, <1>11, SlotsWillBe DEF SlotsRight
<1>13. ASSUME NEW x \in Slots(d) PROVE x \in Slots(d)' /\ Held(d, x)' = Held(d, x)
  <2>1. PICK t \in Stores(d) : \E i \in DOMAIN In(d, t) : x = <<t, i>>
    BY SlotsAre DEF SlotsRight
  <2>2. PICK i \in DOMAIN In(d, t) : x = <<t, i>>
    BY <2>1
  <2>3. t \in Stores(d)' /\ i \in DOMAIN In(d, t)' /\ In(d, t)'[i] = In(d, t)[i]
    BY <1>6, <1>7, <1>9, <1>10
  <2> QED
    BY <2>2, <2>3, SlotsAre, SlotsWillBe DEF SlotsRight
<1>14. ASSUME NEW x \in Slots(d)', x # z PROVE x \in Slots(d)
  <2>1. PICK t \in Stores(d) : \E i \in DOMAIN In(d, t)' : x = <<t, i>>
    BY <1>7, SlotsWillBe DEF SlotsRight
  <2>2. PICK i \in DOMAIN In(d, t)' : x = <<t, i>>
    BY <2>1
  <2>3. i \in DOMAIN In(d, t)
    <3>1. CASE t = s
      <4>1. i \in 1..m + 1 /\ i # m + 1
        BY <1>6, <1>9, <1>10, <1>11, <1>14, <2>2, <3>1
      <4>2. i \in 1..m
        BY <4>1
      <4> QED
        BY <1>6, <1>10, <3>1, <4>2
    <3>2. CASE t # s
      BY <1>6, <3>2
    <3> QED
      BY <3>1, <3>2
  <2> QED
    BY <2>2, <2>3, SlotsAre DEF SlotsRight
<1>15. told'[d] = told[d] + 1
  BY DEF Tell, PeersTyped
<1>16. c \notin Told(d) /\ \A e : e \in Told(d)' <=> e \in Told(d) \/ e = c
  <2>1. PICK n \in Nat : n = told[d]
    BY <1>5
  <2>2. \A i : i \in 1..n + 1 <=> i \in 1..n \/ i = n + 1
    BY <2>1
  <2>3. n + 1 \notin 1..n
    BY <2>1
  <2> QED
    BY <1>2, <1>15, <2>1, <2>2, <2>3 DEF Told
<1>17. /\ \A x \in Slots(d) : Held(d, x) \in Told(d)
       /\ \A e \in Told(d) : \E x \in Slots(d) : Held(d, x) = e
       /\ \A x, y \in Slots(d) : Held(d, x) = Held(d, y) => x = y
  BY OnceIs DEF OnceRight
<1>18. \A x \in Slots(d)' : Held(d, x)' \in Told(d)'
  BY <1>12, <1>13, <1>14, <1>16, <1>17
<1>19. \A e \in Told(d)' : \E x \in Slots(d)' : Held(d, x)' = e
  BY <1>12, <1>13, <1>16, <1>17
<1>20. \A x, y \in Slots(d)' : Held(d, x)' = Held(d, y)' => x = y
  BY <1>12, <1>13, <1>14, <1>16, <1>17
<1> QED
  BY <1>18, <1>19, <1>20, OnceWillBe DEF OnceRight

\* The commands of one store move, and the others stay.
LEMMA StoreMoves ==
    ASSUME NEW d, EachOnce(d), told'[d] = told[d], NEW a \in Stores(d), NEW G,
           \A s \in Stores(d) : s # a =>
              s \in Stores(d)' /\ \A i \in DOMAIN In(d, s) : i \in DOMAIN In(d, s)' /\ In(d, s)'[i] = In(d, s)[i],
           \A i \in DOMAIN In(d, a) : G[i] \in Slots(d)' /\ Held(d, G[i])' = In(d, a)[i],
           \A y \in Slots(d)' : \/ \E s \in Stores(d) : s # a /\ \E i \in DOMAIN In(d, s) : y = <<s, i>>
                                \/ \E i \in DOMAIN In(d, a) : y = G[i]
    PROVE  EachOnce(d)'
<1>1. PICK F : F = [x \in Slots(d) |-> IF x[1] = a THEN G[x[2]] ELSE x]
  OBVIOUS
<1>2. \A s \in Stores(d) : \A i \in DOMAIN In(d, s) :
         (s # a => F[<<s, i>>] = <<s, i>>) /\ (s = a => F[<<s, i>>] = G[i])
  <2> TAKE s \in Stores(d)
  <2> TAKE i \in DOMAIN In(d, s)
  <2>3. PICK x : x = <<s, i>>
    OBVIOUS
  <2>1. x \in Slots(d) /\ x = <<s, i>> /\ x[1] = s /\ x[2] = i
    BY <2>3, SlotsAre DEF SlotsRight
  <2>2. F[x] = IF x[1] = a THEN G[x[2]] ELSE x
    BY <1>1, <2>1, Zenon
  <2> QED
    BY <2>1, <2>2
<1>3. ASSUME NEW x \in Slots(d) PROVE F[x] \in Slots(d)' /\ Held(d, F[x])' = Held(d, x)
  <2>1. PICK s \in Stores(d) : \E i \in DOMAIN In(d, s) : x = <<s, i>>
    BY SlotsAre DEF SlotsRight
  <2>2. PICK i \in DOMAIN In(d, s) : x = <<s, i>>
    BY <2>1
  <2>3. Held(d, x) = In(d, s)[i]
    BY <2>2, SlotsAre DEF SlotsRight
  <2>4. CASE s = a
    BY <1>2, <2>2, <2>3, <2>4
  <2>5. CASE s # a
    <3>1. s \in Stores(d)' /\ i \in DOMAIN In(d, s)' /\ In(d, s)'[i] = In(d, s)[i]
      BY <2>5
    <3>2. x \in Slots(d)' /\ Held(d, x)' = In(d, s)'[i]
      BY <2>2, <3>1, SlotsWillBe DEF SlotsRight
    <3>5. s \in Stores(d) /\ i \in DOMAIN In(d, s)
      OBVIOUS
    <3>4. F[<<s, i>>] = <<s, i>>
      BY ONLY <1>2, <2>5, <3>5, Zenon
    <3>3. F[x] = x
      BY <2>2, <3>4
    <3> QED
      BY <2>3, <3>1, <3>2, <3>3
  <2> QED
    BY <2>4, <2>5
<1>4. ASSUME NEW y \in Slots(d)' PROVE \E x \in Slots(d) : y = F[x]
  <2>1. CASE \E s \in Stores(d) : s # a /\ \E i \in DOMAIN In(d, s) : y = <<s, i>>
    <3>1. PICK s \in Stores(d) : s # a /\ \E i \in DOMAIN In(d, s) : y = <<s, i>>
      BY <2>1
    <3>2. PICK i \in DOMAIN In(d, s) : y = <<s, i>>
      BY <3>1
    <3>6. s \in Stores(d) /\ i \in DOMAIN In(d, s) /\ s # a
      BY <3>1
    <3>4. F[<<s, i>>] = <<s, i>>
      BY ONLY <1>2, <3>6, Zenon
    <3>5. <<s, i>> \in Slots(d)
      BY SlotsAre DEF SlotsRight
    <3>3. y \in Slots(d) /\ F[y] = y
      BY <3>2, <3>4, <3>5
    <3> QED
      BY <3>3
  <2>2. CASE \E i \in DOMAIN In(d, a) : y = G[i]
    <3>1. PICK i \in DOMAIN In(d, a) : y = G[i]
      BY <2>2
    <3>2. PICK x : x = <<a, i>>
      OBVIOUS
    <3>3. x \in Slots(d) /\ F[x] = G[i]
      BY <1>2, <3>2, SlotsAre DEF SlotsRight
    <3> QED
      BY <3>1, <3>3
  <2> QED
    BY <2>1, <2>2
<1>5. Told(d)' = Told(d)
  BY DEF Told
<1> QED
  BY <1>3, <1>4, <1>5, Moved

\* The channel opens: each command that waits is a packet.
LEMMA ChannelOpensOnce ==
    ASSUME PeersTyped, NEW d \in Sides, NEW k \in Kinds, EachOnce(d), ChannelOpens(d, k)
    PROVE  EachOnce(d)'
<1>1. PICK f \in Sides : f = Other(d) /\ f # d
  BY TwoSides
<1>2. PICK l : l = peer[d][k].line
  OBVIOUS
<1>3. PICK N : N = {[to |-> f, cmds |-> <<c>>] : c \in Range(l.pending)}
  OBVIOUS
<1>4. air' = air \cup N /\ told' = told /\ heard' = heard
  BY <1>1, <1>2, <1>3 DEF ChannelOpens
<1>5. Same(d, k) /\ peer'[d][k].line = Opened(l)
  <2>1. PICK m : m = Opened(peer[d][k].line)
    OBVIOUS
  <2> QED
    BY <1>2, <2>1, ChannelDoes
<1>6. l \in LinesOf(Command)
  BY <1>2 DEF PeersTyped, Conns
<1>7. peer'[d][k].line.pending = <<>> /\ peer'[d][k].line.bw = l.bw
  BY <1>5, <1>6, LineEmpties
<1>8. PICK a, G : a = <<"pending", k>> /\ G = [i \in DOMAIN l.pending |-> <<<<"flies", [to |-> f, cmds |-> <<l.pending[i]>>]>>, 1>>]
  OBVIOUS
<1>9. a \in Stores(d) /\ In(d, a) = l.pending
  BY <1>2, <1>8, StoresAre DEF StoresRight
<1>10. ASSUME NEW s \in Stores(d), s # a PROVE s \in Stores(d)' /\ In(d, s)' = In(d, s)
  <2>1. \A h \in Kinds : h # k => peer'[d][h].line = peer[d][h].line
    BY <1>5 DEF Same
  <2>2. s \in Stores(d)'
    BY <1>4 DEF Stores
  <2>3. In(d, s)' = In(d, s)
    BY <1>2, <1>4, <1>7, <1>8, <1>10, <2>1 DEF Stores, In
  <2> QED
    BY <2>2, <2>3
<1>11. ASSUME NEW p \in N
       PROVE  /\ <<"flies", p>> \in Stores(d)' /\ In(d, <<"flies", p>>)' = p.cmds
              /\ \E i \in DOMAIN l.pending : p = [to |-> f, cmds |-> <<l.pending[i]>>]
  <2>1. \E i \in DOMAIN l.pending : p = [to |-> f, cmds |-> <<l.pending[i]>>]
    BY <1>3 DEF Range
  <2>2. p \in air' /\ p.to # d
    BY <1>1, <1>4, <2>1
  <2> QED
    BY <2>1, <2>2, StoresWillBe DEF StoresRight
<1>12. ASSUME NEW i \in DOMAIN In(d, a) PROVE G[i] \in Slots(d)' /\ Held(d, G[i])' = In(d, a)[i]
  <2>1. PICK p : p = [to |-> f, cmds |-> <<l.pending[i]>>]
    OBVIOUS
  <2>2. p \in N
    BY <1>3, <1>9, <2>1 DEF Range
  <2>3. G[i] = <<<<"flies", p>>, 1>>
    BY <1>8, <1>9, <2>1
  <2>4. PICK q : q = p.cmds
    OBVIOUS
  <2>5. 1 \in DOMAIN q /\ q[1] = l.pending[i]
    BY <2>1, <2>4
  <2>6. <<"flies", p>> \in Stores(d)' /\ In(d, <<"flies", p>>)' = q
    BY <1>11, <2>2, <2>4
  <2> QED
    BY <1>9, <2>3, <2>5, <2>6, SlotsWillBe DEF SlotsRight
<1>13. ASSUME NEW y \in Slots(d)'
       PROVE  \/ \E s \in Stores(d) : s # a /\ \E i \in DOMAIN In(d, s) : y = <<s, i>>
              \/ \E i \in DOMAIN In(d, a) : y = G[i]
  <2>1. PICK t \in Stores(d)' : \E j \in DOMAIN In(d, t)' : y = <<t, j>>
    BY SlotsWillBe DEF SlotsRight
  <2>2. PICK j \in DOMAIN In(d, t)' : y = <<t, j>>
    BY <2>1
  <2>3. t # a
    <3>1. In(d, a)' = <<>>
      BY <1>7, <1>8, StoresWillBe DEF StoresRight
    <3> QED
      BY <2>2, <3>1
  <2>4. CASE t \in Stores(d)
    BY <1>10, <2>2, <2>3, <2>4
  <2>5. CASE t \notin Stores(d)
    <3>1. PICK p \in N : t = <<"flies", p>>
      BY <1>4, <2>5 DEF Stores
    <3>2. PICK i \in DOMAIN l.pending : p = [to |-> f, cmds |-> <<l.pending[i]>>]
      BY <1>11
    <3>3. In(d, t)' = p.cmds
      BY <1>11, <3>1
    <3>4. p.cmds = <<l.pending[i]>>
      BY <3>2
    <3>5. j = 1
      BY <2>2, <3>3, <3>4
    <3>6. G[i] = <<<<"flies", p>>, 1>>
      BY <1>8, <3>2
    <3> QED
      BY <1>9, <2>2, <3>1, <3>5, <3>6
  <2> QED
    BY <2>4, <2>5
<1> QED
  <2>1. \A s \in Stores(d) : s # a =>
           s \in Stores(d)' /\ \A i \in DOMAIN In(d, s) : i \in DOMAIN In(d, s)' /\ In(d, s)'[i] = In(d, s)[i]
    BY <1>10
  <2> QED
    BY <1>4, <1>9, <1>12, <1>13, <2>1, StoreMoves

\* Its timer sends the buffer.
LEMMA ChannelSendsOnce ==
    ASSUME PeersTyped, NEW d \in Sides, NEW k \in Kinds, EachOnce(d), ChannelSends(d, k)
    PROVE  EachOnce(d)'
<1>1. PICK f \in Sides : f = Other(d) /\ f # d
  BY TwoSides
<1>2. PICK l : l = peer[d][k].line
  OBVIOUS
<1>3. PICK p : p = [to |-> f, cmds |-> l.bw]
  OBVIOUS
<1>4. air' = air \cup {p} /\ told' = told /\ heard' = heard
  BY <1>1, <1>2, <1>3 DEF ChannelSends
<1>5. Same(d, k) /\ peer'[d][k].line = Emptied(l)
  <2>1. PICK m : m = Emptied(peer[d][k].line)
    OBVIOUS
  <2> QED
    BY <1>2, <2>1, ChannelDoes
<1>6. l \in LinesOf(Command)
  BY <1>2 DEF PeersTyped, Conns
<1>7. peer'[d][k].line.bw = <<>> /\ peer'[d][k].line.pending = l.pending
  BY <1>5, <1>6, LineEmpties
<1>8. PICK a, b, G : a = <<"buffered", k>> /\ b = <<"flies", p>> /\ G = [i \in DOMAIN l.bw |-> <<b, i>>]
  OBVIOUS
<1>9. a \in Stores(d) /\ In(d, a) = l.bw
  BY <1>2, <1>8, StoresAre DEF StoresRight
<1>10. ASSUME NEW s \in Stores(d), s # a PROVE s \in Stores(d)' /\ In(d, s)' = In(d, s)
  <2>1. \A h \in Kinds : h # k => peer'[d][h].line = peer[d][h].line
    BY <1>5 DEF Same
  <2>2. s \in Stores(d)'
    BY <1>4 DEF Stores
  <2>3. In(d, s)' = In(d, s)
    BY <1>2, <1>4, <1>7, <1>8, <1>10, <2>1 DEF Stores, In
  <2> QED
    BY <2>2, <2>3
<1>11. b \in Stores(d)' /\ In(d, b)' = l.bw
  <2>1. p \in air' /\ p.to # d /\ p.cmds = l.bw
    BY <1>1, <1>3, <1>4
  <2> QED
    BY <1>8, <2>1, StoresWillBe DEF StoresRight
<1>12. ASSUME NEW i \in DOMAIN In(d, a) PROVE G[i] \in Slots(d)' /\ Held(d, G[i])' = In(d, a)[i]
  BY <1>8, <1>9, <1>11, SlotsWillBe DEF SlotsRight
<1>13. ASSUME NEW y \in Slots(d)'
       PROVE  \/ \E s \in Stores(d) : s # a /\ \E i \in DOMAIN In(d, s) : y = <<s, i>>
              \/ \E i \in DOMAIN In(d, a) : y = G[i]
  <2>1. PICK t \in Stores(d)' : \E j \in DOMAIN In(d, t)' : y = <<t, j>>
    BY SlotsWillBe DEF SlotsRight
  <2>2. PICK j \in DOMAIN In(d, t)' : y = <<t, j>>
    BY <2>1
  <2>3. t # a
    <3>1. In(d, a)' = <<>>
      BY <1>7, <1>8, StoresWillBe DEF StoresRight
    <3> QED
      BY <2>2, <3>1
  <2>4. CASE t = b
    BY <1>8, <1>9, <1>11, <2>2, <2>4
  <2>5. CASE t # b
    <3>1. t \in Stores(d)
      BY <1>4, <1>8, <2>5 DEF Stores
    <3> QED
      BY <1>10, <2>2, <2>3, <3>1
  <2> QED
    BY <2>4, <2>5
<1> QED
  <2>1. \A s \in Stores(d) : s # a =>
           s \in Stores(d)' /\ \A i \in DOMAIN In(d, s) : i \in DOMAIN In(d, s)' /\ In(d, s)'[i] = In(d, s)[i]
    BY <1>10
  <2> QED
    BY <1>4, <1>9, <1>12, <1>13, <2>1, StoreMoves

\* A packet is heard.
LEMMA HearOnce ==
    ASSUME PeersTyped, NEW d \in Sides, NEW p \in air, p.to # d, EachOnce(d), Hear(p)
    PROVE  EachOnce(d)'
<1>1. PICK f \in Sides : f = Other(d) /\ f # d /\ Sides = {d, f}
  BY TwoSides
<1>2. p.to = f /\ p.cmds \in Seq(Command)
  BY <1>1 DEF PeersTyped
<1>3. PICK q \in Seq(Command), s \in Seq(Command) : q = p.cmds /\ s = heard[f]
  BY <1>2 DEF PeersTyped
<1>4. /\ air' = air \ {p} /\ told' = told /\ peer' = peer
      /\ heard'[f] = s \o q /\ \A e \in Sides : e # f => heard'[e] = heard[e]
  BY <1>2, <1>3 DEF Hear, PeersTyped
<1>5. PICK m \in Nat, n \in Nat : m = Len(s) /\ n = Len(q)
  OBVIOUS
<1>6. PICK u : u = s \o q
  OBVIOUS
<1>7. /\ DOMAIN s = 1..m /\ DOMAIN q = 1..n /\ DOMAIN u = 1..m + n
      /\ \A i \in 1..m + n : u[i] = IF i <= m THEN s[i] ELSE q[i - m]
  BY <1>5, <1>6
<1>8. /\ \A i \in 1..m : i \in 1..m + n /\ u[i] = s[i]
      /\ \A i \in 1..n : m + i \in 1..m + n /\ u[m + i] = q[i]
      /\ \A j \in 1..m + n : j \in 1..m \/ \E i \in 1..n : j = m + i
  <2>1. \A i \in 1..m : i \in 1..m + n /\ u[i] = s[i]
    BY <1>7
  <2>2. ASSUME NEW i \in 1..n PROVE m + i \in 1..m + n /\ u[m + i] = q[i]
    <3>1. m + i \in 1..m + n /\ ~ (m + i <= m) /\ m + i - m = i
      OBVIOUS
    <3> QED
      BY <3>1, <1>7
  <2>3. ASSUME NEW j \in 1..m + n, j \notin 1..m PROVE \E i \in 1..n : j = m + i
    <3>1. j - m \in 1..n /\ j = m + (j - m)
      BY <2>3
    <3> QED
      BY <3>1
  <2> QED
    BY <2>1, <2>2, <2>3
<1>9. PICK a, b, G : a = <<"flies", p>> /\ b = <<"heard", f>> /\ G = [i \in 1..n |-> <<b, m + i>>]
  OBVIOUS
<1>10. a \in Stores(d) /\ In(d, a) = q
  BY <1>3, <1>9, StoresAre DEF StoresRight
<1>11. b \in Stores(d) /\ b \in Stores(d)' /\ In(d, b) = s /\ In(d, b)' = u /\ a # b
  BY <1>1, <1>3, <1>4, <1>6, <1>9, StoresAre, StoresWillBe DEF StoresRight
<1>12. ASSUME NEW t \in Stores(d), t # a, t # b PROVE t \in Stores(d)' /\ In(d, t)' = In(d, t)
  <2>1. t \in Stores(d)'
    BY <1>4, <1>9, <1>12 DEF Stores
  <2>2. In(d, t)' = In(d, t)
    BY <1>1, <1>4, <1>9, <1>12 DEF Stores, In
  <2> QED
    BY <2>1, <2>2
<1>13. ASSUME NEW i \in DOMAIN In(d, a) PROVE G[i] \in Slots(d)' /\ Held(d, G[i])' = In(d, a)[i]
  <2>1. i \in 1..n /\ G[i] = <<b, m + i>>
    BY <1>7, <1>9, <1>10
  <2>2. m + i \in DOMAIN In(d, b)' /\ In(d, b)'[m + i] = q[i]
    BY <1>7, <1>8, <1>11, <2>1
  <2> QED
    BY <1>10, <1>11, <2>1, <2>2, SlotsWillBe DEF SlotsRight
<1>14. ASSUME NEW y \in Slots(d)'
       PROVE  \/ \E t \in Stores(d) : t # a /\ \E i \in DOMAIN In(d, t) : y = <<t, i>>
              \/ \E i \in DOMAIN In(d, a) : y = G[i]
  <2>1. PICK t \in Stores(d)' : \E j \in DOMAIN In(d, t)' : y = <<t, j>>
    BY SlotsWillBe DEF SlotsRight
  <2>2. PICK j \in DOMAIN In(d, t)' : y = <<t, j>>
    BY <2>1
  <2>3. t # a /\ t \in Stores(d)
    BY <1>4, <1>9 DEF Stores
  <2>4. CASE t = b
    <3>1. j \in 1..m + n
      BY <1>7, <1>11, <2>2, <2>4
    <3>2. CASE j \in 1..m
      BY <1>7, <1>11, <2>2, <2>3, <2>4, <3>2
    <3>3. CASE \E i \in 1..n : j = m + i
      BY <1>7, <1>9, <1>10, <2>2, <2>4, <3>3
    <3> QED
      BY <1>8, <3>1, <3>2, <3>3
  <2>5. CASE t # b
    BY <1>12, <2>2, <2>3, <2>5
  <2> QED
    BY <2>4, <2>5
<1> QED
  <2>1. \A t \in Stores(d) : t # a =>
           t \in Stores(d)' /\ \A i \in DOMAIN In(d, t) : i \in DOMAIN In(d, t)' /\ In(d, t)'[i] = In(d, t)[i]
    BY <1>7, <1>8, <1>11, <1>12
  <2>2. told'[d] = told[d]
    BY <1>4
  <2> QED
    BY <1>10, <1>13, <1>14, <2>1, <2>2, StoreMoves

-----------------------------------------------------------------------------
\* The types after each action, and the connections that are not made.
LEMMA MadeStay ==
    ASSUME PeersTyped, NEW d \in Sides, NEW k \in Kinds, Same(d, k), peer'[d][k].made
    PROVE  \A e \in Sides, h \in Kinds : ~ peer'[e][h].made => peer'[e][h] = NoConn
BY DEF PeersTyped, Same

LEMMA TypesKept ==
    ASSUME PeersTyped, OffersRight, PeerNext
    PROVE  PeersTyped'
<1>0. "initiator" \in Kinds /\ "answerer" \in Kinds
  BY DEF Kinds
<1>1. ASSUME NEW d \in Sides, Tell(d) PROVE PeersTyped'
  <2>1. PICK k : k = Chosen(d)
    OBVIOUS
  <2>2. k \in Kinds /\ PeersAre /\ Same(d, k) /\ peer'[d][k].made
    BY <1>1, <2>1, TellDoes
  <2>3. told' \in [Sides -> Nat]
    BY <1>1 DEF Tell, PeersTyped
  <2> QED
    BY <1>1, <2>2, <2>3, MadeStay DEF Tell, PeersTyped, PeersAre
<1>2. ASSUME NEW d \in Sides, NEW k \in Kinds, Describe(d, k) PROVE PeersTyped'
  <2>1. PeersAre /\ Same(d, k) /\ peer'[d][k].made
    BY <1>2, DescribeDoes
  <2>2. sock' \in [Sides -> LinesOf(Kinds)]
    BY <1>2, DescribeTravels
  <2> QED
    BY <1>2, <2>1, <2>2, MadeStay DEF Describe, PeersTyped, PeersAre
<1>3. ASSUME NEW d \in Sides, SocketOpens(d) \/ SocketSends(d) PROVE PeersTyped'
  <2>1. sock' \in [Sides -> LinesOf(Kinds)] /\ signal' \in [Sides -> Seq(Kinds)]
    BY <1>3, SocketTravels
  <2> QED
    BY <1>3, <2>1 DEF SocketOpens, SocketSends, PeersTyped
<1>4. ASSUME NEW d \in Sides, Signalled(d) PROVE PeersTyped'
  <2>1. PeersAre /\ \E k \in Kinds : Same(d, k) /\ peer'[d][k].made
    <3>1. CASE Head(signal[d]) = "initiator"
      BY <1>0, <1>4, <3>1, SignalledDoes
    <3>2. CASE Head(signal[d]) # "initiator"
      BY <1>0, <1>4, <3>2, SignalledDoes, SignalledOffers
    <3> QED
      BY <3>1, <3>2
  <2>2. signal' \in [Sides -> Seq(Kinds)]
    BY <1>4, SignalledTravels
  <2>3. \A e \in Sides, h \in Kinds : ~ peer'[e][h].made => peer'[e][h] = NoConn
    BY <2>1, MadeStay
  <2> QED
    BY <1>4, <2>1, <2>2, <2>3 DEF Signalled, PeersTyped, PeersAre
<1>5. ASSUME NEW d \in Sides, NEW k \in Kinds, ChannelOpens(d, k) \/ ChannelSends(d, k) PROVE PeersTyped'
  <2>1. PICK l : \/ ChannelOpens(d, k) /\ l = Opened(peer[d][k].line)
                 \/ ChannelSends(d, k) /\ l = Emptied(peer[d][k].line)
    BY <1>5
  <2>2. PeersAre /\ Same(d, k) /\ peer'[d][k].made = peer[d][k].made
    BY <2>1, ChannelDoes
  <2>3. peer[d][k].made
    BY <1>5, NoConnIs DEF PeersTyped, ChannelOpens, ChannelSends
  <2>4. peer[d][k].line.bw \in Seq(Command) /\ peer[d][k].line.pending \in Seq(Command) /\ Other(d) \in Sides
    BY TwoSides DEF PeersTyped, Conns, LinesOf
  <2>5. air' \subseteq [to : Sides, cmds : Seq(Command)]
    <3>1. CASE ChannelOpens(d, k)
      <4>1. \A c \in Range(peer[d][k].line.pending) : c \in Command /\ <<c>> \in Seq(Command)
        BY <2>4 DEF Range
      <4> QED
        <5>1. \A p \in {[to |-> Other(d), cmds |-> <<c>>] : c \in Range(peer[d][k].line.pending)} :
                 p \in [to : Sides, cmds : Seq(Command)]
          <6>1. PICK f \in Sides : f = Other(d)
            BY <2>4
          <6>2. ASSUME NEW c \in Range(peer[d][k].line.pending), NEW q, q = <<c>>
                PROVE  [to |-> f, cmds |-> q] \in [to : Sides, cmds : Seq(Command)]
            <7>1. q \in Seq(Command)
              BY <4>1, <6>2
            <7> QED
              BY <7>1
          <6> QED
            BY <6>1, <6>2
        <5> QED
          BY <3>1, <5>1 DEF ChannelOpens, PeersTyped
    <3>2. CASE ChannelSends(d, k)
      BY <2>4, <3>2 DEF ChannelSends, PeersTyped
    <3> QED
      BY <1>5, <3>1, <3>2
  <2> QED
    BY <1>5, <2>2, <2>3, <2>5, MadeStay DEF ChannelOpens, ChannelSends, PeersTyped, PeersAre
<1>6. ASSUME NEW p \in air, Hear(p) PROVE PeersTyped'
  <2>1. p.to \in Sides /\ p.cmds \in Seq(Command) /\ heard[p.to] \in Seq(Command)
    BY DEF PeersTyped
  <2>2. heard[p.to] \o p.cmds \in Seq(Command)
    BY <2>1
  <2>3. heard' \in [Sides -> Seq(Command)]
    BY <1>6, <2>1, <2>2 DEF Hear, PeersTyped
  <2> QED
    BY <1>6, <2>3 DEF Hear, PeersTyped
<1> QED
  BY <1>1, <1>2, <1>3, <1>4, <1>5, <1>6 DEF PeerNext

\* Each action keeps every command in one place.
LEMMA OnceKept ==
    ASSUME PeersTyped, OffersRight, NEW d \in Sides, EachOnce(d), PeerNext
    PROVE  EachOnce(d)'
<1>0. Other(d) \in Sides /\ Other(d) # d /\ Sides = {d, Other(d)} /\ Other(Other(d)) = d
  BY TwoSides
<1>1. ASSUME NEW e \in Sides, Tell(e) PROVE EachOnce(d)'
  <2>1. CASE e = d
    BY <1>1, <2>1, TellOnce
  <2>2. CASE e # d
    <3>1. PICK k : k = Chosen(e)
      OBVIOUS
    <3>2. Same(e, k)
      BY <1>1, <3>1, TellDoes
    <3>3. \A h \in Kinds : peer'[d][h].line = peer[d][h].line
      BY <2>2, <3>2 DEF Same
    <3>4. told'[d] = told[d]
      BY <1>1, <2>2 DEF Tell, PeersTyped
    <3> QED
      BY <1>1, <3>3, <3>4, Unmoved DEF Tell
  <2> QED
    BY <2>1, <2>2
<1>2. ASSUME NEW e \in Sides, NEW k \in Kinds, Describe(e, k) PROVE EachOnce(d)'
  <2>1. Same(e, k) /\ peer'[e][k].line = peer[e][k].line
    BY <1>2, DescribeDoes
  <2>2. \A h \in Kinds : peer'[d][h].line = peer[d][h].line
    BY <2>1 DEF Same
  <2> QED
    BY <1>2, <2>2, Unmoved DEF Describe
<1>3. ASSUME NEW e \in Sides, SocketOpens(e) \/ SocketSends(e) PROVE EachOnce(d)'
  BY <1>3, Unmoved DEF SocketOpens, SocketSends
<1>4. ASSUME NEW e \in Sides, Signalled(e) PROVE EachOnce(d)'
  <2>1. \A h \in Kinds : peer'[d][h].line = peer[d][h].line
    BY <1>4, SignalledDoes
  <2> QED
    BY <1>4, <2>1, Unmoved DEF Signalled
<1>5. ASSUME NEW e \in Sides, NEW k \in Kinds, ChannelOpens(e, k) \/ ChannelSends(e, k) PROVE EachOnce(d)'
  <2>1. CASE e = d
    BY <1>5, <2>1, ChannelOpensOnce, ChannelSendsOnce
  <2>2. CASE e # d
    <3>1. PICK l : \/ ChannelOpens(e, k) /\ l = Opened(peer[e][k].line)
                   \/ ChannelSends(e, k) /\ l = Emptied(peer[e][k].line)
      BY <1>5
    <3>2. Same(e, k)
      BY <3>1, ChannelDoes
    <3>3. \A h \in Kinds : peer'[d][h].line = peer[d][h].line
      BY <2>2, <3>2 DEF Same
    <3>4. Other(e) = d
      BY <1>0, <2>2
    <3>5. {p \in air' : p.to # d} = {p \in air : p.to # d} /\ told' = told /\ heard' = heard
      BY <1>5, <3>4 DEF ChannelOpens, ChannelSends
    <3> QED
      BY <3>3, <3>5, Unmoved
  <2> QED
    BY <2>1, <2>2
<1>6. ASSUME NEW p \in air, Hear(p) PROVE EachOnce(d)'
  <2>1. CASE p.to # d
    BY <1>6, <2>1, HearOnce
  <2>2. CASE p.to = d
    <3>1. {q \in air' : q.to # d} = {q \in air : q.to # d} /\ told' = told /\ peer' = peer
      BY <1>6, <2>2 DEF Hear
    <3>2. heard'[Other(d)] = heard[Other(d)]
      BY <1>0, <1>6, <2>2 DEF Hear, PeersTyped
    <3> QED
      BY <3>1, <3>2, Unmoved
  <2> QED
    BY <2>1, <2>2
<1> QED
  BY <1>1, <1>2, <1>3, <1>4, <1>5, <1>6 DEF PeerNext

LEMMA OffersKept ==
    ASSUME PeersTyped, OffersRight, PeerNext
    PROVE  OffersRight'
<1>1. ASSUME NEW p \in air, Hear(p) PROVE OffersRight'
  <2>1. SocketsStay /\ peer' = peer
    BY <1>1 DEF Hear, SocketsStay
  <2>2. "initiator" \in Kinds /\ "answerer" \in Kinds /\ \A e \in Sides : Other(e) \in Sides
    BY TwoSides DEF Kinds
  <2> QED
    BY <2>1, <2>2, TravelsStay DEF OffersRight, OfferRight
<1> QED
  BY <1>1, TellOffers, DescribeOffers, SocketOffers, SignalledOffers, ChannelOffers DEF PeerNext

LEMMA PeersStart == PeerInit => PeersInv
<1> SUFFICES ASSUME PeerInit PROVE PeersInv
  OBVIOUS
<1>0. \A C : NewLine \in LinesOf(C) /\ Range(NewLine.pending) = {} /\ Range(NewLine.bw) = {} /\ Range(<<>>) = {}
  BY DEF NewLine, LinesOf, Range
<1>1. PeersTyped
  BY <1>0, NoConnIs DEF PeerInit, PeersTyped
<1>2. \A d \in Sides, k \in Kinds : ~ Travels(d, k)
  BY <1>0, TwoSides DEF PeerInit, Travels
<1>3. "initiator" \in Kinds /\ "answerer" \in Kinds /\ \A d \in Sides : Other(d) \in Sides
  BY TwoSides DEF Kinds
<1>4. ASSUME NEW d \in Sides PROVE OfferRight(d)
  BY <1>2, <1>3, NoConnIs DEF OfferRight, PeerInit
<1>5. ASSUME NEW d \in Sides PROVE EachOnce(d)
  <2>1. \A s \in Stores(d) : In(d, s) = <<>>
    BY <1>3, NoConnIs DEF Stores, In, PeerInit
  <2>2. \A s \in Stores(d) : Range(In(d, s)) = {} /\ DOMAIN In(d, s) = {}
    BY <1>0, <2>1
  <2>3. {<<d, n>> : n \in 1..told[d]} = {}
    BY DEF PeerInit
  <2> QED
    BY <2>2, <2>3 DEF EachOnce
<1> QED
  BY <1>1, <1>4, <1>5 DEF PeersInv

\* Nothing is stuck.
LEMMA PeersReach == PeersInv => CommandsReach
<1> SUFFICES ASSUME PeersInv, NEW d \in Sides, NEW k \in Kinds, peer[d][k].made, ~ peer[d][k].line.open
             PROVE  UnderWay(d, k)
  BY DEF CommandsReach, NoneStuck, PeersInv
<1>1. PICK f \in Sides : f = Other(d) /\ Other(f) = d
  BY TwoSides
<1>2. OfferRight(d) /\ OfferRight(f)
  BY DEF PeersInv
<1>3. CASE k = "initiator"
  BY <1>1, <1>2, <1>3 DEF OfferRight, UnderWay, Across
<1>4. CASE k = "answerer"
  BY <1>1, <1>2, <1>4 DEF OfferRight, UnderWay, Across
<1> QED
  BY <1>3, <1>4 DEF Kinds

\* What a client tells the other reaches it once, and no connection is stuck.
THEOREM CommandsAlwaysReach == PeerSpec => []CommandsReach
<1>1. PeersInv /\ [PeerNext]_peervars => PeersInv'
  <2> SUFFICES ASSUME PeersInv, [PeerNext]_peervars PROVE PeersInv'
    OBVIOUS
  <2>1. PeersTyped /\ OffersRight /\ \A d \in Sides : EachOnce(d)
    BY DEF PeersInv, OffersRight
  <2>2. CASE PeerNext
    BY <2>1, <2>2, TypesKept, OffersKept, OnceKept DEF PeersInv, OffersRight
  <2>3. CASE UNCHANGED peervars
    <3>1. PeersTyped'
      BY <2>1, <2>3 DEF PeersTyped, peervars
    <3>2. \A d \in Sides : OfferRight(d)'
      BY <2>1, <2>3 DEF OffersRight, OfferRight, Travels, peervars
    <3>3. ASSUME NEW d \in Sides PROVE EachOnce(d)'
      BY <2>1, <2>3, Unmoved DEF peervars
    <3> QED
      BY <3>1, <3>2, <3>3 DEF PeersInv
  <2> QED
    BY <2>2, <2>3
<1> QED
  BY <1>1, PeersStart, PeersReach, PTL DEF PeerSpec

-----------------------------------------------------------------------------
(* The mail (Smtp): what the server reads of what is written, character by *)
(* character, and what follows which answer.                               *)

Character == STRING \cup {Dot, Eol}
Text == Seq(Character)
Places == {"begin", "dot", "inside", "done", "over"}
Readers == [text : Text, at : Places]

LEMMA Chars == Dot \in Character /\ Eol \in Character
BY DEF Character

LEMMA ReadCharIs ==
    ASSUME NEW r \in Readers, NEW c \in Character
    PROVE  ReadChar(r, c) \in Readers
<1>1. Append(r.text, c) \in Text
  BY DEF Readers, Text
<1>2. (IF c = Eol THEN "begin" ELSE "inside") \in Places
  BY DEF Places
<1> QED
  BY <1>1, <1>2 DEF Readers, ReadChar, Places

LEMMA UnreadIs == Unread \in Readers
<1>1. <<>> \in Text
  BY DEF Text
<1> QED
  BY <1>1 DEF Unread, Readers, Places

\* What is read of s, up to each character.
ReadsBy(s, g) == g \in [0..Len(s) -> Readers] /\ g[0] = Unread /\ \A i \in 1..Len(s) : g[i] = ReadChar(g[i - 1], s[i])

LEMMA ReadContentIs ==
    ASSUME NEW s \in Text
    PROVE  \E g : ReadsBy(s, g) /\ ReadContent(s) = g[Len(s)]
<1>1. PICK n \in Nat : n = Len(s)
  BY DEF Text
<1>2. PICK m : m = [i \in 1..n |-> [r \in Readers |-> ReadChar(r, s[i])]]
  OBVIOUS
<1>3. m \in [1..n -> [Readers -> Readers]]
  <2>1. ASSUME NEW i \in 1..n, NEW r \in Readers PROVE ReadChar(r, s[i]) \in Readers
    <3>1. s[i] \in Character
      BY <1>1 DEF Text
    <3> QED
      BY <3>1, ReadCharIs
  <2> QED
    BY <2>1, <1>2
<1>4. PICK g : Run(n, Readers, Unread, m, g)
  <2>1. m \in Moves(n, Readers)
    BY <1>3 DEF Moves
  <2> QED
    BY <2>1, UnreadIs, Iterates
<1>5. g \in [0..n -> Readers] /\ g[0] = Unread /\ \A i \in 1..n : g[i] = ReadChar(g[i-1], s[i])
  BY <1>2, <1>4 DEF Run
<1> DEFINE f == CHOOSE f : f = [i \in 0..Len(s) |-> IF i = 0 THEN Unread ELSE ReadChar(f[i - 1], s[i])]
<1>6. ReadContent(s) = f[n]
  BY <1>1 DEF ReadContent
<1>7. f = [i \in 0..n |-> IF i = 0 THEN Unread ELSE ReadChar(f[i - 1], s[i])]
  <2>1. g = [i \in 0..n |-> IF i = 0 THEN Unread ELSE ReadChar(g[i - 1], s[i])]
    BY <1>5
  <2> QED
    BY <2>1, <1>1
<1> HIDE DEF f
<1>8. f[0] = Unread /\ \A i \in 1..n : f[i] = ReadChar(f[i - 1], s[i])
  BY <1>7
<1> DEFINE S == {i \in 0..n : f[i] \in Readers}
<1>9. 0..n \subseteq S
  <2>1. 0 \in S
    BY <1>8, UnreadIs
  <2>2. ASSUME NEW i \in 1..n, i - 1 \in S PROVE i \in S
    <3>1. s[i] \in Character /\ f[i - 1] \in Readers
      BY <1>1, <2>2 DEF Text
    <3> QED
      BY <3>1, <1>8, ReadCharIs
  <2> HIDE DEF S
  <2> QED
    BY <2>1, <2>2, UpTo
<1>10. f \in [0..n -> Readers]
  BY <1>7, <1>9
<1> QED
  BY <1>1, <1>6, <1>8, <1>10 DEF ReadsBy

\* Two readings agree as long as their texts do.
LEMMA SameReads ==
    ASSUME NEW s \in Text, NEW t \in Text, NEW g, ReadsBy(s, g), NEW h, ReadsBy(t, h),
           Len(s) <= Len(t), \A i \in 1..Len(s) : t[i] = s[i]
    PROVE  h[Len(s)] = g[Len(s)]
<1>1. PICK n \in Nat, k \in Nat : n = Len(s) /\ k = Len(t) /\ n <= k
  BY DEF Text
<1> DEFINE S == {i \in 0..n : g[i] = h[i]}
<1>2. 0 \in S
  BY DEF ReadsBy
<1>3. ASSUME NEW i \in 1..n, i - 1 \in S PROVE i \in S
  <2>1. i \in 1..k
    BY <1>1
  <2> QED
    BY <1>1, <1>3, <2>1 DEF ReadsBy
<1>4. 0..n \subseteq S
  <2> HIDE DEF S
  <2> QED
    BY <1>2, <1>3, UpTo
<1> QED
  BY <1>1, <1>4

LEMMA ReadOne ==
    ASSUME NEW s \in Text, NEW c \in Character
    PROVE  /\ Append(s, c) \in Text /\ ReadContent(s) \in Readers
           /\ ReadContent(Append(s, c)) = ReadChar(ReadContent(s), c)
<1>1. PICK n \in Nat : n = Len(s)
  BY DEF Text
<1>2. PICK t : t = Append(s, c)
  OBVIOUS
<1>3. t \in Text /\ Len(t) = n + 1 /\ t[n + 1] = c /\ \A i \in 1..n : t[i] = s[i]
  BY <1>1, <1>2 DEF Text
<1>4. PICK g : ReadsBy(s, g) /\ ReadContent(s) = g[n]
  BY <1>1, ReadContentIs
<1>5. PICK h : ReadsBy(t, h) /\ ReadContent(t) = h[n + 1]
  BY <1>3, ReadContentIs
<1>6. h[n] = g[n]
  BY <1>1, <1>3, <1>4, <1>5, SameReads
<1>7. h[n + 1] = ReadChar(h[n], c)
  BY <1>3, <1>5 DEF ReadsBy
<1>8. g[n] \in Readers
  BY <1>1, <1>4 DEF ReadsBy
<1> QED
  BY <1>2, <1>3, <1>4, <1>5, <1>6, <1>7, <1>8

LEMMA ReadNothing == ReadContent(<<>>) = Unread
<1>1. <<>> \in Text /\ Len(<<>>) = 0
  BY DEF Text
<1>2. PICK g : ReadsBy(<<>>, g) /\ ReadContent(<<>>) = g[0]
  BY <1>1, ReadContentIs
<1> QED
  BY <1>2 DEF ReadsBy

\* What is written of a mail, up to each character.
WrittenBy(s, f) == f \in [0..Len(s) -> Text] /\ f[0] = <<>> /\ \A i \in 1..Len(s) : f[i] = f[i - 1] \o Stuffed(s, i)

LEMMA StuffedIs == ASSUME NEW s \in Text, NEW i \in 1..Len(s)
                   PROVE  Stuffed(s, i) \in Text /\ s[i] \in Character /\ Dot \in Character
<1>1. s[i] \in Character /\ Dot \in Character
  BY Chars DEF Text
<1>2. <<s[i]>> \in Text /\ <<Dot, s[i]>> \in Text
  BY <1>1 DEF Text
<1> QED
  BY <1>1, <1>2 DEF Stuffed

LEMMA ContentIs ==
    ASSUME NEW s \in Text
    PROVE  \E f : WrittenBy(s, f) /\ Content(s) = f[Len(s)] \o <<Eol, Dot, Eol>>
<1>1. PICK n \in Nat : n = Len(s)
  BY DEF Text
<1>2. PICK m : m = [i \in 1..n |-> [t \in Text |-> t \o Stuffed(s, i)]]
  OBVIOUS
<1>0. ASSUME NEW i \in 1..n, NEW t \in Text PROVE t \o Stuffed(s, i) \in Text
  BY <1>1, StuffedIs DEF Text
<1>3. m \in [1..n -> [Text -> Text]]
  BY <1>0, <1>2
<1>4. PICK g : Run(n, Text, <<>>, m, g)
  <2>1. m \in Moves(n, Text)
    BY <1>3 DEF Moves
  <2>2. <<>> \in Text
    BY DEF Text
  <2> QED
    BY <2>1, <2>2, Iterates
<1>5. g \in [0..n -> Text] /\ g[0] = <<>> /\ \A i \in 1..n : g[i] = g[i-1] \o Stuffed(s, i)
  <2>1. g \in [0..n -> Text] /\ g[0] = <<>> /\ \A i \in 1..n : g[i] = m[i][g[i-1]]
    BY <1>4, Zenon DEF Run
  <2>2. ASSUME NEW i \in 1..n PROVE g[i] = g[i-1] \o Stuffed(s, i)
    <3>1. PICK t \in Text : t = g[i-1]
      BY <2>1
    <3>2. m[i][t] = t \o Stuffed(s, i)
      BY <1>2, Zenon
    <3>3. g[i] = m[i][t]
      BY <2>1, <3>1
    <3> QED
      BY <3>1, <3>2, <3>3
  <2> QED
    BY <2>1, <2>2
<1> DEFINE f == CHOOSE f : f = [i \in 0..Len(s) |-> IF i = 0 THEN <<>> ELSE f[i - 1] \o Stuffed(s, i)]
<1>6. Content(s) = f[n] \o <<Eol, Dot, Eol>>
  BY <1>1 DEF Content
<1>7. f = [i \in 0..n |-> IF i = 0 THEN <<>> ELSE f[i - 1] \o Stuffed(s, i)]
  <2>1. g = [i \in 0..n |-> IF i = 0 THEN <<>> ELSE g[i - 1] \o Stuffed(s, i)]
    BY <1>5
  <2> QED
    BY <2>1, <1>1
<1> HIDE DEF f
<1>8. f[0] = <<>> /\ \A i \in 1..n : f[i] = f[i - 1] \o Stuffed(s, i)
  <2>1. PICK F : F = [i \in 0..n |-> IF i = 0 THEN <<>> ELSE f[i - 1] \o Stuffed(s, i)]
    OBVIOUS
  <2>2. F[0] = <<>>
    BY <2>1
  <2>3. ASSUME NEW i \in 1..n PROVE F[i] = f[i - 1] \o Stuffed(s, i)
    <3>1. i \in 0..n /\ i # 0
      OBVIOUS
    <3> QED
      BY <2>1, <3>1, Zenon
  <2>4. f = F
    BY <1>7, <2>1, Zenon
  <2> QED
    BY <2>2, <2>3, <2>4, Zenon
<1> DEFINE S == {i \in 0..n : f[i] \in Text}
<1>9. 0..n \subseteq S
  <2>1. 0 \in S
    <3>1. f[0] \in Text
      BY <1>8 DEF Text
    <3> QED
      BY <3>1
  <2>2. ASSUME NEW i \in 1..n, i - 1 \in S PROVE i \in S
    <3>1. PICK t \in Text : t = f[i - 1]
      BY <2>2
    <3>2. f[i] = t \o Stuffed(s, i)
      BY <1>8, <3>1
    <3>3. f[i] \in Text
      BY <1>0, <3>2
    <3> QED
      BY <3>3
  <2> HIDE DEF S
  <2> QED
    BY <2>1, <2>2, UpTo
<1>10. f \in [0..n -> Text]
  BY <1>7, <1>9
<1> QED
  BY <1>1, <1>6, <1>8, <1>10 DEF WrittenBy

\* The beginning of a text, and what is read of it.
LEMMA Beginnings ==
    ASSUME NEW s \in Text, NEW i \in 1..Len(s)
    PROVE  SubSeq(s, 1, i - 1) \in Text /\ SubSeq(s, 1, i) = Append(SubSeq(s, 1, i - 1), s[i])
<1>1. PICK n \in Nat : n = Len(s) /\ i <= n
  BY DEF Text
<1>2. PICK t, u : t = SubSeq(s, 1, i - 1) /\ u = SubSeq(s, 1, i)
  OBVIOUS
<1>3. /\ t \in Text /\ Len(t) = i - 1 /\ \A j \in 1..i - 1 : t[j] = s[j]
      /\ u \in Text /\ Len(u) = i /\ \A j \in 1..i : u[j] = s[j]
  BY <1>1, <1>2 DEF Text
<1>4. s[i] \in Character
  BY DEF Text
<1>5. PICK v : v = Append(t, s[i])
  OBVIOUS
<1>6. v \in Text /\ Len(v) = i /\ v[i] = s[i] /\ \A j \in 1..i - 1 : v[j] = s[j]
  BY <1>3, <1>4, <1>5 DEF Text
<1>7. \A j \in 1..i : j \in 1..i - 1 \/ j = i
  OBVIOUS
<1>8. u = v
  BY <1>3, <1>6, <1>7 DEF Text
<1> QED
  BY <1>2, <1>3, <1>5, <1>8

LineAt(s, i) == IF i = 0 THEN "begin" ELSE IF s[i] = Eol THEN "begin" ELSE "inside"
BegunAs(s, i) == [text |-> SubSeq(s, 1, i), at |-> LineAt(s, i)]

LEMMA ReadCharCases ==
    ASSUME NEW t, NEW a \in {"begin", "dot", "inside"}, NEW c
    PROVE  /\ a = "begin" /\ c = Dot => ReadChar([text |-> t, at |-> a], c) = [text |-> t, at |-> "dot"]
           /\ a = "dot" /\ c = Eol => ReadChar([text |-> t, at |-> a], c) = [text |-> t, at |-> "done"]
           /\ ~ (a = "begin" /\ c = Dot) /\ ~ (a = "dot" /\ c = Eol) =>
                ReadChar([text |-> t, at |-> a], c)
                  = [text |-> Append(t, c), at |-> IF c = Eol THEN "begin" ELSE "inside"]
BY DEF ReadChar

LEMMA ReadsStuffed ==
    ASSUME NEW s \in Text, NEW i \in 1..Len(s), NEW u \in Text, ReadContent(u) = BegunAs(s, i - 1)
    PROVE  ReadContent(u \o Stuffed(s, i)) = BegunAs(s, i)
<1>1. PICK c \in Character : c = s[i]
  BY DEF Text
<1>2. PICK R : R = BegunAs(s, i - 1)
  OBVIOUS
<1>3. /\ ReadContent(u) = R /\ R.text = SubSeq(s, 1, i - 1) /\ R.at \in {"begin", "inside"}
      /\ R = [text |-> R.text, at |-> R.at]
  BY <1>2 DEF BegunAs, LineAt
<1>0. R.at \in {"begin", "dot", "inside"} /\ R = [text |-> R.text, at |-> R.at]
  BY <1>3
<1>4. SubSeq(s, 1, i) = Append(R.text, c) /\ R.text \in Text
  BY <1>1, <1>3, Beginnings
<1>5. Dot # Eol
  BY DEF Dot, Eol
<1>6. LineDot(s, i) <=> c = Dot /\ R.at = "begin"
  <2>1. R.at = LineAt(s, i - 1)
    BY <1>2 DEF BegunAs
  <2>2. CASE i = 1
    BY <1>1, <2>1, <2>2 DEF LineDot, LineAt
  <2>3. CASE i # 1
    <3>1. LineDot(s, i) <=> c = Dot /\ s[i - 1] = Eol
      BY <1>1, <2>3 DEF LineDot
    <3>2. i - 1 # 0
      BY <2>3
    <3>3. R.at = "begin" <=> s[i - 1] = Eol
      BY <2>1, <3>2 DEF LineAt
    <3> QED
      BY <3>1, <3>3
  <2> QED
    BY <2>2, <2>3
<1>7. CASE LineDot(s, i)
  <2>1. PICK v : v = Append(u, Dot)
    OBVIOUS
  <2>2. v \in Text /\ ReadContent(v) = ReadChar(R, Dot)
    BY <1>3, <2>1, Chars, ReadOne
  <2>3. PICK w : w = Append(v, Dot)
    OBVIOUS
  <2>4. w \in Text /\ ReadContent(w) = ReadChar(ReadContent(v), Dot)
    BY <2>2, <2>3, Chars, ReadOne
  <2>5. u \o Stuffed(s, i) = w
    <3>1. Stuffed(s, i) = <<Dot, Dot>>
      BY <1>1, <1>6, <1>7 DEF Stuffed
    <3>2. u \o <<Dot, Dot>> = Append(Append(u, Dot), Dot)
      BY Chars DEF Text
    <3> QED
      BY <2>1, <2>3, <3>1, <3>2
  <2>6. ReadChar(R, Dot) = [text |-> R.text, at |-> "dot"]
    <3>1. /\ R.at = "begin" /\ Dot = Dot =>
                ReadChar([text |-> R.text, at |-> R.at], Dot) = [text |-> R.text, at |-> "dot"]
      BY ONLY <1>0, ReadCharCases
    <3> QED
      BY <1>0, <1>6, <1>7, <3>1
  <2>7. ReadChar([text |-> R.text, at |-> "dot"], Dot)
          = [text |-> Append(R.text, Dot), at |-> "inside"]
    BY <1>5, ReadCharCases
  <2>8. LineAt(s, i) = "inside"
    BY <1>1, <1>5, <1>6, <1>7 DEF LineAt
  <2> QED
    BY <1>4, <1>6, <1>7, <2>2, <2>4, <2>5, <2>6, <2>7, <2>8 DEF BegunAs
<1>8. CASE ~ LineDot(s, i)
  <2>1. PICK v : v = Append(u, c)
    OBVIOUS
  <2>2. v \in Text /\ ReadContent(v) = ReadChar(R, c)
    BY <1>3, <2>1, ReadOne
  <2>3. u \o Stuffed(s, i) = v
    <3>1. Stuffed(s, i) = <<c>>
      BY <1>1, <1>8 DEF Stuffed
    <3>2. u \o <<c>> = Append(u, c)
      BY DEF Text
    <3> QED
      BY <2>1, <3>1, <3>2
  <2>4. ReadChar(R, c) = [text |-> Append(R.text, c), at |-> IF c = Eol THEN "begin" ELSE "inside"]
    <3>1. ~ (R.at = "begin" /\ c = Dot) /\ ~ (R.at = "dot" /\ c = Eol) =>
            ReadChar([text |-> R.text, at |-> R.at], c)
              = [text |-> Append(R.text, c), at |-> IF c = Eol THEN "begin" ELSE "inside"]
      BY ONLY <1>0, ReadCharCases
    <3>2. R.at # "dot"
      BY <1>3
    <3> QED
      BY <1>0, <1>6, <1>8, <3>1, <3>2
  <2>5. LineAt(s, i) = IF c = Eol THEN "begin" ELSE "inside"
    BY <1>1 DEF LineAt
  <2> QED
    BY <1>4, <2>2, <2>3, <2>4, <2>5 DEF BegunAs
<1> QED
  BY <1>7, <1>8

\* The mail is read as it is.
MailRead(s) == [text |-> Append(s, Eol), at |-> "done"]
LEMMA MailIsRead ==
    ASSUME NEW s \in Text
    PROVE  ReadContent(Content(s)) = MailRead(s)
<1>1. PICK n \in Nat : n = Len(s)
  BY DEF Text
<1>2. PICK f : WrittenBy(s, f) /\ Content(s) = f[n] \o <<Eol, Dot, Eol>>
  BY <1>1, ContentIs
<1>3. f \in [0..n -> Text] /\ f[0] = <<>> /\ \A i \in 1..n : f[i] = f[i - 1] \o Stuffed(s, i)
  BY <1>1, <1>2, Zenon DEF WrittenBy
<1> DEFINE S == {i \in 0..n : ReadContent(f[i]) = BegunAs(s, i)}
<1>4. 0 \in S
  <2>1. SubSeq(s, 1, 0) = <<>>
    BY DEF Text
  <2> QED
    <3>1. BegunAs(s, 0) = Unread
      BY <2>1 DEF BegunAs, LineAt, Unread
    <3>2. ReadContent(f[0]) = Unread
      BY <1>3, ReadNothing, Zenon
    <3> QED
      BY <3>1, <3>2
<1>5. ASSUME NEW i \in 1..n, i - 1 \in S PROVE i \in S
  <2>1. PICK u \in Text : u = f[i - 1]
    BY <1>3
  <2>2. ReadContent(u) = BegunAs(s, i - 1) /\ f[i] = u \o Stuffed(s, i)
    BY <1>3, <1>5, <2>1
  <2>3. ReadContent(f[i]) = BegunAs(s, i)
    BY <1>1, <2>2, ReadsStuffed
  <2> QED
    BY <2>3
<1>6. 0..n \subseteq S
  <2> HIDE DEF S
  <2> QED
    BY <1>4, <1>5, UpTo
<1>7. PICK u \in Text : u = f[n]
  BY <1>3
<1>8. ReadContent(u) = BegunAs(s, n)
  BY <1>6, <1>7
<1>9. SubSeq(s, 1, n) = s
  BY <1>1 DEF Text
<1>10. PICK a \in {"begin", "inside"} : ReadContent(u) = [text |-> s, at |-> a]
  BY <1>8, <1>9 DEF BegunAs, LineAt
<1>11. PICK v, w, x : v = Append(u, Eol) /\ w = Append(v, Dot) /\ x = Append(w, Eol)
  OBVIOUS
<1>12. v \in Text /\ ReadContent(v) = ReadChar(ReadContent(u), Eol)
  BY <1>11, Chars, ReadOne
<1>13. w \in Text /\ ReadContent(w) = ReadChar(ReadContent(v), Dot)
  BY <1>11, <1>12, Chars, ReadOne
<1>14. x \in Text /\ ReadContent(x) = ReadChar(ReadContent(w), Eol)
  BY <1>11, <1>13, Chars, ReadOne
<1>15. Content(s) = x
  <2>1. u \o <<Eol, Dot, Eol>> = Append(Append(Append(u, Eol), Dot), Eol)
    BY Chars DEF Text
  <2> QED
    BY <1>2, <1>7, <1>11, <2>1
<1>16. Dot # Eol
  BY DEF Dot, Eol
<1>17. ReadContent(v) = [text |-> Append(s, Eol), at |-> "begin"]
  <2>1. a \in {"begin", "dot", "inside"} /\ a # "dot"
    OBVIOUS
  <2>2. ~ (a = "begin" /\ Eol = Dot) /\ ~ (a = "dot" /\ Eol = Eol) =>
          ReadChar([text |-> s, at |-> a], Eol) = [text |-> Append(s, Eol), at |-> IF Eol = Eol THEN "begin" ELSE "inside"]
    BY ONLY <2>1, ReadCharCases
  <2> QED
    BY <1>10, <1>12, <1>16, <2>1, <2>2
<1>18. ReadContent(w) = [text |-> Append(s, Eol), at |-> "dot"]
  BY <1>13, <1>17, ReadCharCases
<1>19. ReadContent(x) = MailRead(s)
  BY <1>14, <1>18, ReadCharCases DEF MailRead
<1> QED
  BY <1>15, <1>19

-----------------------------------------------------------------------------
\* The answers: the step that is waited for follows from what was said, and while
\* no answer was cut nothing follows a failure.
SmtpTypes ==
    /\ mail \in [text : Mails, step : 1..9, said : Seq(1..9), status : Seq(1..9)]
    /\ server = [owes |-> server.owes, tail |-> server.tail, split |-> server.split,
                 refused |-> server.refused, read |-> server.read]
    /\ server.owes \in BOOLEAN /\ server.split \in BOOLEAN /\ server.refused \in BOOLEAN
SaidRight ==
    /\ mail.step = IF Said >= 8 THEN 9 ELSE Said + 1
    /\ \A i \in 1..Said : mail.said[i] = IF i <= 8 THEN i ELSE 9
ReadRight == server.read # Unread => server.read = MailRead(mail.text)
StatusRight ==
    ~ server.split =>
      /\ server.tail = {} /\ Len(mail.status) <= 1
      /\ server.owes => mail.status = <<>>
      /\ ~ Quit => (mail.status # <<>> <=> server.refused)
SmtpInv == SmtpTypes /\ SaidRight /\ ReadRight /\ StatusRight

LEMMA SmtpStarts == SmtpInit => SmtpInv
<1> SUFFICES ASSUME SmtpInit PROVE SmtpInv
  OBVIOUS
<1>1. PICK text \in Mails : mail = [text |-> text, step |-> 1, said |-> <<>>, status |-> <<>>]
  BY DEF SmtpInit
<1>2. <<>> \in Seq(1..9) /\ Len(<<>>) = 0
  OBVIOUS
<1> QED
  BY <1>1, <1>2 DEF SmtpInit, SmtpInv, SmtpTypes, SaidRight, ReadRight, StatusRight, Said, Quit

\* Both outcomes of a packet.
Failed(m) == mail' = [m EXCEPT !.status = Append(@, m.step)]
LEMMA PacketDoes ==
    ASSUME SmtpInv, NEW code, Packet(code)
    PROVE  /\ mail' \in [text : Mails, step : 1..9, said : Seq(1..9), status : Seq(1..9)]
           /\ SaidRight' /\ mail'.text = mail.text
           /\ code # Codes[mail.step] =>
                mail'.said = mail.said /\ mail'.status = Append(mail.status, mail.step) /\ (Quit' <=> Quit)
           /\ code = Codes[mail.step] =>
                mail'.said # mail.said /\ mail'.status = mail.status /\ (Quit => Quit')
<1>1. PICK k \in Nat, p \in 1..9, q \in Seq(1..9), r \in Seq(1..9) :
         k = Len(q) /\ p = mail.step /\ q = mail.said /\ r = mail.status
  BY DEF SmtpInv, SmtpTypes
<1>2. /\ mail \in [text : Mails, step : 1..9, said : Seq(1..9), status : Seq(1..9)]
      /\ p = (IF k >= 8 THEN 9 ELSE k + 1) /\ \A i \in 1..k : q[i] = IF i <= 8 THEN i ELSE 9
  BY <1>1 DEF SmtpInv, SmtpTypes, SaidRight, Said
<1>3. Quit <=> k >= 9
  BY <1>1, <1>2 DEF Quit, Said, LastStep, Codes
<1>4. CASE code # Codes[p]
  <2>1. mail' = [mail EXCEPT !.status = Append(r, p)]
    BY <1>1, <1>4 DEF Packet, Fails, GoesOn
  <2>2. Append(r, p) \in Seq(1..9)
    BY <1>1
  <2>3. /\ mail' \in [text : Mails, step : 1..9, said : Seq(1..9), status : Seq(1..9)]
        /\ mail'.said = q /\ mail'.step = p /\ mail'.status = Append(r, p) /\ mail'.text = mail.text
    BY <1>1, <1>2, <2>1, <2>2
  <2>4. SaidRight' /\ (Quit' <=> Quit)
    BY <1>1, <1>2, <1>3, <2>3 DEF SaidRight, Said, Quit
  <2> QED
    BY <1>1, <1>4, <2>3, <2>4
<1>5. CASE code = Codes[p]
  <2>1. PICK t, z : t = Append(q, p) /\ z = IF p = 9 THEN p ELSE p + 1
    OBVIOUS
  <2>2. mail' = [mail EXCEPT !.said = t, !.step = z]
    BY <1>1, <1>5, <2>1 DEF Packet, Fails, GoesOn, LastStep, Codes
  <2>3. t \in Seq(1..9) /\ Len(t) = k + 1 /\ t[k + 1] = p /\ (\A i \in 1..k : t[i] = q[i]) /\ t # q /\ z \in 1..9
    BY <1>1, <2>1
  <2>4. /\ mail' \in [text : Mails, step : 1..9, said : Seq(1..9), status : Seq(1..9)]
        /\ mail'.said = t /\ mail'.step = z /\ mail'.status = r /\ mail'.text = mail.text
    BY <1>1, <1>2, <2>2, <2>3
  <2>5. z = (IF k + 1 >= 8 THEN 9 ELSE k + 2)
    BY <1>2, <2>1
  <2>6. \A i \in 1..k + 1 : t[i] = IF i <= 8 THEN i ELSE 9
    <3>1. \A i \in 1..k + 1 : i \in 1..k \/ i = k + 1
      OBVIOUS
    <3>2. p = IF k + 1 <= 8 THEN k + 1 ELSE 9
      BY <1>2
    <3> QED
      BY <1>2, <2>3, <3>1, <3>2
  <2>7. SaidRight'
    <3>1. Said' = k + 1
      BY <2>3, <2>4 DEF Said
    <3> QED
      BY <2>4, <2>5, <2>6, <3>1 DEF SaidRight
  <2>8. Quit => Quit'
    <3>1. Said' = k + 1
      BY <2>3, <2>4 DEF Said
    <3>2. ASSUME k >= 9 PROVE t[k + 1] = 9
      BY <1>2, <2>3, <3>2
    <3> QED
      BY <1>3, <2>4, <3>1, <3>2 DEF Quit, LastStep, Codes
  <2> QED
    BY <1>1, <1>5, <2>3, <2>4, <2>7, <2>8
<1> QED
  BY <1>1, <1>4, <1>5

LEMMA RestKeeps == ASSUME SmtpInv, Rest PROVE SmtpInv'
<1>1. PICK code \in server.tail : Packet(code)
  BY DEF Rest
<1>2. server' = [server EXCEPT !.tail = {}] /\ server.split
  BY <1>1 DEF Rest, SmtpInv, StatusRight, SmtpTypes
<1>3. /\ server' = [owes |-> server'.owes, tail |-> server'.tail, split |-> server'.split,
                    refused |-> server'.refused, read |-> server'.read]
      /\ server'.split /\ server'.read = server.read /\ server'.owes \in BOOLEAN /\ server'.refused \in BOOLEAN /\ server'.split \in BOOLEAN
  BY <1>2 DEF SmtpInv, SmtpTypes
<1> QED
  BY <1>1, <1>3, PacketDoes DEF SmtpInv, SmtpTypes, ReadRight, StatusRight

LEMMA AnswersKeep == ASSUME SmtpInv, NEW code \in Replies, Answers(code) PROVE SmtpInv'
<1>1. PICK c, tail : Packet(c) /\ Serves(code, tail) /\ (tail = {} => c = code)
  BY DEF Answers
<1>2. /\ server' = [owes |-> server'.owes, tail |-> server'.tail, split |-> server'.split,
                    refused |-> server'.refused, read |-> server'.read]
      /\ server'.owes = (mail'.said # mail.said) /\ server'.tail = tail
      /\ server'.split = (server.split \/ tail # {})
      /\ server'.refused = (server.refused \/ code # Codes[mail.step])
      /\ server'.read = IF mail'.said # mail.said THEN Reads(mail.step) ELSE server.read
  BY <1>1 DEF Serves
<1>3. /\ mail' \in [text : Mails, step : 1..9, said : Seq(1..9), status : Seq(1..9)]
      /\ SaidRight' /\ mail'.text = mail.text
      /\ c # Codes[mail.step] =>
           mail'.said = mail.said /\ mail'.status = Append(mail.status, mail.step) /\ (Quit' <=> Quit)
      /\ c = Codes[mail.step] =>
           mail'.said # mail.said /\ mail'.status = mail.status /\ (Quit => Quit')
  BY <1>1, PacketDoes
<1>4. SmtpTypes'
  BY <1>2, <1>3 DEF SmtpTypes
<1>5. ReadRight'
  <2>1. mail.text \in Text
    <3>1. mail.text \in Seq(STRING)
      BY MailsAssumption DEF SmtpInv, SmtpTypes
    <3> QED
      BY <3>1 DEF Text, Character
  <2>2. ReadContent(Content(mail.text)) = MailRead(mail.text)
    BY <2>1, MailIsRead
  <2> QED
    BY <1>2, <1>3, <2>2 DEF SmtpInv, ReadRight, Reads
<1>6. StatusRight'
  <2> SUFFICES ASSUME ~ server'.split PROVE StatusRight'
    BY DEF StatusRight
  <2>1. ~ server.split /\ tail = {} /\ c = code /\ server'.tail = {}
    BY <1>1, <1>2
  <2>7. server'.refused <=> server.refused \/ code # Codes[mail.step]
    BY <1>2, Zenon
  <2>2. /\ mail.status = <<>> /\ (~ Quit => ~ server.refused)
    BY <2>1 DEF StatusRight, SmtpInv, Answers
  <2>3. PICK t : t = Append(<<>>, mail.step)
    OBVIOUS
  <2>4. Len(t) = 1 /\ t # <<>>
    BY <2>3 DEF SmtpInv, SmtpTypes
  <2>5. CASE c # Codes[mail.step]
    <3>1. mail'.status = t /\ server'.refused /\ (Quit' <=> Quit) /\ mail'.said = mail.said
      BY <1>3, <2>1, <2>2, <2>3, <2>5, <2>7
    <3>2. ~ server'.owes
      <4>1. server'.owes <=> mail'.said # mail.said
        BY <1>2, Zenon
      <4> QED
        BY <3>1, <4>1
    <3> QED
      <4>1. Len(mail'.status) <= 1 /\ mail'.status # <<>>
        <5>1. Len(t) <= 1
          BY <2>4
        <5> QED
          BY <2>4, <3>1, <5>1, Zenon
      <4> QED
        BY <2>1, <4>1, <3>1, <3>2, Zenon DEF StatusRight
  <2>6. CASE c = Codes[mail.step]
    <3>1. mail'.status = <<>> /\ server'.tail = {}
      BY <1>3, <2>1, <2>2, <2>6
    <3>2. ~ Quit' => ~ server'.refused
      BY <1>3, <2>1, <2>2, <2>6, <2>7
    <3>3. Len(mail'.status) <= 1
      BY <3>1
    <3> QED
      BY <3>1, <3>2, <3>3 DEF StatusRight
  <2> QED
    BY <2>5, <2>6
<1> QED
  BY <1>3, <1>4, <1>5, <1>6 DEF SmtpInv

\* The mail is sent in order, read as it is, and cb is called as it should.
LEMMA MailIsRight == SmtpInv => MailRight
<1> SUFFICES ASSUME SmtpInv PROVE MailRight
  OBVIOUS
<1>1. \A i \in DOMAIN mail.said : i < LastStep => mail.said[i] = i
  BY DEF SmtpInv, SmtpTypes, SaidRight, Said, LastStep, Codes
<1> QED
  BY <1>1 DEF MailRight, SmtpInv, ReadRight, StatusRight, MailRead

\* A mail is sent after every answer that must come before it, and read as it is,
\* whatever lines of dots it has; cb is called once, with a failure when there is
\* one, as long as each answer is one packet: Smtp.cpp, for all texts.
THEOREM MailsAreRight == SmtpSpec => []MailRight
<1>1. SmtpInv /\ [SmtpNext]_mailvars => SmtpInv'
  <2> SUFFICES ASSUME SmtpInv, [SmtpNext]_mailvars PROVE SmtpInv'
    OBVIOUS
  <2>1. CASE SmtpNext
    BY <2>1, RestKeeps, AnswersKeep DEF SmtpNext
  <2>2. CASE UNCHANGED mailvars
    BY <2>2 DEF mailvars, SmtpInv, SmtpTypes, SaidRight, ReadRight, StatusRight, Said, Quit
  <2> QED
    BY <2>1, <2>2
<1> QED
  BY <1>1, SmtpStarts, MailIsRight, PTL DEF SmtpSpec
=============================================================================
