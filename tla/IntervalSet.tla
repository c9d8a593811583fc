---------------------------- MODULE IntervalSet ----------------------------
(***************************************************************************)
(* IntervalSet and SetOfPatchId (RB/cpp/RiotBase/System): sets of patch    *)
(* numbers kept as disjoint intervals, for every device.                   *)
(*                                                                         *)
(* An IntervalSet is a std::set of intervals in the order of their min; a  *)
(* device that is not in the std::map of a SetOfPatchId has no interval.   *)
(* Numbers stay below the largest one of their type: next to it, max + 1   *)
(* is 0.                                                                   *)
(***************************************************************************)
EXTENDS Integers

CONSTANTS Sets, Devices, Numbers

\* Consecutive numbers.
ASSUME NumbersAssumption == Numbers \subseteq Nat /\ \A m, n \in Numbers : m .. n \subseteq Numbers

VARIABLE data    \* data[s][d]: the intervals of the set s for the device d

Interval(lo, hi) == [min |-> lo, max |-> hi]
Members(D) == UNION {i.min .. i.max : i \in D}

\* upper_bound( v ), if there is one, and the interval before it.
Above(D, v) == {i \in D : i.min > v /\ \A j \in D : j.min > v => i.min <= j.min}
Below(D, v) == {i \in D : i.min <= v /\ \A j \in D : j.min <= v => j.min <= i.min}
The(S) == CHOOSE i \in S : TRUE
LastOf(S) == CHOOSE i \in S : \A j \in S : j.min <= i.min
Largest(x, y) == IF x > y THEN x ELSE y

Holds(D, v) == \E i \in Below(D, v) : v <= i.max

\* The interval that touches v on each side, if any, becomes one with it.
InsertValueBeside(D, v) ==   \* mutant: an interval that begins right after v stays apart
  LET left == {i \in Below(D, v) : v = i.max + 1}
  IN IF Holds(D, v) THEN D
     ELSE (D \ left) \cup {Interval(IF left = {} THEN v ELSE The(left).min, v)}
InsertValue(D, v) ==
  LET left == {i \in Below(D, v) : v = i.max + 1}
      right == {i \in Above(D, v) : v + 1 = i.min}
  IN IF Holds(D, v) THEN D
     ELSE (D \ (left \cup right))
          \cup {Interval(IF left = {} THEN v ELSE The(left).min,
                         IF right = {} THEN v ELSE The(right).max)}

\* The interval that is extended: the one before, if it touches, or the one
\* after.  Those that the new one reaches are erased.
InsertRange(D, lo, hi) ==
  LET before == {i \in Below(D, lo) : lo <= i.max + 1}
      after == IF before = {} THEN {i \in Above(D, lo) : i.min <= hi + 1} ELSE {}
      base == before \cup after
      reached == base \cup {i \in D : i.min > The(base).min /\ i.min <= hi + 1}
  IN IF base = {} THEN D \cup {Interval(lo, hi)}
     ELSE (D \ reached) \cup {Interval(IF before = {} THEN lo ELSE The(before).min,
                                       Largest(LastOf(reached).max, hi))}

RemoveValue(D, v) ==
  LET i == The(Below(D, v))
  IN IF ~ Holds(D, v) THEN D
     ELSE (D \ {i}) \cup (IF i.min = v THEN {} ELSE {Interval(i.min, v - 1)})
                    \cup (IF i.max = v THEN {} ELSE {Interval(v + 1, i.max)})

\* What is kept of the interval where the range begins, of the one where it
\* ends; those between are erased.
RemoveRangeToEnd(D, lo, hi) ==   \* mutant: a range inside an interval removes its end too
  LET first == {i \in Below(D, lo) : lo > i.min}
      cut == {Interval(i.min, lo - 1) : i \in {j \in first : lo <= j.max}}
      kept == {i \in first : lo > i.max}
      from == IF first = {} THEN (Below(D, lo) \cup {i \in D : i.min > lo}) ELSE {i \in D : i.min > lo}
      erased == {i \in from : i.max <= hi}
      reduced == {i \in from : i.max > hi /\ i.min <= hi}
  IN (D \ (first \cup erased \cup reduced)) \cup cut \cup kept
     \cup {Interval(hi + 1, i.max) : i \in reduced}
RemoveRange(D, lo, hi) ==
  LET first == {i \in Below(D, lo) : lo > i.min}
      cut == {Interval(i.min, lo - 1) : i \in {j \in first : lo <= j.max}}
      kept == {i \in first : lo > i.max}
      inside == \E i \in first : hi < i.max
      from == IF first = {} THEN (Below(D, lo) \cup {i \in D : i.min > lo}) ELSE {i \in D : i.min > lo}
      erased == {i \in from : i.max <= hi}
      reduced == {i \in from : i.max > hi /\ i.min <= hi}
  IN IF inside THEN (D \ first) \cup cut \cup {Interval(hi + 1, The(first).max)}
     ELSE (D \ (first \cup erased \cup reduced)) \cup cut \cup kept
          \cup {Interval(hi + 1, i.max) : i \in reduced}

\* get_and_rem_val takes the first number.
FirstOf(D) == {i \in D : \A j \in D : i.min <= j.min}
WithoutFirst(D) ==
  LET i == The(FirstOf(D))
  IN (D \ {i}) \cup (IF i.min = i.max THEN {} ELSE {Interval(i.min + 1, i.max)})

-----------------------------------------------------------------------------
IntervalInit == data = [s \in Sets |-> [d \in Devices |-> {}]]

PutIn(s, d, D) == data' = [data EXCEPT ![s][d] = D]

\* The interval of one device: insert, remove, get_and_rem_val.
Change(s, d) == \E lo, hi \in Numbers :
                   /\ lo <= hi
                   /\ \/ PutIn(s, d, InsertRange(data[s][d], lo, hi))
                      \/ PutIn(s, d, RemoveRange(data[s][d], lo, hi))
Pop(s, d) == /\ data[s][d] # {}
             /\ PutIn(s, d, WithoutFirst(data[s][d]))

\* SetOfPatchId: += and -= of one patch, of a set.
AddPatch(s, d, n) == PutIn(s, d, InsertValue(data[s][d], n))
RemovePatch(s, d, n) == PutIn(s, d, RemoveValue(data[s][d], n))

\* The intervals of the other set one after the other, in the order of their min.
At(E, v) == {i \in E : i.min = v}
End(E) == IF E = {} THEN 0 ELSE LastOf(E).min + 1
AddAt(D, E, v) == IF At(E, v) = {} THEN D ELSE InsertRange(D, The(At(E, v)).min, The(At(E, v)).max)
RemoveAt(D, E, v) == IF At(E, v) = {} THEN D ELSE RemoveRange(D, The(At(E, v)).min, The(At(E, v)).max)
AddAll(D, E) ==
  LET f[v \in 0 .. End(E)] == IF v = 0 THEN D ELSE AddAt(f[v - 1], E, v - 1) IN f[End(E)]
RemoveAll(D, E) ==
  LET f[v \in 0 .. End(E)] == IF v = 0 THEN D ELSE RemoveAt(f[v - 1], E, v - 1) IN f[End(E)]

AddSet(s, t) == data' = [data EXCEPT ![s] = [d \in Devices |-> AddAll(@[d], data[t][d])]]
RemoveSet(s, t) == data' = [data EXCEPT ![s] = [d \in Devices |-> RemoveAll(@[d], data[t][d])]]

IntervalNext == \/ \E s \in Sets, d \in Devices : Change(s, d) \/ Pop(s, d)
                \/ \E s \in Sets, d \in Devices, n \in Numbers : AddPatch(s, d, n) \/ RemovePatch(s, d, n)
                \/ \E s, t \in Sets : s # t /\ (AddSet(s, t) \/ RemoveSet(s, t))

IntervalSpec == IntervalInit /\ [][IntervalNext]_data

-----------------------------------------------------------------------------
\* Properties

\* Intervals are not empty and never meet nor touch, so that two sets of the
\* same numbers have the same intervals: operator==, which compares them, is
\* the equality of the sets, and upper_bound finds what it looks for.
Apart(D) == \A i, j \in D : i.min <= i.max /\ (i # j => i.max + 1 < j.min \/ j.max + 1 < i.min)
IntervalsApart == \A s \in Sets, d \in Devices : Apart(data[s][d])

\* The intervals are the sets of patches of PatchSets.tla, whatever the order
\* of the insertions and of the removals.
PatchesIn == [s \in Sets |-> {p \in Devices \X Numbers : p[2] \in Members(data[s][p[1]])}]
Patch == INSTANCE PatchSets WITH member <- PatchesIn
ImplementsPatchSets == Patch!Spec
=============================================================================
