----------------------------- MODULE PatchSets -----------------------------
(***************************************************************************)
(* What SetOfPatchId promises (RB/cpp/RiotBase/System/SetOfPatchId.h):     *)
(* sets of patches, each the pair of a device and a number.                *)
(***************************************************************************)
EXTENDS Naturals

CONSTANTS Sets, Devices, Numbers

VARIABLE member    \* member[s]: the patches of the set s

Patches(d, lo, hi) == {<<d, n>> : n \in lo .. hi}

Init == member = [s \in Sets |-> {}]

Add(s, d, lo, hi) == member' = [member EXCEPT ![s] = @ \cup Patches(d, lo, hi)]
Remove(s, d, lo, hi) == member' = [member EXCEPT ![s] = @ \ Patches(d, lo, hi)]
Union(s, t) == member' = [member EXCEPT ![s] = @ \cup member[t]]
Minus(s, t) == member' = [member EXCEPT ![s] = @ \ member[t]]
First(s, d, n) == /\ <<d, n>> \in member[s]
                  /\ \A k \in Numbers : <<d, k>> \in member[s] => n <= k
                  /\ member' = [member EXCEPT ![s] = @ \ {<<d, n>>}]

Next == \/ \E s \in Sets, d \in Devices, lo, hi \in Numbers :
              Add(s, d, lo, hi) \/ Remove(s, d, lo, hi)
        \/ \E s, t \in Sets : Union(s, t) \/ Minus(s, t)
        \/ \E s \in Sets, d \in Devices, n \in Numbers : First(s, d, n)

Spec == Init /\ [][Next]_member
=============================================================================
