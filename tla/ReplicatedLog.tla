---------------------------- MODULE ReplicatedLog ----------------------------
(***************************************************************************)
(* What a group of Db promises of an item they share: each device has a    *)
(* log, to which it adds its own patches and those it learns of, one after *)
(* the other for each device that makes them; a patch stays where it is    *)
(* put, and any two logs are in one order.  A patch is the device that     *)
(* makes it and a number.                                                  *)
(*                                                                         *)
(* Nothing is said of when or from whom a device learns of a patch, nor of *)
(* what decides on the order.                                              *)
(***************************************************************************)
EXTENDS Naturals, Sequences

CONSTANT Dev
VARIABLE log    \* log[d]: the patches d holds, in its order

Init == log = [d \in Dev |-> <<>>]

Held(d) == {log[d][i] : i \in 1 .. Len(log[d])}
IsNext(d, p) == p \notin Held(d) /\ (p[2] = 1 \/ <<p[1], p[2] - 1>> \in Held(d))

Put(l, p, k) == [i \in 1 .. Len(l) + 1 |-> IF i < k THEN l[i] ELSE IF i = k THEN p ELSE l[i - 1]]

OneOrder ==
    \A d, e \in Dev : \A i1, i2 \in 1 .. Len(log[d]) : \A j1, j2 \in 1 .. Len(log[e]) :
        log[d][i1] = log[e][j1] /\ log[d][i2] = log[e][j2] => (i1 < i2 <=> j1 < j2)

(* d makes its next patch, which nobody holds, after all that it holds.    *)
Make(d) ==
    \E n \in {1} \cup {p[2] + 1 : p \in Held(d)} :
        /\ IsNext(d, <<d, n>>)
        /\ \A e \in Dev : <<d, n>> \notin Held(e)
        /\ log' = [log EXCEPT ![d] = Append(@, <<d, n>>)]

(* d learns of the next patch of a, and puts it where the others have it.  *)
Learn(d, a) ==
    /\ \E p \in Held(a) : /\ p[1] = a /\ IsNext(d, p)
                          /\ \E k \in 1 .. Len(log[d]) + 1 : log' = [log EXCEPT ![d] = Put(@, p, k)]
    /\ OneOrder'

Next == \E d \in Dev : Make(d) \/ \E a \in Dev : Learn(d, a)

Spec == Init /\ [][Next]_log
==============================================================================
