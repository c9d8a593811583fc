-------------------------------- MODULE MCDb --------------------------------
(***************************************************************************)
(* Db for TLC, without the contents: the variable is one value, an edit is *)
(* one operation and merging leaves the operations as they are.            *)
(* `meshed' says whether all devices are bound and connected from the      *)
(* start, as test_ot has them, or start as InitBound and InitConn say.     *)
(***************************************************************************)
EXTENDS Db, TLC

CONSTANTS
    Starts,         \* the values of meshed
    FullConn        \* the connections where all are connected

ASSUME MeshAssumption ==
    /\ Starts \subseteq BOOLEAN
    /\ FullConn \in [Dev -> Seq(Dev)]
    /\ \A d \in Dev : Range(FullConn[d]) = Dev \ {d}
    /\ \A d \in Dev : \E e \in Dev : e # d

VARIABLE meshed

Dev2 == {1, 2}
Dev3 == {1, 2, 3}
First == {1}

OneOp == {"op"}
OneDoc == {"doc"}
OpLocalOps(doc) == {[doc |-> doc, data |-> <<"op">>]}
OpUndoData(doc, data) == doc
OpNewData(doc, data, cq) == [doc |-> doc, data |-> data, cq |-> cq]

(* Full mesh, in the order test_ot connects. *)
Mesh2 == 1 :> <<2>> @@ 2 :> <<1>>
Mesh3 == 1 :> <<2, 3>> @@ 2 :> <<1, 3>> @@ 3 :> <<1, 2>>
NoConn == [d \in Dev |-> <<>>]
Chain3 == 1 :> <<2>> @@ 2 :> <<1, 3>> @@ 3 :> <<2>>

NoSkew == [d \in Dev |-> 0]
FirstAhead == [d \in Dev |-> IF d = 1 THEN 2 ELSE 0]

MCInit == /\ meshed \in Starts
          /\ IF meshed THEN InitGroup(Dev, FullConn) ELSE Init
MCNext == Next /\ UNCHANGED meshed
MCSpec == MCInit /\ [][MCNext]_<<vars, meshed>>
MCFairSpec == MCSpec /\ Fairness

-----------------------------------------------------------------------------
(* A Db that has sent all has forgotten nothing, where all are connected:  *)
(* without a connection send_changes clears modified_items all the same.   *)
(* Db.ts:52.                                                               *)
MeshForgetsNothing == meshed => NothingForgotten

(* Every patch reaches every device, where no change is dropped because    *)
(* the item is not bound. Db.ts:46 and 64.                                 *)
MeshReachesAll == meshed => PatchReachesAll
=============================================================================
