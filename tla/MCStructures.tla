---------------------------- MODULE MCStructures ----------------------------
(***************************************************************************)
(* The structures that do not depend on each other, in one run: `part`     *)
(* says which one moves, the others keep their initial state.              *)
(***************************************************************************)
EXTENDS Buffers, IntervalSet, IdGenerator, TaskList, TrackerUsers, RegCallbacks, TrackerConn, TLC

VARIABLE part

Init == /\ part \in {"buffers", "intervals", "ids", "tasks", "users", "callbacks", "conn"}
        /\ BuffersInit /\ IntervalInit /\ IdInit /\ TaskInit /\ UsersInit /\ CallbacksInit /\ ConnInit

BuffersMove == part = "buffers" /\ BuffersNext
               /\ UNCHANGED <<data, idvars, tvars, uservars, cbvars, connvars>>
IntervalsMove == part = "intervals" /\ IntervalNext
                 /\ UNCHANGED <<bvars, idvars, tvars, uservars, cbvars, connvars>>
IdsMove == part = "ids" /\ IdNext
           /\ UNCHANGED <<bvars, data, tvars, uservars, cbvars, connvars>>
TasksMove == part = "tasks" /\ TaskNext
             /\ UNCHANGED <<bvars, data, idvars, uservars, cbvars, connvars>>
UsersMove == part = "users" /\ UsersNext
             /\ UNCHANGED <<bvars, data, idvars, tvars, cbvars, connvars>>
CallbacksMove == part = "callbacks" /\ CallbacksNext
                 /\ UNCHANGED <<bvars, data, idvars, tvars, uservars, connvars>>
ConnMoves == part = "conn" /\ ConnNext
             /\ UNCHANGED <<bvars, data, idvars, tvars, uservars, cbvars>>

Next == /\ \/ BuffersMove \/ IntervalsMove \/ IdsMove \/ TasksMove \/ UsersMove
           \/ CallbacksMove \/ ConnMoves
        /\ UNCHANGED part
Spec == Init /\ [][Next]_<<part, bvars, data, idvars, tvars, uservars, cbvars, connvars>>

Alike == Permutations(Queues) \cup Permutations(Strings) \cup Permutations(Tasks)
-----------------------------------------------------------------------------
\* What the code of these structures relies on: a buffer in use is not given
\* back and bytes are written in the last one, a task is in one list of the ring.
StructuresSound == KeptWhileUsed /\ EndIsLast /\ InOneList
=============================================================================
