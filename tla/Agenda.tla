------------------------------- MODULE Agenda -------------------------------
(***************************************************************************)
(* What TimedTaskList promises (RB/cpp/RiotBase/System/TimedTaskList.h):   *)
(* a task is executed once, at the first exec() at its time or after it.   *)
(***************************************************************************)
EXTENDS Naturals

CONSTANTS Tasks, Delays

VARIABLES now,    \* the time
          due,    \* due[t]: when t has to be executed; only for the tasks to execute
          done    \* the tasks the last exec() executed

Waiting == DOMAIN due
Without(S) == [t \in Waiting \ S |-> due[t]]

Init == now \in Nat /\ due = [t \in {} |-> 0] /\ done = {}

Pass == now' > now /\ UNCHANGED <<due, done>>

\* A task that is already planned is not planned for later.
Plan(t, d) == /\ due' = [x \in Waiting \cup {t} |->
                           IF x # t \/ (t \in Waiting /\ due[t] < now + d) THEN due[x] ELSE now + d]
              /\ UNCHANGED <<now, done>>
Cancel(t) == due' = Without({t}) /\ UNCHANGED <<now, done>>
Execute == /\ done' = {t \in Waiting : due[t] <= now}
           /\ due' = Without(done')
           /\ UNCHANGED now

Next == Pass \/ Execute \/ \E t \in Tasks : Cancel(t) \/ \E d \in Delays : Plan(t, d)

Spec == Init /\ [][Next]_<<now, due, done>>
=============================================================================
