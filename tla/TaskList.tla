------------------------------ MODULE TaskList ------------------------------
(***************************************************************************)
(* A TimedTaskList on its own: its tasks are added, added again, removed   *)
(* and executed at any time.                                               *)
(*                                                                         *)
(* The ring is longer than the longest delay and the longest time between  *)
(* two executions together (60 seconds for delays of 5 in the tracker,     *)
(* which executes every second); MaxTime bounds the time.                  *)
(***************************************************************************)
EXTENDS TimedTasks

CONSTANTS Tasks, RingSize, MaxDelay, MaxLate, MaxTime

ASSUME RingAssumption == /\ RingSize \in Nat \ {0} /\ {MaxDelay, MaxLate, MaxTime} \subseteq Nat
                         /\ MaxDelay + MaxLate < RingSize

VARIABLES time,     \* cur_time_div()
          list,     \* the TimedTaskList
          executed  \* the tasks of the last exec()
tvars == <<time, list, executed>>

TaskInit == time = 0 /\ list = NewTaskList(RingSize, 0) /\ executed = {}

Pass == /\ time < MaxTime /\ time - list.time_last_exe < MaxLate
        /\ time' = time + 1
        /\ UNCHANGED <<list, executed>>
Plan(t) == /\ \E d \in 0..MaxDelay : list' = AddTask(list, t, d, time)
           /\ UNCHANGED <<time, executed>>
Cancel(t) == /\ t \in Planned(list)
             /\ list' = Desactivate(list, t)
             /\ UNCHANGED <<time, executed>>
Execute == /\ executed' = Executed(list, time)
           /\ list' = Exec(list, time)
           /\ UNCHANGED time

TaskNext == Pass \/ Execute \/ \E t \in Tasks : Plan(t) \/ Cancel(t)
TaskSpec == TaskInit /\ [][TaskNext]_tvars

-----------------------------------------------------------------------------
\* Every planned task is in one list: remove() finds it there and no other list
\* keeps the address of a task that is deleted.
Listed(l) == {<<-1, t>> : t \in l.imm} \cup UNION {{<<k, t>> : t \in l.slots[k]} : k \in DOMAIN l.slots}
InOneList == /\ {p[2] : p \in Listed(list)} = Planned(list)
             /\ \A p, q \in Listed(list) : p[2] = q[2] => p = q

\* The ring executes every task at the first exec() at its time or after it,
\* and not before, whatever was planned again or cancelled in between.
Dates == INSTANCE Agenda WITH Delays <- 0..MaxDelay, now <- time, due <- list.due, done <- executed
ImplementsAgenda == Dates!Spec
=============================================================================
