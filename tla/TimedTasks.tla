----------------------------- MODULE TimedTasks -----------------------------
(***************************************************************************)
(* TimedTaskList (RB/cpp/RiotBase/System/TimedTaskList.cpp): a ring of     *)
(* lists of tasks, one for each unit of time from the last execution on,   *)
(* and a list of the tasks to execute at once.                             *)
(*                                                                         *)
(* A list is the set of its tasks: nothing depends on their order, and a   *)
(* task is removed from where it is before it is put anywhere. Time is     *)
(* counted in units, as cur_time_div() does. The tasks that are executed   *)
(* add none and remove none, as in the tracker.                            *)
(***************************************************************************)
EXTENDS Integers

Least(x, y) == IF x < y THEN x ELSE y

\* `due` gives the time_of_exec of the tasks that are in one of the lists
\* (timed_task_list_ptr is not null).
NewTaskList(size, now) ==
  [size |-> size, slots |-> [k \in 0..size - 1 |-> {}], imm |-> {},
   time_last_exe |-> now, off_last_exe |-> 0, due |-> [t \in {} |-> 0]]

Planned(l) == DOMAIN l.due

DesactivateNone(l, S) == l                            \* mutant: the tasks of the receiver stay
\* The end of a receiver: all its tasks, S, are desactivated.
DesactivateAll(l, S) ==
  [l EXCEPT !.slots = [k \in DOMAIN @ |-> @[k] \ S], !.imm = @ \ S,
            !.due = [x \in Planned(l) \ S |-> @[x]]]

\* Task::desactivate(), and the end of a task.
Desactivate(l, t) == DesactivateAll(l, {t})

\* The slot of a delay that is not 0; the last one of the ring for one that is too long.
SlotFromNow(l, delay, now) == (l.off_last_exe + Least(delay, l.size - 1)) % l.size   \* mutant
Slot(l, delay, now) == (l.off_last_exe + Least(now + delay - l.time_last_exe, l.size - 1)) % l.size

PushBack(l, t, delay, now) ==
  LET dated == [l EXCEPT !.due = [x \in Planned(l) \cup {t} |-> IF x = t THEN now + delay ELSE @[x]]]
  IN IF delay = 0 THEN [dated EXCEPT !.imm = @ \cup {t}]
     ELSE [dated EXCEPT !.slots[Slot(l, delay, now)] = @ \cup {t}]

\* add_task: a task that is planned before that stays where it is.
AddTask(l, t, delay, now) ==
  IF t \in Planned(l) /\ l.due[t] < now + delay THEN l
  ELSE PushBack(Desactivate(l, t), t, delay, now)

\* exec(): the slots from off_last_exe to the one of the current time, included.
EndOff(l, now) == l.off_last_exe + Least(now - l.time_last_exe, l.size - 1)
Passed(l, now) == {off % l.size : off \in l.off_last_exe .. EndOff(l, now)}
Executed(l, now) == l.imm \cup UNION {l.slots[k] : k \in Passed(l, now)}
Exec(l, now) ==
  [l EXCEPT !.imm = {},
            !.slots = [k \in DOMAIN @ |-> IF k \in Passed(l, now) THEN {} ELSE @[k]],
            !.time_last_exe = now,
            !.off_last_exe = EndOff(l, now) % l.size,
            !.due = [x \in Planned(l) \ Executed(l, now) |-> @[x]]]
=============================================================================
