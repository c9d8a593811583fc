----------------------------- MODULE TimersProofs -----------------------------
(***************************************************************************)
(* Theorems about the timed lists and the sessions that rely on them.      *)
(*                                                                         *)
(* A list whose ring is longer than its longest delay and its longest late *)
(* execution together has every task where its date says (Timely); it      *)
(* then does what Agenda promises.  The tracker's list of alive_checks is  *)
(* such a list; its list of tokens has one slot and is not.                *)
(***************************************************************************)
EXTENDS TaskList, TrackerServer, TLAPS

-----------------------------------------------------------------------------
(* A list and its ring.                                                    *)

Wrap(n, x) == IF x < n THEN x ELSE x - n

LEMMA WrapIs ==
    ASSUME NEW n \in Nat \ {0}, NEW x \in Nat, x < 2 * n
    PROVE  x % n = Wrap(n, x)
BY DEF Wrap

LEMMA WrapOnce ==
    ASSUME NEW n \in Nat \ {0}, NEW a \in 0 .. n - 1,
           NEW x \in 0 .. n - 1, NEW y \in 0 .. n - 1, Wrap(n, a + x) = Wrap(n, a + y)
    PROVE  x = y
BY DEF Wrap

LEMMA WrapTwice ==
    ASSUME NEW n \in Nat \ {0}, NEW a \in 0 .. n - 1,
           NEW x \in 0 .. n - 1, NEW y \in 0 .. n - 1, x + y < n
    PROVE  /\ Wrap(n, a + x) \in 0 .. n - 1
           /\ Wrap(n, Wrap(n, a + x) + y) = Wrap(n, a + (x + y))
BY DEF Wrap
-----------------------------------------------------------------------------
(* A list: its fields, and every task where its date says.                 *)

IsList(l) ==
    /\ l = [size |-> l.size, slots |-> l.slots, imm |-> l.imm,
            time_last_exe |-> l.time_last_exe, off_last_exe |-> l.off_last_exe, due |-> l.due]
    /\ l.size \in Nat \ {0} /\ l.off_last_exe \in 0 .. l.size - 1 /\ l.time_last_exe \in Nat
    /\ l.slots = [k \in 0 .. l.size - 1 |-> l.slots[k]]
    /\ l.due = [t \in Planned(l) |-> l.due[t]]
    /\ \A t \in Planned(l) : l.due[t] \in Nat

\* The dates of l without the tasks of S, and with those of t.
DatesWithout(l, S) == [x \in Planned(l) \ S |-> l.due[x]]
DatesWith(l, t, delay, now) ==
    [x \in Planned(l) \cup {t} |->
        IF x # t \/ (t \in Planned(l) /\ l.due[t] < now + delay) THEN l.due[x] ELSE now + delay]

SlotOf(l, date) == Wrap(l.size, l.off_last_exe + (date - l.time_last_exe))
At(l, t) == SlotOf(l, l.due[t])

\* The ring is long enough for a delay.
Fits(l, delay, now) == /\ l.time_last_exe <= now
                       /\ now + delay < l.time_last_exe + l.size

(* now: the time, in the units of l.                                       *)
InPlace(l, now) ==
    /\ l.time_last_exe <= now
    /\ l.imm \subseteq Planned(l) /\ \A t \in l.imm : l.due[t] <= now
    /\ \A t \in Planned(l) \ l.imm :
          l.time_last_exe < l.due[t] /\ l.due[t] < l.time_last_exe + l.size
    /\ \A k \in 0 .. l.size - 1 :
          l.slots[k] = {t \in Planned(l) \ l.imm : At(l, t) = k}

Timely(l, now) == IsList(l) /\ InPlace(l, now)

(* A list that holds what another one did after all tasks of S are gone.   *)
LEMMA DesactivateIs ==
    ASSUME NEW l, NEW S, IsList(l), NEW m, m = DesactivateAll(l, S)
    PROVE  /\ IsList(m) /\ m.size = l.size /\ m.imm = l.imm \ S
           /\ m.time_last_exe = l.time_last_exe /\ m.off_last_exe = l.off_last_exe
           /\ \A k \in 0 .. l.size - 1 : m.slots[k] = l.slots[k] \ S
           /\ Planned(m) = Planned(l) \ S
           /\ \A t \in Planned(m) : m.due[t] = l.due[t]
<1> DEFINE slots == [k \in 0 .. l.size - 1 |-> l.slots[k] \ S]
           due == [t \in Planned(l) \ S |-> l.due[t]]
<1>1. /\ l.size \in Nat \ {0} /\ l.off_last_exe \in 0 .. l.size - 1 /\ l.time_last_exe \in Nat
      /\ \A t \in Planned(l) : l.due[t] \in Nat
  BY DEF IsList
<1>2. DOMAIN l.slots = 0 .. l.size - 1
  <2>1. l.slots = [k \in 0 .. l.size - 1 |-> l.slots[k]]
    BY DEF IsList
  <2>2. QED
    BY <2>1
<1>3. m = [l EXCEPT !.slots = slots, !.imm = l.imm \ S, !.due = due]
  <2>1. l = [size |-> l.size, slots |-> l.slots, imm |-> l.imm,
             time_last_exe |-> l.time_last_exe, off_last_exe |-> l.off_last_exe, due |-> l.due]
    BY DEF IsList
  <2>2. QED
    BY <1>2, <2>1 DEF DesactivateAll
<1>4. /\ m = [size |-> m.size, slots |-> m.slots, imm |-> m.imm,
               time_last_exe |-> m.time_last_exe, off_last_exe |-> m.off_last_exe, due |-> m.due]
      /\ m.size = l.size /\ m.slots = slots /\ m.imm = l.imm \ S
      /\ m.time_last_exe = l.time_last_exe /\ m.off_last_exe = l.off_last_exe /\ m.due = due
  <2>1. l = [size |-> l.size, slots |-> l.slots, imm |-> l.imm,
             time_last_exe |-> l.time_last_exe, off_last_exe |-> l.off_last_exe, due |-> l.due]
    BY DEF IsList
  <2> HIDE DEF slots, due
  <2>2. m = [size |-> l.size, slots |-> slots, imm |-> l.imm \ S,
             time_last_exe |-> l.time_last_exe, off_last_exe |-> l.off_last_exe, due |-> due]
    BY <1>3, <2>1
  <2>3. QED
    BY <2>2
<1>5. Planned(m) = Planned(l) \ S
  BY <1>4 DEF Planned
<1>6. /\ \A t \in Planned(m) : m.due[t] = l.due[t]
      /\ \A k \in 0 .. l.size - 1 : m.slots[k] = l.slots[k] \ S
  BY <1>4, <1>5
<1>7. m.due = [t \in Planned(m) |-> m.due[t]]
  BY <1>4, <1>5
<1>8. m.slots = [k \in 0 .. m.size - 1 |-> m.slots[k]]
  BY <1>4
<1> HIDE DEF slots, due
<1>9. IsList(m)
  BY <1>1, <1>4, <1>5, <1>6, <1>7, <1>8 DEF IsList
<1>10. QED
  BY <1>4, <1>5, <1>6, <1>9

LEMMA DesactivateTimely ==
    ASSUME NEW l, NEW S, NEW now \in Nat, Timely(l, now)
    PROVE  Timely(DesactivateAll(l, S), now)
<1>1. PICK m : m = DesactivateAll(l, S)
  OBVIOUS
<1>2. IsList(l) /\ InPlace(l, now)
  BY DEF Timely
<1>3. /\ IsList(m) /\ m.size = l.size /\ m.imm = l.imm \ S
      /\ m.time_last_exe = l.time_last_exe /\ m.off_last_exe = l.off_last_exe
      /\ \A k \in 0 .. l.size - 1 : m.slots[k] = l.slots[k] \ S
      /\ Planned(m) = Planned(l) \ S
      /\ \A t \in Planned(m) : m.due[t] = l.due[t]
  BY <1>1, <1>2, DesactivateIs
<1>4. \A t \in Planned(m) : At(m, t) = At(l, t)
  BY <1>3 DEF At, SlotOf
<1>5. InPlace(m, now)
  BY <1>2, <1>3, <1>4 DEF InPlace
<1>6. QED
  BY <1>1, <1>3, <1>5 DEF Timely

\* The slot of a delay that is not longer than the ring.
LEMMA FitsSlot ==
    ASSUME NEW l, NEW delay \in Nat, NEW now \in Nat, IsList(l), Fits(l, delay, now)
    PROVE  Slot(l, delay, now) = SlotOf(l, now + delay) /\ Slot(l, delay, now) \in 0 .. l.size - 1
<1>1. l.size \in Nat \ {0} /\ l.off_last_exe \in 0 .. l.size - 1 /\ l.time_last_exe \in Nat
  BY DEF IsList
<1>2. PICK x \in 0 .. l.size - 1 : x = now + delay - l.time_last_exe
  BY <1>1 DEF Fits
<1>3. Least(x, l.size - 1) = x
  BY <1>1, <1>2 DEF Least
<1>4. /\ l.off_last_exe + x \in Nat /\ l.off_last_exe + x < 2 * l.size
      /\ Wrap(l.size, l.off_last_exe + x) \in 0 .. l.size - 1
  BY <1>1, <1>2 DEF Wrap
<1>5. (l.off_last_exe + x) % l.size = Wrap(l.size, l.off_last_exe + x)
  BY <1>1, <1>4, WrapIs
<1>6. SlotOf(l, now + delay) = Wrap(l.size, l.off_last_exe + x)
  BY <1>1, <1>2 DEF SlotOf
<1>7. QED
  BY <1>2, <1>3, <1>4, <1>5, <1>6 DEF Slot

(* m is l after the push of t.                                             *)
Pushed(l, t, delay, now, m) ==
    /\ m.size = l.size /\ m.time_last_exe = l.time_last_exe /\ m.off_last_exe = l.off_last_exe
    /\ m.imm = IF delay = 0 THEN l.imm \cup {t} ELSE l.imm
    /\ \A k \in 0 .. l.size - 1 :
          m.slots[k] = IF delay # 0 /\ k = Slot(l, delay, now) THEN l.slots[k] \cup {t} ELSE l.slots[k]
    /\ Planned(m) = Planned(l) \cup {t}
    /\ \A x \in Planned(m) : m.due[x] = IF x = t THEN now + delay ELSE l.due[x]

LEMMA PushIs ==
    ASSUME NEW l, NEW t, NEW delay \in Nat, NEW now \in Nat, IsList(l),
           Slot(l, delay, now) \in 0 .. l.size - 1, NEW m, m = PushBack(l, t, delay, now)
    PROVE  IsList(m) /\ Pushed(l, t, delay, now, m)
<1>0. PICK a : a = Slot(l, delay, now)
  OBVIOUS
<1> DEFINE due == [x \in Planned(l) \cup {t} |-> IF x = t THEN now + delay ELSE l.due[x]]
           slots == [k \in 0 .. l.size - 1 |->
                       IF delay # 0 /\ k = a THEN l.slots[k] \cup {t} ELSE l.slots[k]]
<1>1. /\ l.size \in Nat \ {0} /\ l.off_last_exe \in 0 .. l.size - 1 /\ l.time_last_exe \in Nat
      /\ \A x \in Planned(l) : l.due[x] \in Nat
  BY DEF IsList
<1>2. l.slots = [k \in 0 .. l.size - 1 |-> l.slots[k]]
  BY DEF IsList
<1>3. l = [size |-> l.size, slots |-> l.slots, imm |-> l.imm,
           time_last_exe |-> l.time_last_exe, off_last_exe |-> l.off_last_exe, due |-> l.due]
  BY DEF IsList
<1>4. Slot(l, delay, now) = a /\ a \in 0 .. l.size - 1
  BY <1>0
<1>5. m = [l EXCEPT !.due = due, !.slots = slots, !.imm = IF delay = 0 THEN l.imm \cup {t} ELSE l.imm]
  <2>1. CASE delay = 0
    <3>1. slots = l.slots
      BY <1>2, <2>1
    <3>2. m = [l EXCEPT !.due = due, !.imm = l.imm \cup {t}]
      BY <1>3, <2>1 DEF PushBack, Planned
    <3> HIDE DEF slots, due
    <3>3. QED
      BY <1>3, <2>1, <3>1, <3>2
  <2>2. CASE delay # 0
    <3>1. slots = [l.slots EXCEPT ![a] = l.slots[a] \cup {t}]
      BY <1>2, <1>4, <2>2
    <3>2. m = [l EXCEPT !.due = due, !.slots = [l.slots EXCEPT ![a] = l.slots[a] \cup {t}]]
      BY <1>3, <1>4, <2>2 DEF PushBack, Planned
    <3> HIDE DEF slots, due
    <3>3. QED
      BY <1>3, <2>2, <3>1, <3>2
  <2>3. QED
    BY <2>1, <2>2
<1>6. /\ m = [size |-> m.size, slots |-> m.slots, imm |-> m.imm,
               time_last_exe |-> m.time_last_exe, off_last_exe |-> m.off_last_exe, due |-> m.due]
      /\ m.size = l.size /\ m.slots = slots /\ m.imm = IF delay = 0 THEN l.imm \cup {t} ELSE l.imm
      /\ m.time_last_exe = l.time_last_exe /\ m.off_last_exe = l.off_last_exe /\ m.due = due
  <2> HIDE DEF slots, due
  <2>1. m = [size |-> l.size, slots |-> slots, imm |-> IF delay = 0 THEN l.imm \cup {t} ELSE l.imm,
             time_last_exe |-> l.time_last_exe, off_last_exe |-> l.off_last_exe, due |-> due]
    BY <1>3, <1>5
  <2>2. QED
    BY <2>1
<1>7. Planned(m) = Planned(l) \cup {t}
  BY <1>6 DEF Planned
<1>8. /\ \A x \in Planned(m) : m.due[x] = IF x = t THEN now + delay ELSE l.due[x]
      /\ \A k \in 0 .. l.size - 1 :
            m.slots[k] = IF delay # 0 /\ k = a THEN l.slots[k] \cup {t} ELSE l.slots[k]
  BY <1>6, <1>7
<1>9. m.due = [x \in Planned(m) |-> m.due[x]]
  BY <1>6, <1>7
<1>10. m.slots = [k \in 0 .. m.size - 1 |-> m.slots[k]]
  BY <1>6
<1> HIDE DEF slots, due
<1>11. \A x \in Planned(m) : m.due[x] \in Nat
  BY <1>1, <1>7, <1>8
<1>12. IsList(m)
  BY <1>1, <1>6, <1>9, <1>10, <1>11 DEF IsList
<1>13. QED
  BY <1>0, <1>6, <1>7, <1>8, <1>12 DEF Pushed

\* A task that is not in the list is put where its date says.
LEMMA PushTimely ==
    ASSUME NEW l, NEW t, NEW delay \in Nat, NEW now \in Nat, Timely(l, now), t \notin Planned(l),
           Fits(l, delay, now)
    PROVE  Timely(PushBack(l, t, delay, now), now)
<1>1. /\ IsList(l) /\ InPlace(l, now) /\ l.time_last_exe <= now
      /\ l.size \in Nat /\ l.time_last_exe \in Nat
  BY DEF Timely, InPlace, IsList
<1>2. PICK m : m = PushBack(l, t, delay, now)
  OBVIOUS
<1>3. PICK a : a = SlotOf(l, now + delay)
  OBVIOUS
<1>4. /\ IsList(m) /\ m.size = l.size
      /\ m.time_last_exe = l.time_last_exe /\ m.off_last_exe = l.off_last_exe
      /\ m.imm = IF delay = 0 THEN l.imm \cup {t} ELSE l.imm
      /\ \A k \in 0 .. l.size - 1 :
            m.slots[k] = IF delay # 0 /\ k = a THEN l.slots[k] \cup {t} ELSE l.slots[k]
      /\ Planned(m) = Planned(l) \cup {t}
      /\ \A x \in Planned(m) : m.due[x] = IF x = t THEN now + delay ELSE l.due[x]
  <2>1. Slot(l, delay, now) = a /\ a \in 0 .. l.size - 1
    BY <1>1, <1>3, FitsSlot
  <2>2. IsList(m) /\ Pushed(l, t, delay, now, m)
    BY <1>1, <1>2, <2>1, PushIs
  <2>3. QED
    BY <2>1, <2>2 DEF Pushed
<1>5. /\ l.size \in Nat /\ l.time_last_exe \in Nat
      /\ \A x \in Planned(l) : x # t /\ l.due[x] \in Nat
  BY <1>1 DEF IsList
<1>6. At(m, t) = a /\ \A x \in Planned(l) : At(m, x) = At(l, x)
  BY <1>3, <1>4, <1>5 DEF At, SlotOf
<1>7. m.imm \subseteq Planned(m) /\ \A x \in m.imm : m.due[x] <= now
  BY <1>1, <1>4, <1>5 DEF InPlace
<1>8. \A x \in Planned(m) \ m.imm : m.time_last_exe < m.due[x] /\ m.due[x] < m.time_last_exe + m.size
  <2>1. ASSUME NEW x \in Planned(m) \ m.imm
        PROVE  m.time_last_exe < m.due[x] /\ m.due[x] < m.time_last_exe + m.size
    <3>1. CASE x = t
      BY <1>1, <1>4, <1>5, <3>1 DEF Fits
    <3>2. CASE x # t
      BY <1>1, <1>4, <1>5, <3>2 DEF InPlace
    <3>3. QED
      BY <3>1, <3>2
  <2>2. QED
    BY <2>1
<1>9. \A k \in 0 .. m.size - 1 : m.slots[k] = {x \in Planned(m) \ m.imm : At(m, x) = k}
  <2>1. ASSUME NEW k \in 0 .. m.size - 1
        PROVE  m.slots[k] = {x \in Planned(m) \ m.imm : At(m, x) = k}
    <3>1. l.slots[k] = {x \in Planned(l) \ l.imm : At(l, x) = k}
      BY <1>1, <1>4 DEF InPlace
    <3>2. m.slots[k] = IF delay # 0 /\ k = a THEN l.slots[k] \cup {t} ELSE l.slots[k]
      BY <1>4
    <3>3. QED
      BY <1>1, <1>4, <1>5, <1>6, <3>1, <3>2 DEF InPlace
  <2>2. QED
    BY <2>1
<1>10. InPlace(m, now)
  BY <1>1, <1>4, <1>7, <1>8, <1>9 DEF InPlace
<1>11. QED
  BY <1>2, <1>4, <1>10 DEF Timely

(* add_task: a task that is planned before that stays where it is.         *)
LEMMA AddIs ==
    ASSUME NEW l, NEW t, NEW delay \in Nat, NEW now \in Nat, Timely(l, now),
           Fits(l, delay, now),
           NEW m, m = AddTask(l, t, delay, now)
    PROVE  /\ Timely(m, now) /\ m.size = l.size /\ m.time_last_exe = l.time_last_exe
           /\ m.due = DatesWith(l, t, delay, now)
<1>1. /\ IsList(l) /\ l.time_last_exe <= now /\ l.size \in Nat /\ l.time_last_exe \in Nat
      /\ l.due = [x \in Planned(l) |-> l.due[x]]
  BY DEF Timely, InPlace, IsList
<1>2. CASE t \in Planned(l) /\ l.due[t] < now + delay
  <2>1. m = l /\ Planned(l) \cup {t} = Planned(l)
    BY <1>2 DEF AddTask
  <2>2. QED
    BY <1>1, <1>2, <2>1 DEF DatesWith
<1>3. CASE ~(t \in Planned(l) /\ l.due[t] < now + delay)
  <2>1. PICK n : n = DesactivateAll(l, {t})
    OBVIOUS
  <2>2. /\ IsList(n) /\ n.size = l.size /\ n.time_last_exe = l.time_last_exe
        /\ Planned(n) = Planned(l) \ {t} /\ \A x \in Planned(n) : n.due[x] = l.due[x]
    BY <1>1, <2>1, DesactivateIs
  <2>3. Timely(n, now)
    BY <2>1, DesactivateTimely
  <2>12. Fits(n, delay, now)
    BY <2>2 DEF Fits
  <2>4. m = PushBack(n, t, delay, now)
    BY <1>3, <2>1 DEF AddTask, Desactivate
  <2>5. Timely(m, now)
    BY <2>12, <2>2, <2>3, <2>4, PushTimely
  <2>7. /\ m.size = n.size /\ m.time_last_exe = n.time_last_exe
        /\ Planned(m) = Planned(n) \cup {t}
        /\ \A x \in Planned(m) : m.due[x] = IF x = t THEN now + delay ELSE n.due[x]
    <3>1. Slot(n, delay, now) \in 0 .. n.size - 1
      BY <2>2, <2>12, FitsSlot
    <3>2. Pushed(n, t, delay, now, m)
      BY <2>2, <2>4, <3>1, PushIs
    <3>3. QED
      BY <3>2 DEF Pushed
  <2>8. m.due = [x \in Planned(m) |-> m.due[x]]
    BY <2>5 DEF Timely, IsList
  <2>9. Planned(m) = Planned(l) \cup {t}
    BY <2>2, <2>7
  <2>10. \A x \in Planned(m) :
            m.due[x] = IF x # t \/ (t \in Planned(l) /\ l.due[t] < now + delay)
                       THEN l.due[x] ELSE now + delay
    BY <1>3, <2>2, <2>7
  <2>11. QED
    BY <2>2, <2>5, <2>7, <2>8, <2>9, <2>10 DEF DatesWith
<1>4. QED
  BY <1>2, <1>3

-----------------------------------------------------------------------------
(* exec(): it finds the tasks whose time has come, and leaves the others   *)
(* where their dates say.                                                  *)

\* The slots it reads, from the last execution to now.
LEMMA PassedIs ==
    ASSUME NEW l, IsList(l), NEW now \in Nat, l.time_last_exe <= now, now - l.time_last_exe < l.size
    PROVE  /\ EndOff(l, now) % l.size = SlotOf(l, now)
           /\ SlotOf(l, now) \in 0 .. l.size - 1
           /\ \A k : k \in Passed(l, now) <=> \E x \in 0 .. now - l.time_last_exe :
                                                 k = Wrap(l.size, l.off_last_exe + x)
<1>1. /\ l.size \in Nat \ {0} /\ l.off_last_exe \in 0 .. l.size - 1 /\ l.time_last_exe \in Nat
  BY DEF IsList
<1>2. PICK d \in 0 .. l.size - 1 : d = now - l.time_last_exe
  BY <1>1
<1>3. EndOff(l, now) = l.off_last_exe + d
  BY <1>1, <1>2 DEF EndOff, Least
<1>4. ASSUME NEW x \in 0 .. l.size - 1
      PROVE  /\ l.off_last_exe + x \in Nat /\ l.off_last_exe + x < 2 * l.size
             /\ (l.off_last_exe + x) % l.size = Wrap(l.size, l.off_last_exe + x)
             /\ Wrap(l.size, l.off_last_exe + x) \in 0 .. l.size - 1
  <2>1. l.off_last_exe + x \in Nat /\ l.off_last_exe + x < 2 * l.size
    BY <1>1
  <2>2. (l.off_last_exe + x) % l.size = Wrap(l.size, l.off_last_exe + x)
    BY <1>1, <2>1, WrapIs
  <2>3. Wrap(l.size, l.off_last_exe + x) \in 0 .. l.size - 1
    BY <1>1 DEF Wrap
  <2>4. QED
    BY <2>1, <2>2, <2>3
<1>5. SlotOf(l, now) = Wrap(l.size, l.off_last_exe + d)
  BY <1>1, <1>2 DEF SlotOf
<1>6. ASSUME NEW k, k \in Passed(l, now)
      PROVE  \E x \in 0 .. now - l.time_last_exe : k = Wrap(l.size, l.off_last_exe + x)
  <2>1. PICK off \in l.off_last_exe .. l.off_last_exe + d : k = off % l.size
    BY <1>3, <1>6 DEF Passed
  <2>2. PICK x \in 0 .. d : off = l.off_last_exe + x
    <3>1. off - l.off_last_exe \in 0 .. d /\ off = l.off_last_exe + (off - l.off_last_exe)
      BY <1>1, <1>2, <2>1
    <3>2. QED
      BY <3>1
  <2>3. x \in 0 .. l.size - 1 /\ x \in 0 .. now - l.time_last_exe
    BY <1>1, <1>2, <2>2
  <2>4. k = Wrap(l.size, l.off_last_exe + x)
    BY <1>4, <2>1, <2>2, <2>3
  <2>5. QED
    BY <2>3, <2>4
<1>7. ASSUME NEW x \in 0 .. now - l.time_last_exe
      PROVE  Wrap(l.size, l.off_last_exe + x) \in Passed(l, now)
  <2>1. x \in 0 .. l.size - 1 /\ l.off_last_exe + x \in l.off_last_exe .. l.off_last_exe + d
    BY <1>1, <1>2, <1>7
  <2>2. (l.off_last_exe + x) % l.size \in Passed(l, now)
    BY <1>3, <2>1 DEF Passed
  <2>3. QED
    BY <1>4, <2>1, <2>2
<1>8. QED
  BY <1>3, <1>4, <1>5, <1>6, <1>7

LEMMA ExecutedIs ==
    ASSUME NEW l, NEW now \in Nat, Timely(l, now), now - l.time_last_exe < l.size
    PROVE  Executed(l, now) = {t \in Planned(l) : l.due[t] <= now}
<1>1. /\ l.size \in Nat \ {0} /\ l.off_last_exe \in 0 .. l.size - 1 /\ l.time_last_exe \in Nat
      /\ IsList(l) /\ InPlace(l, now) /\ l.time_last_exe <= now
      /\ \A t \in Planned(l) : l.due[t] \in Nat
  BY DEF Timely, IsList, InPlace
<1>2. \A k : k \in Passed(l, now) <=> \E x \in 0 .. now - l.time_last_exe :
                                            k = Wrap(l.size, l.off_last_exe + x)
  BY <1>1, PassedIs
<1>3. \A k \in Passed(l, now) : k \in 0 .. l.size - 1
  <2>1. ASSUME NEW k \in Passed(l, now)
        PROVE  k \in 0 .. l.size - 1
    <3>1. PICK x \in 0 .. now - l.time_last_exe : k = Wrap(l.size, l.off_last_exe + x)
      BY <1>2
    <3>2. QED
      BY <1>1, <3>1 DEF Wrap
  <2>2. QED
    BY <2>1
<1>4. ASSUME NEW t \in Planned(l) \ l.imm
      PROVE  At(l, t) \in Passed(l, now) <=> l.due[t] <= now
  <2>1. PICK y \in 0 .. l.size - 1 : y = l.due[t] - l.time_last_exe
    <3>1. l.time_last_exe < l.due[t] /\ l.due[t] < l.time_last_exe + l.size /\ l.due[t] \in Nat
      BY <1>1 DEF InPlace
    <3>2. QED
      BY <1>1, <3>1
  <2>2. At(l, t) = Wrap(l.size, l.off_last_exe + y)
    BY <2>1 DEF At, SlotOf
  <2>3. l.due[t] <= now <=> y \in 0 .. now - l.time_last_exe
    BY <1>1, <2>1
  <2>4. ASSUME At(l, t) \in Passed(l, now)
        PROVE  y \in 0 .. now - l.time_last_exe
    <3>1. PICK x \in 0 .. now - l.time_last_exe : At(l, t) = Wrap(l.size, l.off_last_exe + x)
      BY <1>2, <2>4
    <3>2. x \in 0 .. l.size - 1
      BY <1>1, <3>1
    <3>3. x = y
      BY <1>1, <2>2, <3>1, <3>2, WrapOnce
    <3>4. QED
      BY <3>3
  <2>5. ASSUME y \in 0 .. now - l.time_last_exe
        PROVE  At(l, t) \in Passed(l, now)
    BY <1>2, <2>2, <2>5
  <2>6. QED
    BY <2>3, <2>4, <2>5
<1>5. ASSUME NEW t
      PROVE  t \in Executed(l, now) <=> t \in l.imm \/ \E k \in Passed(l, now) : t \in l.slots[k]
  BY DEF Executed
<1>6. ASSUME NEW t \in Executed(l, now)
      PROVE  t \in Planned(l) /\ l.due[t] <= now
  <2>1. CASE t \in l.imm
    BY <1>1, <2>1 DEF InPlace
  <2>2. CASE t \notin l.imm
    <3>1. PICK k \in Passed(l, now) : t \in l.slots[k]
      BY <1>5, <1>6, <2>2
    <3>2. l.slots[k] = {x \in Planned(l) \ l.imm : At(l, x) = k}
      BY <1>1, <1>3 DEF InPlace
    <3>3. t \in Planned(l) \ l.imm /\ At(l, t) \in Passed(l, now)
      BY <3>1, <3>2
    <3>4. QED
      BY <1>4, <3>3
  <2>3. QED
    BY <2>1, <2>2
<1>7. ASSUME NEW t \in Planned(l), l.due[t] <= now
      PROVE  t \in Executed(l, now)
  <2>1. CASE t \in l.imm
    BY <1>5, <2>1
  <2>2. CASE t \notin l.imm
    <3>1. At(l, t) \in Passed(l, now)
      BY <1>4, <1>7, <2>2
    <3>2. l.slots[At(l, t)] = {x \in Planned(l) \ l.imm : At(l, x) = At(l, t)}
      BY <1>1, <1>3, <3>1 DEF InPlace
    <3>3. t \in l.slots[At(l, t)]
      BY <2>2, <3>2
    <3>4. QED
      BY <1>5, <3>1, <3>3
  <2>3. QED
    BY <2>1, <2>2
<1>8. QED
  BY <1>6, <1>7

LEMMA ExecIs ==
    ASSUME NEW l, NEW now \in Nat, Timely(l, now), now - l.time_last_exe < l.size,
           NEW m, m = Exec(l, now)
    PROVE  /\ Timely(m, now) /\ m.size = l.size /\ m.time_last_exe = now
           /\ m.due = DatesWithout(l, Executed(l, now))
<1>1. /\ l.size \in Nat \ {0} /\ l.off_last_exe \in 0 .. l.size - 1 /\ l.time_last_exe \in Nat
      /\ IsList(l) /\ InPlace(l, now) /\ l.time_last_exe <= now
      /\ \A t \in Planned(l) : l.due[t] \in Nat
  BY DEF Timely, IsList, InPlace
<1>2. /\ EndOff(l, now) % l.size = SlotOf(l, now) /\ SlotOf(l, now) \in 0 .. l.size - 1
      /\ \A k : k \in Passed(l, now) <=> \E x \in 0 .. now - l.time_last_exe :
                                               k = Wrap(l.size, l.off_last_exe + x)
  BY <1>1, PassedIs
<1>3. PICK E : E = Executed(l, now)
  OBVIOUS
<1>4. E = {t \in Planned(l) : l.due[t] <= now}
  BY <1>3, ExecutedIs
<1> DEFINE slots == [k \in 0 .. l.size - 1 |-> IF k \in Passed(l, now) THEN {} ELSE l.slots[k]]
           due == [t \in Planned(l) \ E |-> l.due[t]]
<1>5. DOMAIN l.slots = 0 .. l.size - 1
  <2>1. l.slots = [k \in 0 .. l.size - 1 |-> l.slots[k]]
    BY <1>1 DEF IsList
  <2>2. QED
    BY <2>1
<1>6. m = [l EXCEPT !.imm = {}, !.slots = slots, !.time_last_exe = now,
                    !.off_last_exe = SlotOf(l, now), !.due = due]
  <2>1. l = [size |-> l.size, slots |-> l.slots, imm |-> l.imm,
             time_last_exe |-> l.time_last_exe, off_last_exe |-> l.off_last_exe, due |-> l.due]
    BY <1>1 DEF IsList
  <2>2. QED
    BY <1>2, <1>3, <1>5, <2>1 DEF Exec
<1>7. /\ m = [size |-> m.size, slots |-> m.slots, imm |-> m.imm,
               time_last_exe |-> m.time_last_exe, off_last_exe |-> m.off_last_exe, due |-> m.due]
      /\ m.size = l.size /\ m.slots = slots /\ m.imm = {} /\ m.time_last_exe = now
      /\ m.off_last_exe = SlotOf(l, now) /\ m.due = due
  <2>1. l = [size |-> l.size, slots |-> l.slots, imm |-> l.imm,
             time_last_exe |-> l.time_last_exe, off_last_exe |-> l.off_last_exe, due |-> l.due]
    BY <1>1 DEF IsList
  <2> HIDE DEF slots, due
  <2>2. m = [size |-> l.size, slots |-> slots, imm |-> {}, time_last_exe |-> now,
             off_last_exe |-> SlotOf(l, now), due |-> due]
    BY <1>6, <2>1
  <2>3. QED
    BY <2>2
<1>8. Planned(m) = Planned(l) \ E
  BY <1>7 DEF Planned
<1>9. /\ \A t \in Planned(m) : m.due[t] = l.due[t]
      /\ \A k \in 0 .. l.size - 1 : m.slots[k] = IF k \in Passed(l, now) THEN {} ELSE l.slots[k]
  BY <1>7, <1>8
<1>10. m.due = [t \in Planned(m) |-> m.due[t]]
  BY <1>7, <1>8
<1>11. m.slots = [k \in 0 .. m.size - 1 |-> m.slots[k]]
  BY <1>7
<1>12. m.due = DatesWithout(l, Executed(l, now))
  BY <1>3, <1>7 DEF DatesWithout
<1> HIDE DEF slots, due
<1>13. \A t \in Planned(m) : m.due[t] \in Nat
  BY <1>1, <1>8, <1>9
<1>14. IsList(m)
  BY <1>1, <1>2, <1>7, <1>10, <1>11, <1>13 DEF IsList
<1>15. ASSUME NEW t \in Planned(m)
       PROVE  /\ t \in Planned(l) \ l.imm /\ m.due[t] = l.due[t] /\ now < l.due[t]
              /\ l.due[t] < l.time_last_exe + l.size
  <2>1. t \in Planned(l) /\ now < l.due[t] /\ m.due[t] = l.due[t]
    BY <1>1, <1>4, <1>8, <1>9
  <2>2. t \notin l.imm
    BY <1>1, <2>1 DEF InPlace
  <2>3. QED
    BY <1>1, <2>1, <2>2 DEF InPlace
<1>16. ASSUME NEW t \in Planned(m)
       PROVE  At(m, t) = At(l, t) /\ At(l, t) \notin Passed(l, now)
  <2>1. PICK x \in 0 .. l.size - 1 : x = now - l.time_last_exe
    BY <1>1
  <2>2. PICK y \in 0 .. l.size - 1 : y = l.due[t] - now
    BY <1>1, <1>15
  <2>3. x + y < l.size /\ x + y = l.due[t] - l.time_last_exe /\ 0 < y
    BY <1>1, <1>15, <2>1, <2>2
  <2>4. SlotOf(l, now) = Wrap(l.size, l.off_last_exe + x)
    BY <1>1, <2>1 DEF SlotOf
  <2>5. At(m, t) = Wrap(l.size, Wrap(l.size, l.off_last_exe + x) + y)
    BY <1>7, <1>15, <2>2, <2>4 DEF At, SlotOf
  <2>6. At(l, t) = Wrap(l.size, l.off_last_exe + (x + y))
    BY <2>3 DEF At, SlotOf
  <2>7. At(m, t) = At(l, t)
    BY <1>1, <2>3, <2>5, <2>6, WrapTwice
  <2>8. ASSUME At(l, t) \in Passed(l, now)
        PROVE  FALSE
    <3>1. PICK z \in 0 .. now - l.time_last_exe : At(l, t) = Wrap(l.size, l.off_last_exe + z)
      BY <1>2, <2>8
    <3>2. z \in 0 .. l.size - 1 /\ x + y \in 0 .. l.size - 1 /\ z # x + y
      BY <1>1, <2>1, <2>3, <3>1
    <3>3. QED
      BY <1>1, <2>6, <3>1, <3>2, WrapOnce
  <2>9. QED
    BY <2>7, <2>8
<1>17. ASSUME NEW k \in 0 .. m.size - 1
       PROVE  m.slots[k] = {t \in Planned(m) \ m.imm : At(m, t) = k}
  <2>1. l.slots[k] = {t \in Planned(l) \ l.imm : At(l, t) = k}
    BY <1>1, <1>7 DEF InPlace
  <2>2. m.slots[k] = IF k \in Passed(l, now) THEN {} ELSE l.slots[k]
    BY <1>7, <1>9
  <2>3. CASE k \in Passed(l, now)
    BY <1>16, <2>2, <2>3
  <2>4. CASE k \notin Passed(l, now)
    <3>1. m.slots[k] = {t \in Planned(l) \ l.imm : At(l, t) = k}
      BY <2>1, <2>2, <2>4
    <3>2. ASSUME NEW t \in Planned(l) \ l.imm, At(l, t) = k
          PROVE  t \in Planned(m)
      <4>1. t \notin E
        <5>1. CASE l.due[t] <= now
          <6>1. l.time_last_exe < l.due[t] /\ l.due[t] \in Nat
            BY <1>1 DEF InPlace
          <6>2. l.due[t] - l.time_last_exe \in 0 .. now - l.time_last_exe
            BY <1>1, <5>1, <6>1
          <6>3. At(l, t) \in Passed(l, now)
            BY <1>2, <6>2 DEF At, SlotOf
          <6>4. QED
            BY <2>4, <3>2, <6>3
        <5>2. CASE ~(l.due[t] <= now)
          BY <1>4, <5>2
        <5>3. QED
          BY <5>1, <5>2
      <4>2. QED
        BY <1>8, <4>1
    <3>3. ASSUME NEW t \in Planned(m)
          PROVE  t \in Planned(l) \ l.imm /\ At(m, t) = At(l, t)
      BY <1>15, <1>16
    <3>4. m.imm = {}
      BY <1>7
    <3>5. QED
      BY <3>1, <3>2, <3>3, <3>4
  <2>5. QED
    BY <2>3, <2>4
<1>18. InPlace(m, now)
  <2>1. \A t \in Planned(m) \ m.imm : m.time_last_exe < m.due[t] /\ m.due[t] < m.time_last_exe + m.size
    BY <1>1, <1>7, <1>15
  <2>2. m.time_last_exe <= now /\ m.imm \subseteq Planned(m) /\ \A t \in m.imm : m.due[t] <= now
    BY <1>7
  <2>3. QED
    BY <1>17, <2>1, <2>2 DEF InPlace
<1>19. QED
  BY <1>7, <1>12, <1>14, <1>18 DEF Timely

LEMMA NewIs ==
    ASSUME NEW size \in Nat \ {0}, NEW now \in Nat, NEW l, l = NewTaskList(size, now)
    PROVE  Timely(l, now) /\ l.size = size /\ l.time_last_exe = now /\ l.due = [t \in {} |-> 0]
<1>1. /\ l.size = size /\ l.slots = [k \in 0 .. size - 1 |-> {}] /\ l.imm = {}
      /\ l.time_last_exe = now /\ l.off_last_exe = 0 /\ l.due = [t \in {} |-> 0]
      /\ l = [size |-> l.size, slots |-> l.slots, imm |-> l.imm,
              time_last_exe |-> l.time_last_exe, off_last_exe |-> l.off_last_exe, due |-> l.due]
  BY DEF NewTaskList
<1>2. Planned(l) = {}
  BY <1>1 DEF Planned
<1>3. l.due = [t \in Planned(l) |-> l.due[t]] /\ l.slots = [k \in 0 .. l.size - 1 |-> l.slots[k]]
  BY <1>1, <1>2
<1>4. 0 \in 0 .. l.size - 1
  BY <1>1
<1>5. IsList(l)
  BY <1>1, <1>2, <1>3, <1>4 DEF IsList
<1>6. InPlace(l, now)
  BY <1>1, <1>2 DEF InPlace
<1>7. QED
  BY <1>1, <1>5, <1>6 DEF Timely

\* A list stays as it is while the time passes.
LEMMA LaterTimely ==
    ASSUME NEW l, NEW now \in Nat, Timely(l, now), NEW later \in Nat, now <= later
    PROVE  Timely(l, later)
<1>1. IsList(l) /\ InPlace(l, now) /\ l.time_last_exe \in Nat /\ \A t \in Planned(l) : l.due[t] \in Nat
  BY DEF Timely, IsList
<1>2. /\ l.time_last_exe <= later /\ l.imm \subseteq Planned(l)
      /\ \A t \in l.imm : l.due[t] <= later
  BY <1>1 DEF InPlace
<1>3. InPlace(l, later)
  BY <1>1, <1>2 DEF InPlace
<1>4. QED
  BY <1>1, <1>3 DEF Timely

LEMMA TimelyFields ==
    ASSUME NEW l, NEW now \in Nat, Timely(l, now)
    PROVE  /\ IsList(l) /\ InPlace(l, now)
           /\ l.size \in Nat \ {0} /\ l.time_last_exe \in Nat /\ l.time_last_exe <= now
           /\ \A t \in Planned(l) : l.due[t] \in Nat /\ l.due[t] < now + l.size
<1>1. IsList(l) /\ InPlace(l, now)
  BY DEF Timely
<1>2. /\ l.size \in Nat \ {0} /\ l.time_last_exe \in Nat /\ l.time_last_exe <= now
      /\ \A t \in Planned(l) : l.due[t] \in Nat
  BY <1>1 DEF IsList, InPlace
<1>3. \A t \in Planned(l) : l.due[t] < now + l.size
  BY <1>1, <1>2 DEF InPlace
<1>4. QED
  BY <1>1, <1>2, <1>3

\* What DesactivateAll does to the dates.
LEMMA DesactivateDates ==
    ASSUME NEW l, NEW S, NEW now \in Nat, Timely(l, now), NEW m, m = DesactivateAll(l, S)
    PROVE  /\ Timely(m, now) /\ m.size = l.size /\ m.time_last_exe = l.time_last_exe
           /\ m.due = DatesWithout(l, S)
<1>1. IsList(l) /\ Timely(m, now)
  BY DesactivateTimely DEF Timely
<1>2. /\ IsList(m) /\ m.size = l.size /\ m.time_last_exe = l.time_last_exe
      /\ Planned(m) = Planned(l) \ S /\ \A t \in Planned(m) : m.due[t] = l.due[t]
  BY <1>1, DesactivateIs
<1>3. m.due = [t \in Planned(m) |-> m.due[t]]
  BY <1>2 DEF IsList
<1>4. QED
  BY <1>1, <1>2, <1>3 DEF DatesWithout

-----------------------------------------------------------------------------
(* TaskList: the ring does what Agenda promises.                           *)

TaskInv == /\ time \in Nat /\ Timely(list, time) /\ list.size = RingSize
           /\ time - list.time_last_exe <= MaxLate

LEMMA TaskInvInit == TaskInit => TaskInv
BY NewIs, RingAssumption DEF TaskInit, TaskInv

\* Every step keeps the invariant, and is the step of the agenda of its name.
LEMMA TaskInvNext ==
    ASSUME TaskInv, [TaskNext]_tvars
    PROVE  TaskInv' /\ [Dates!Next]_<<time, list.due, executed>>
<1> DEFINE Delays == 0 .. MaxDelay
<1>1. /\ time \in Nat /\ Timely(list, time) /\ list.size = RingSize
      /\ time - list.time_last_exe <= MaxLate
      /\ list.time_last_exe \in Nat /\ list.time_last_exe <= time
  BY TimelyFields DEF TaskInv
<1>2. RingSize \in Nat \ {0} /\ MaxDelay \in Nat /\ MaxLate \in Nat /\ MaxDelay + MaxLate < RingSize
  BY RingAssumption
<1>3. CASE Pass
  <2>1. time' = time + 1 /\ list' = list /\ executed' = executed /\ time - list.time_last_exe < MaxLate
    BY <1>3 DEF Pass
  <2>2. Timely(list, time + 1)
    BY <1>1, LaterTimely
  <2>3. TaskInv'
    BY <1>1, <1>2, <2>1, <2>2 DEF TaskInv
  <2>4. Dates!Pass
    BY <1>1, <2>1 DEF Dates!Pass
  <2>5. QED
    BY <2>3, <2>4 DEF Dates!Next
<1>4. CASE Execute
  <2>1. executed' = Executed(list, time) /\ list' = Exec(list, time) /\ time' = time
    BY <1>4 DEF Execute
  <2>2. time - list.time_last_exe < list.size
    BY <1>1, <1>2
  <2>3. /\ Timely(list', time) /\ list'.size = list.size /\ list'.time_last_exe = time
        /\ list'.due = DatesWithout(list, Executed(list, time))
    BY <1>1, <2>1, <2>2, ExecIs
  <2>4. Executed(list, time) = {t \in Planned(list) : list.due[t] <= time}
    BY <1>1, <2>2, ExecutedIs
  <2>5. TaskInv'
    BY <1>1, <1>2, <2>1, <2>3 DEF TaskInv
  <2>6. Dates!Execute
    BY <2>1, <2>3, <2>4 DEF Dates!Execute, Dates!Without, Dates!Waiting, Planned, DatesWithout
  <2>7. QED
    BY <2>5, <2>6 DEF Dates!Next
<1>5. ASSUME NEW t \in Tasks, Plan(t)
      PROVE  TaskInv' /\ [Dates!Next]_<<time, list.due, executed>>
  <2>1. PICK d \in 0 .. MaxDelay : list' = AddTask(list, t, d, time)
    BY <1>5 DEF Plan
  <2>2. time' = time /\ executed' = executed /\ d \in Nat
    BY <1>2, <1>5, <2>1 DEF Plan
  <2>3. Fits(list, d, time)
    BY <1>1, <1>2, <2>1 DEF Fits
  <2>4. /\ Timely(list', time) /\ list'.size = list.size /\ list'.time_last_exe = list.time_last_exe
        /\ list'.due = DatesWith(list, t, d, time)
    BY <1>1, <2>1, <2>2, <2>3, AddIs
  <2>5. TaskInv'
    BY <1>1, <2>2, <2>4 DEF TaskInv
  <2>6. Dates!Plan(t, d)
    BY <2>2, <2>4 DEF Dates!Plan, Dates!Waiting, Planned, DatesWith
  <2>7. QED
    BY <2>1, <2>5, <2>6 DEF Dates!Next
<1>6. ASSUME NEW t \in Tasks, Cancel(t)
      PROVE  TaskInv' /\ [Dates!Next]_<<time, list.due, executed>>
  <2>1. list' = DesactivateAll(list, {t}) /\ time' = time /\ executed' = executed
    BY <1>6 DEF Cancel, Desactivate
  <2>2. /\ Timely(list', time) /\ list'.size = list.size /\ list'.time_last_exe = list.time_last_exe
        /\ list'.due = DatesWithout(list, {t})
    BY <1>1, <2>1, DesactivateDates
  <2>3. TaskInv'
    BY <1>1, <2>1, <2>2 DEF TaskInv
  <2>4. Dates!Cancel(t)
    BY <2>1, <2>2 DEF Dates!Cancel, Dates!Without, Dates!Waiting, Planned, DatesWithout
  <2>5. QED
    BY <2>3, <2>4 DEF Dates!Next
<1>7. CASE UNCHANGED tvars
  BY <1>7 DEF tvars, TaskInv
<1>8. QED
  BY <1>3, <1>4, <1>5, <1>6, <1>7 DEF TaskNext

\* TimedTaskList::exec executes every task once, at the first execution at
\* its time or after it, and not before, whatever was planned again or
\* cancelled in between: for every ring that is longer than the longest delay
\* and the longest time between two executions together.
THEOREM RingIsAgenda == TaskSpec => ImplementsAgenda
<1>1. TaskInit => Dates!Init
  BY NewIs, RingAssumption DEF TaskInit, Dates!Init
<1>2. QED
  BY <1>1, TaskInvInit, TaskInvNext, PTL DEF TaskSpec, ImplementsAgenda, Dates!Spec

\* A list where every task is where its date says has every task in one place.
LEMMA TimelyInOneList ==
    ASSUME TaskInv
    PROVE  InOneList
<1>1. /\ IsList(list) /\ InPlace(list, time) /\ list.size \in Nat \ {0}
      /\ list.time_last_exe \in Nat /\ list.off_last_exe \in 0 .. list.size - 1
  BY DEF TaskInv, Timely, IsList
<1>2. DOMAIN list.slots = 0 .. list.size - 1
  <2>1. list.slots = [k \in 0 .. list.size - 1 |-> list.slots[k]]
    BY <1>1 DEF IsList
  <2>2. QED
    BY <2>1
<1>3. \A k \in 0 .. list.size - 1 : list.slots[k] = {t \in Planned(list) \ list.imm : At(list, t) = k}
  BY <1>1 DEF InPlace
<1>4. ASSUME NEW p \in Listed(list)
      PROVE  \/ p[2] \in list.imm /\ p = <<-1, p[2]>>
             \/ p[2] \in Planned(list) \ list.imm /\ p = <<At(list, p[2]), p[2]>>
  <2>1. CASE p \in {<<-1, t>> : t \in list.imm}
    BY <2>1
  <2>2. CASE \E k \in DOMAIN list.slots : p \in {<<k, t>> : t \in list.slots[k]}
    <3>1. PICK k \in 0 .. list.size - 1 : p \in {<<k, t>> : t \in list.slots[k]}
      BY <1>2, <2>2
    <3>2. PICK t \in list.slots[k] : p = <<k, t>>
      BY <3>1
    <3>3. t \in Planned(list) \ list.imm /\ At(list, t) = k
      BY <1>3, <3>2
    <3>4. QED
      BY <3>2, <3>3
  <2>3. QED
    BY <1>4, <2>1, <2>2 DEF Listed
<1>5. ASSUME NEW t \in Planned(list)
      PROVE  \E p \in Listed(list) : p[2] = t
  <2>1. CASE t \in list.imm
    <3>1. <<-1, t>> \in Listed(list)
      BY <2>1 DEF Listed
    <3>2. QED
      BY <3>1
  <2>2. CASE t \notin list.imm
    <3>1. list.time_last_exe < list.due[t] /\ list.due[t] < list.time_last_exe + list.size
          /\ list.due[t] \in Nat
      BY <1>1, <2>2 DEF InPlace, IsList
    <3>2. At(list, t) \in 0 .. list.size - 1
      BY <1>1, <3>1 DEF At, SlotOf, Wrap
    <3>3. t \in list.slots[At(list, t)]
      BY <1>3, <2>2, <3>2
    <3>4. <<At(list, t), t>> \in Listed(list)
      BY <1>2, <3>2, <3>3 DEF Listed
    <3>5. QED
      BY <3>4
  <2>3. QED
    BY <2>1, <2>2
<1>6. {p[2] : p \in Listed(list)} = Planned(list)
  <2>1. list.imm \subseteq Planned(list)
    BY <1>1 DEF InPlace
  <2>2. QED
    BY <1>4, <1>5, <2>1
<1>7. \A p, q \in Listed(list) : p[2] = q[2] => p = q
  BY <1>4
<1>8. QED
  BY <1>6, <1>7 DEF InOneList

\* A planned task is in one list and no other: remove() takes it out of the only
\* one that has its address, and none has the address of a task that is gone.
THEOREM PlannedInOneList == TaskSpec => []InOneList
BY TaskInvInit, TaskInvNext, TimelyInOneList, PTL DEF TaskSpec

-----------------------------------------------------------------------------
(* TrackerServer.  Its list of alive_checks is a timely list, its list of  *)
(* tokens a list of one slot: every execution takes all its tasks.         *)

OneSlot(l) == IsList(l) /\ l.size = 1 /\ l.imm \cup l.slots[0] = Planned(l)

ServerTypes == /\ clock \in Nat /\ next_hour \in Nat
               /\ status \in [Sessions -> {"none", "open", "closed", "deleted"}]
               /\ since \in [Sessions -> [closed : Int, login : Int]]
               /\ told \in [Sessions -> SUBSET (Inodes \X Sessions)]
               /\ connected_devs \in [Inodes -> SUBSET Sessions]
               /\ binders \in [Inodes -> SUBSET Sessions]

\* The closed sessions, and no other, have an alive_check; timer_1s is not late.
AliveChecks == /\ Timely(minute, clock) /\ minute.size = MinuteSlots
               /\ clock - minute.time_last_exe <= Late
               /\ \A s \in Sessions : status[s] = "closed" <=> s \in Planned(minute)
               /\ \A s \in Planned(minute) : /\ minute.time_last_exe < minute.due[s]
                                             /\ minute.due[s] = since[s].closed + AliveDelay

\* The tokens have a task, and were made after the last timer_1h but one.
EndsOfTokens == /\ OneSlot(fifteen_days) /\ fifteen_days.time_last_exe <= Div(Hour)
                /\ clock <= next_hour + Late /\ next_hour <= clock + Hour
                /\ token_to_usr_id \subseteq Planned(fifteen_days)
                /\ \A s \in token_to_usr_id : next_hour <= since[s].login + Hour

\* A connected client that has bound an object is in its devices.
BindersListed == \A o \in Inodes : /\ binders[o] \subseteq logged
                                   /\ binders[o] \cap sessions \cap Connected \subseteq connected_devs[o]

ServerInv == /\ ServerTypes /\ NothingOfTheDead /\ AliveChecks /\ EndsOfTokens
             /\ BindersListed /\ PeersKnow

LEMMA OneSlotWithout ==
    ASSUME NEW l, NEW S, OneSlot(l), NEW m, m = DesactivateAll(l, S)
    PROVE  OneSlot(m) /\ m.time_last_exe = l.time_last_exe /\ Planned(m) = Planned(l) \ S
<1>1. IsList(l) /\ l.size = 1 /\ l.imm \cup l.slots[0] = Planned(l)
  BY DEF OneSlot
<1>2. /\ IsList(m) /\ m.size = l.size /\ m.imm = l.imm \ S /\ m.time_last_exe = l.time_last_exe
      /\ \A k \in 0 .. l.size - 1 : m.slots[k] = l.slots[k] \ S
      /\ Planned(m) = Planned(l) \ S
  BY <1>1, DesactivateIs
<1>3. m.slots[0] = l.slots[0] \ S
  <2>1. 0 \in 0 .. l.size - 1
    BY <1>1
  <2>2. QED
    BY <1>2, <2>1
<1>4. m.imm \cup m.slots[0] = Planned(m)
  BY <1>1, <1>2, <1>3
<1>5. QED
  BY <1>1, <1>2, <1>4 DEF OneSlot

LEMMA OneSlotAdd ==
    ASSUME NEW l, NEW t, NEW delay \in Nat, NEW now \in Nat, OneSlot(l), l.time_last_exe <= now,
           NEW m, m = AddTask(l, t, delay, now)
    PROVE  OneSlot(m) /\ m.time_last_exe = l.time_last_exe /\ Planned(m) = Planned(l) \cup {t}
<1>1. CASE t \in Planned(l) /\ l.due[t] < now + delay
  <2>1. m = l /\ Planned(l) \cup {t} = Planned(l)
    BY <1>1 DEF AddTask
  <2>2. QED
    BY <2>1
<1>2. CASE ~(t \in Planned(l) /\ l.due[t] < now + delay)
  <2>1. PICK n : n = DesactivateAll(l, {t})
    OBVIOUS
  <2>2. OneSlot(n) /\ n.time_last_exe = l.time_last_exe /\ Planned(n) = Planned(l) \ {t}
    BY <2>1, OneSlotWithout
  <2>3. /\ IsList(n) /\ n.size = 1 /\ n.off_last_exe = 0 /\ n.time_last_exe \in Nat
        /\ n.imm \cup n.slots[0] = Planned(n)
    BY <2>2 DEF OneSlot, IsList
  <2>4. m = PushBack(n, t, delay, now)
    BY <1>2, <2>1 DEF AddTask, Desactivate
  <2>5. Slot(n, delay, now) = 0
    <3>1. PICK x \in Nat : x = now + delay - n.time_last_exe
      BY <2>2, <2>3
    <3>2. Least(x, n.size - 1) = 0
      BY <2>3, <3>1 DEF Least
    <3>3. QED
      BY <2>3, <3>1, <3>2 DEF Slot
  <2>6. Slot(n, delay, now) \in 0 .. n.size - 1
    BY <2>3, <2>5
  <2>7. IsList(m) /\ Pushed(n, t, delay, now, m)
    BY <2>3, <2>4, <2>6, PushIs
  <2>8. /\ m.size = n.size /\ m.time_last_exe = n.time_last_exe
        /\ Planned(m) = Planned(n) \cup {t}
        /\ m.imm = IF delay = 0 THEN n.imm \cup {t} ELSE n.imm
        /\ m.slots[0] = IF delay # 0 THEN n.slots[0] \cup {t} ELSE n.slots[0]
    <3>1. 0 \in 0 .. n.size - 1
      BY <2>3
    <3>2. QED
      BY <2>5, <2>7, <3>1 DEF Pushed
  <2>9. m.imm \cup m.slots[0] = Planned(m)
    BY <2>3, <2>8
  <2>10. QED
    BY <2>2, <2>3, <2>7, <2>8, <2>9 DEF OneSlot
<1>3. QED
  BY <1>1, <1>2

\* Every execution of a list of one slot takes all its tasks.
LEMMA OneSlotExec ==
    ASSUME NEW l, NEW now \in Nat, OneSlot(l), l.time_last_exe <= now, NEW m, m = Exec(l, now)
    PROVE  /\ Executed(l, now) = Planned(l)
           /\ OneSlot(m) /\ m.time_last_exe = now /\ Planned(m) = {}
<1>1. /\ IsList(l) /\ l.size = 1 /\ l.imm \cup l.slots[0] = Planned(l)
      /\ l.off_last_exe = 0 /\ l.time_last_exe \in Nat
  BY DEF OneSlot, IsList
<1>2. EndOff(l, now) = 0
  <2>1. PICK x \in Nat : x = now - l.time_last_exe
    BY <1>1
  <2>2. Least(x, l.size - 1) = 0
    BY <1>1, <2>1 DEF Least
  <2>3. QED
    BY <1>1, <2>1, <2>2 DEF EndOff
<1>3. Passed(l, now) = {0}
  <2>1. Passed(l, now) = {off % l.size : off \in 0 .. 0}
    BY <1>1, <1>2 DEF Passed
  <2>2. 0 .. 0 = {0} /\ 0 % l.size = 0
    BY <1>1
  <2>3. QED
    BY <2>1, <2>2
<1>4. Executed(l, now) = Planned(l)
  BY <1>1, <1>3 DEF Executed
<1> DEFINE slots == [k \in {0} |-> {}]
           due == [x \in {} |-> l.due[x]]
<1>5. m = [size |-> 1, slots |-> slots, imm |-> {}, time_last_exe |-> now,
           off_last_exe |-> 0, due |-> due]
  <2>1. l = [size |-> l.size, slots |-> l.slots, imm |-> l.imm,
             time_last_exe |-> l.time_last_exe, off_last_exe |-> l.off_last_exe, due |-> l.due]
    BY <1>1 DEF IsList
  <2>2. DOMAIN l.slots = {0}
    <3>1. l.slots = [k \in 0 .. l.size - 1 |-> l.slots[k]]
      BY <1>1 DEF IsList
    <3>2. 0 .. l.size - 1 = {0}
      BY <1>1
    <3>3. QED
      BY <3>1, <3>2
  <2>3. Planned(l) \ Executed(l, now) = {}
    BY <1>4
  <2>4. [k \in DOMAIN l.slots |-> IF k \in Passed(l, now) THEN {} ELSE l.slots[k]] = slots
    BY <1>3, <2>2
  <2>5. [x \in Planned(l) \ Executed(l, now) |-> l.due[x]] = due
    BY <2>3
  <2>6. EndOff(l, now) % l.size = 0
    BY <1>1, <1>2
  <2>7. m = [l EXCEPT !.imm = {}, !.slots = slots, !.time_last_exe = now, !.off_last_exe = 0,
                      !.due = due]
    BY <2>1, <2>4, <2>5, <2>6 DEF Exec
  <2> HIDE DEF slots, due
  <2>8. QED
    BY <1>1, <2>1, <2>7
<1>6. /\ m = [size |-> m.size, slots |-> m.slots, imm |-> m.imm,
              time_last_exe |-> m.time_last_exe, off_last_exe |-> m.off_last_exe, due |-> m.due]
      /\ m.size = 1 /\ m.slots = slots /\ m.imm = {} /\ m.time_last_exe = now
      /\ m.off_last_exe = 0 /\ m.due = due
  <2> HIDE DEF slots, due
  <2>1. QED
    BY <1>5
<1>7. Planned(m) = {} /\ m.slots[0] = {}
  BY <1>6 DEF Planned
<1>8. m.due = [x \in Planned(m) |-> m.due[x]]
  BY <1>6, <1>7
<1>9. m.slots = [k \in 0 .. m.size - 1 |-> m.slots[k]]
  <2>1. 0 .. m.size - 1 = {0}
    BY <1>6
  <2>2. QED
    BY <1>6, <2>1
<1>10. m.off_last_exe \in 0 .. m.size - 1
  BY <1>6
<1> HIDE DEF slots, due
<1>11. IsList(m)
  BY <1>6, <1>7, <1>8, <1>9, <1>10 DEF IsList
<1>12. QED
  BY <1>4, <1>6, <1>7, <1>11 DEF OneSlot

LEMMA ServerInvInit == ServerInit => ServerInv
<1> SUFFICES ASSUME ServerInit PROVE ServerInv
  OBVIOUS
<1>1. /\ MinuteSlots \in Nat \ {0} /\ Hour \in Nat /\ Late \in Nat
  BY ServerAssumption
<1>2. /\ Timely(minute, 0) /\ minute.size = MinuteSlots /\ minute.time_last_exe = 0
      /\ minute.due = [t \in {} |-> 0]
  BY <1>1, NewIs DEF ServerInit
<1>3. /\ Timely(fifteen_days, 0) /\ fifteen_days.size = 1 /\ fifteen_days.time_last_exe = 0
      /\ fifteen_days.due = [t \in {} |-> 0]
  BY NewIs DEF ServerInit, FifteenDaysSlots
<1>4. Planned(minute) = {} /\ Planned(fifteen_days) = {}
  BY <1>2, <1>3 DEF Planned
<1>5. fifteen_days.imm = {} /\ fifteen_days.slots[0] = {}
  <2>1. /\ fifteen_days.imm \subseteq Planned(fifteen_days)
        /\ \A k \in 0 .. fifteen_days.size - 1 :
              fifteen_days.slots[k] = {t \in Planned(fifteen_days) \ fifteen_days.imm : At(fifteen_days, t) = k}
    BY <1>3 DEF Timely, InPlace
  <2>2. 0 \in 0 .. fifteen_days.size - 1
    BY <1>3
  <2>3. QED
    BY <1>4, <2>1, <2>2
<1>6. OneSlot(fifteen_days)
  BY <1>3, <1>4, <1>5 DEF OneSlot, Timely
<1>7. /\ clock = 0 /\ status = [s \in Sessions |-> "none"] /\ next_hour = Hour
      /\ logged = {} /\ sessions = {} /\ sessions_to_del = {} /\ token_to_usr_id = {}
      /\ connected_devs = [o \in Inodes |-> {}] /\ told = [s \in Sessions |-> {}]
      /\ binders = [o \in Inodes |-> {}] /\ returned = {}
      /\ since = [s \in Sessions |-> [closed |-> -1, login |-> -1]]
  BY DEF ServerInit, NotYet
<1>8. ServerTypes
  BY <1>1, <1>7 DEF ServerTypes
<1>9. NothingOfTheDead
  BY <1>4, <1>7 DEF NothingOfTheDead
<1>10. AliveChecks
  BY <1>1, <1>2, <1>4, <1>7 DEF AliveChecks
<1>11. EndsOfTokens
  BY <1>1, <1>3, <1>6, <1>7 DEF EndsOfTokens, Div
<1>12. BindersListed /\ PeersKnow
  BY <1>7 DEF BindersListed, PeersKnow
<1>13. QED
  BY <1>8, <1>9, <1>10, <1>11, <1>12 DEF ServerInv

\* What timer_1s does: it deletes the sessions whose client has logged out and
\* those whose alive_check has come.
LEMMA Timer1sIs ==
    ASSUME ServerInv, Timer1s,
           NEW E, E = Executed(minute, clock), NEW S, S = sessions_to_del \cup E
    PROVE  /\ \A s : s \in E <=> s \in Planned(minute) /\ minute.due[s] <= clock
           /\ S \subseteq Living
           /\ status' = [s \in Sessions |-> IF s \in S THEN "deleted" ELSE status[s]]
           /\ sessions' = sessions \ E /\ sessions_to_del' = {} /\ token_to_usr_id' = token_to_usr_id \ S
           /\ Timely(minute', clock) /\ minute'.size = minute.size /\ minute'.time_last_exe = clock
           /\ Planned(minute') = Planned(minute) \ S
           /\ \A s \in Planned(minute') : minute'.due[s] = minute.due[s]
           /\ fifteen_days' = DesactivateAll(fifteen_days, S)
           /\ told' = [s \in Sessions |-> IF s \in S THEN {} ELSE told[s]]
           /\ binders' = [o \in Inodes |-> binders[o] \ S]
           /\ since' = [s \in Sessions |-> IF s \in S THEN NotYet ELSE since[s]]
           /\ UNCHANGED <<clock, logged, connected_devs, next_hour, returned>>
<1>1. /\ clock \in Nat /\ Timely(minute, clock) /\ minute.size = MinuteSlots
      /\ clock - minute.time_last_exe <= Late
  BY DEF ServerInv, ServerTypes, AliveChecks
<1>2. minute.time_last_exe \in Nat
  BY <1>1, TimelyFields
<1>3. clock - minute.time_last_exe < minute.size
  BY <1>1, <1>2, ServerAssumption
<1>4. E = {s \in Planned(minute) : minute.due[s] <= clock}
  BY <1>1, <1>3, ExecutedIs
<1>5. S \subseteq Living
  BY <1>4 DEF ServerInv, NothingOfTheDead
<1>6. Div(1) = clock
  BY <1>1 DEF Div
<1>7. /\ status' = [s \in Sessions |-> IF s \in S THEN "deleted" ELSE status[s]]
      /\ sessions' = sessions \ E /\ sessions_to_del' = {} /\ token_to_usr_id' = token_to_usr_id \ S
      /\ minute' = DesactivateAll(Exec(minute, clock), S)
      /\ fifteen_days' = DesactivateAll(fifteen_days, S)
      /\ told' = [s \in Sessions |-> IF s \in S THEN {} ELSE told[s]]
      /\ binders' = [o \in Inodes |-> binders[o] \ S]
      /\ since' = [s \in Sessions |-> IF s \in S THEN NotYet ELSE since[s]]
      /\ UNCHANGED <<clock, logged, connected_devs, next_hour, returned>>
  BY <1>6 DEF Timer1s, DeleteSessions
<1>8. PICK m : m = Exec(minute, clock)
  OBVIOUS
<1>9. /\ Timely(m, clock) /\ m.size = minute.size /\ m.time_last_exe = clock
      /\ m.due = DatesWithout(minute, E)
  BY <1>1, <1>3, <1>8, ExecIs
<1>10. /\ Timely(minute', clock) /\ minute'.size = minute.size /\ minute'.time_last_exe = clock
       /\ minute'.due = DatesWithout(m, S)
  BY <1>1, <1>7, <1>8, <1>9, DesactivateDates
<1>11. Planned(m) = Planned(minute) \ E /\ \A s \in Planned(m) : m.due[s] = minute.due[s]
  BY <1>9 DEF DatesWithout, Planned
<1>12. Planned(minute') = Planned(m) \ S /\ \A s \in Planned(minute') : minute'.due[s] = m.due[s]
  BY <1>10 DEF DatesWithout, Planned
<1>13. /\ Planned(minute') = Planned(minute) \ S
       /\ \A s \in Planned(minute') : minute'.due[s] = minute.due[s]
  BY <1>11, <1>12
<1>14. QED
  BY <1>4, <1>5, <1>7, <1>10, <1>13

\* What the end of a connection does: its session, which has no alive_check, gets one.
LEMMA ClosePlanned ==
    ASSUME ServerInv, NEW s \in Sessions, Close(s)
    PROVE  /\ Timely(minute', clock) /\ minute'.size = minute.size
           /\ minute'.time_last_exe = minute.time_last_exe
           /\ s \notin Planned(minute) /\ Planned(minute') = Planned(minute) \cup {s}
           /\ \A x \in Planned(minute') : minute'.due[x] = IF x = s THEN clock + AliveDelay ELSE minute.due[x]
<1>1. /\ clock \in Nat /\ Timely(minute, clock) /\ minute.size = MinuteSlots
      /\ clock - minute.time_last_exe <= Late /\ AliveDelay \in Nat
  BY ServerAssumption DEF ServerInv, ServerTypes, AliveChecks
<1>2. minute.time_last_exe \in Nat /\ minute.time_last_exe <= clock
  BY <1>1, TimelyFields
<1>3. Fits(minute, AliveDelay, clock)
  BY <1>1, <1>2, ServerAssumption DEF Fits
<1>4. status[s] = "open" /\ minute' = AddTask(minute, s, AliveDelay, clock)
  BY <1>1 DEF Close, Connected, Div
<1>5. /\ Timely(minute', clock) /\ minute'.size = minute.size
      /\ minute'.time_last_exe = minute.time_last_exe
      /\ minute'.due = DatesWith(minute, s, AliveDelay, clock)
  BY <1>1, <1>3, <1>4, AddIs
<1>6. s \notin Planned(minute)
  BY <1>4 DEF ServerInv, AliveChecks
<1>7. Planned(minute') = Planned(minute) \cup {s}
  BY <1>5 DEF DatesWith, Planned
<1>8. \A x \in Planned(minute') : minute'.due[x] = IF x = s THEN clock + AliveDelay ELSE minute.due[x]
  BY <1>5, <1>6, <1>7 DEF DatesWith
<1>9. QED
  BY <1>5, <1>6, <1>7, <1>8

LEMMA ServerTypesNext ==
    ASSUME ServerInv, [ServerNext]_server
    PROVE  ServerTypes'
<1>1. /\ clock \in Nat /\ next_hour \in Nat /\ Hour \in Nat
      /\ status \in [Sessions -> {"none", "open", "closed", "deleted"}]
      /\ since \in [Sessions -> [closed : Int, login : Int]]
      /\ told \in [Sessions -> SUBSET (Inodes \X Sessions)]
      /\ connected_devs \in [Inodes -> SUBSET Sessions]
      /\ binders \in [Inodes -> SUBSET Sessions]
  BY ServerAssumption DEF ServerInv, ServerTypes
<1>2. CASE Second
  BY <1>1, <1>2 DEF Second, ServerTypes
<1>3. CASE Timer1s
  <2>1. PICK E, S : E = Executed(minute, clock) /\ S = sessions_to_del \cup E
    OBVIOUS
  <2>2. /\ status' = [s \in Sessions |-> IF s \in S THEN "deleted" ELSE status[s]]
        /\ told' = [s \in Sessions |-> IF s \in S THEN {} ELSE told[s]]
        /\ binders' = [o \in Inodes |-> binders[o] \ S]
        /\ since' = [s \in Sessions |-> IF s \in S THEN NotYet ELSE since[s]]
        /\ clock' = clock /\ connected_devs' = connected_devs /\ next_hour' = next_hour
    BY <1>3, <2>1, Timer1sIs
  <2>3. NotYet \in [closed : Int, login : Int]
    BY DEF NotYet
  <2>4. since' \in [Sessions -> [closed : Int, login : Int]]
    BY <1>1, <2>2, <2>3
  <2>5. QED
    BY <1>1, <2>2, <2>4 DEF ServerTypes
<1>4. CASE Timer1h
  BY <1>1, <1>4 DEF Timer1h, ServerTypes
<1>5. ASSUME NEW s \in Sessions, Connect(s)
      PROVE  ServerTypes'
  BY <1>1, <1>5 DEF Connect, ServerTypes
<1>6. ASSUME NEW s \in Sessions, Login(s)
      PROVE  ServerTypes'
  <2>1. since' = [since EXCEPT ![s] = [since[s] EXCEPT !.login = clock]]
    BY <1>6 DEF Login
  <2>2. [since[s] EXCEPT !.login = clock] \in [closed : Int, login : Int]
    BY <1>1
  <2>3. since' \in [Sessions -> [closed : Int, login : Int]]
    BY <1>1, <2>1, <2>2
  <2>4. QED
    BY <1>1, <1>6, <2>3 DEF Login, ServerTypes
<1>7. ASSUME NEW s \in Sessions, Logout(s)
      PROVE  ServerTypes'
  BY <1>1, <1>7 DEF Logout, ServerTypes
<1>8. ASSUME NEW s \in Sessions, Close(s)
      PROVE  ServerTypes'
  <2>1. since' = [since EXCEPT ![s] = [since[s] EXCEPT !.closed = clock]]
    BY <1>8 DEF Close
  <2>2. [since[s] EXCEPT !.closed = clock] \in [closed : Int, login : Int]
    BY <1>1
  <2>3. since' \in [Sessions -> [closed : Int, login : Int]]
    BY <1>1, <2>1, <2>2
  <2>4. QED
    BY <1>1, <1>8, <2>3 DEF Close, ServerTypes
<1>9. ASSUME NEW s \in Sessions, NEW o \in Inodes, BindObj(s, o)
      PROVE  ServerTypes'
  <2>1. Peers(o) \subseteq Sessions
    BY <1>1 DEF Peers
  <2>2. told' \in [Sessions -> SUBSET (Inodes \X Sessions)]
    BY <1>1, <1>9, <2>1 DEF BindObj, Tell
  <2>3. QED
    BY <1>1, <1>9, <2>1, <2>2 DEF BindObj, ServerTypes
<1>10. ASSUME NEW s \in Sessions, NEW o \in Inodes, NEW bind \in BOOLEAN, LoadObj(s, o, bind)
       PROVE  ServerTypes'
  <2>1. Kept(o) \subseteq Sessions
    BY <1>1 DEF Kept, Peers
  <2>2. QED
    BY <1>1, <1>10, <2>1 DEF LoadObj, ServerTypes
<1>11. CASE UNCHANGED server
  BY <1>1, <1>11 DEF server, ServerTypes
<1>12. QED
  BY <1>2, <1>3, <1>4, <1>5, <1>6, <1>7, <1>8, <1>9, <1>10, <1>11 DEF ServerNext

LEMMA NothingOfTheDeadNext ==
    ASSUME ServerInv, [ServerNext]_server
    PROVE  NothingOfTheDead'
<1>1. /\ status \in [Sessions -> {"none", "open", "closed", "deleted"}]
      /\ sessions \subseteq (Living \cup returned) \cap logged /\ sessions_to_del \subseteq Living
      /\ sessions \cap sessions_to_del \subseteq returned /\ token_to_usr_id \subseteq Living
      /\ Planned(minute) \subseteq Living /\ Planned(fifteen_days) \subseteq Living
  BY DEF ServerInv, ServerTypes, NothingOfTheDead
<1>2. CASE Second
  BY <1>1, <1>2 DEF Second, NothingOfTheDead, Living
<1>3. CASE Timer1s
  <2>1. PICK E, S : E = Executed(minute, clock) /\ S = sessions_to_del \cup E
    OBVIOUS
  <2>2. /\ S \subseteq Living
        /\ status' = [s \in Sessions |-> IF s \in S THEN "deleted" ELSE status[s]]
        /\ sessions' = sessions \ E /\ sessions_to_del' = {} /\ token_to_usr_id' = token_to_usr_id \ S
        /\ Planned(minute') = Planned(minute) \ S /\ logged' = logged /\ returned' = returned
        /\ fifteen_days' = DesactivateAll(fifteen_days, S)
    BY <1>3, <2>1, Timer1sIs
  <2>3. Planned(fifteen_days') = Planned(fifteen_days) \ S
    BY <2>2, OneSlotWithout DEF ServerInv, EndsOfTokens
  <2>4. Living' = Living \ S
    BY <2>2 DEF Living
  <2>5. QED
    BY <1>1, <2>1, <2>2, <2>3, <2>4 DEF NothingOfTheDead
<1>4. CASE Timer1h
  <2>1. /\ token_to_usr_id' = token_to_usr_id \ Executed(fifteen_days, Div(Hour))
        /\ fifteen_days' = Exec(fifteen_days, Div(Hour))
        /\ UNCHANGED <<status, logged, sessions, sessions_to_del, minute, returned>>
    BY <1>4 DEF Timer1h
  <2>2. Div(Hour) \in Nat
    BY ServerAssumption DEF ServerInv, ServerTypes, Div
  <2>3. Planned(fifteen_days') = {}
    BY <2>1, <2>2, OneSlotExec DEF ServerInv, EndsOfTokens
  <2>4. QED
    BY <1>1, <2>1, <2>3 DEF NothingOfTheDead, Living
<1>5. ASSUME NEW s \in Sessions, Connect(s)
      PROVE  NothingOfTheDead'
  <2>1. Living \subseteq Living'
    BY <1>1, <1>5 DEF Connect, Living
  <2>2. QED
    BY <1>1, <1>5, <2>1 DEF Connect, NothingOfTheDead
<1>6. ASSUME NEW s \in Sessions, Login(s)
      PROVE  NothingOfTheDead'
  <2>1. /\ s \in Living /\ logged' = logged \cup {s}
        /\ sessions' = sessions \cup {s} /\ token_to_usr_id' = token_to_usr_id \cup {s}
        /\ returned' = returned \cup ({s} \cap sessions_to_del)
        /\ UNCHANGED <<status, sessions_to_del, minute>>
    BY <1>6 DEF Login, Living, Connected
  <2>2. Planned(fifteen_days') = Planned(fifteen_days) \cup {s}
    <3>1. Div(Hour) \in Nat /\ Day \div Hour \in Nat
      <4>1. Hour \in Nat \ {0} /\ Day \in Nat /\ clock \in Nat
        BY ServerAssumption DEF ServerInv, ServerTypes
      <4>2. clock * Hour \in Nat
        BY <4>1
      <4>3. Day \div Hour \in Nat
        BY <4>1
      <4>4. QED
        BY <4>2, <4>3 DEF Div
    <3>2. fifteen_days' = AddTask(fifteen_days, s, Day \div Hour, Div(Hour))
      BY <1>6 DEF Login, EndOfToken
    <3>3. QED
      BY <3>1, <3>2, OneSlotAdd DEF ServerInv, EndsOfTokens
  <2>3. Living' = Living
    BY <2>1 DEF Living
  <2>4. QED
    BY <1>1, <2>1, <2>2, <2>3 DEF NothingOfTheDead
<1>7. ASSUME NEW s \in Sessions, Logout(s)
      PROVE  NothingOfTheDead'
  BY <1>1, <1>7 DEF Logout, NothingOfTheDead, Living, Connected
<1>8. ASSUME NEW s \in Sessions, Close(s)
      PROVE  NothingOfTheDead'
  <2>1. Planned(minute') = Planned(minute) \cup {s}
    BY <1>8, ClosePlanned
  <2>2. Living' = Living /\ s \in Living
    BY <1>1, <1>8 DEF Close, Living, Connected
  <2>3. QED
    BY <1>1, <1>8, <2>1, <2>2 DEF Close, NothingOfTheDead
<1>9. ASSUME NEW s \in Sessions, NEW o \in Inodes, BindObj(s, o)
      PROVE  NothingOfTheDead'
  BY <1>1, <1>9 DEF BindObj, NothingOfTheDead, Living
<1>10. ASSUME NEW s \in Sessions, NEW o \in Inodes, NEW bind \in BOOLEAN, LoadObj(s, o, bind)
       PROVE  NothingOfTheDead'
  BY <1>1, <1>10 DEF LoadObj, NothingOfTheDead, Living
<1>11. CASE UNCHANGED server
  BY <1>1, <1>11 DEF server, NothingOfTheDead, Living
<1>12. QED
  BY <1>2, <1>3, <1>4, <1>5, <1>6, <1>7, <1>8, <1>9, <1>10, <1>11 DEF ServerNext

LEMMA AliveChecksNext ==
    ASSUME ServerInv, [ServerNext]_server
    PROVE  AliveChecks'
<1>1. /\ clock \in Nat /\ Timely(minute, clock) /\ minute.size = MinuteSlots
      /\ clock - minute.time_last_exe <= Late
      /\ \A s \in Sessions : status[s] = "closed" <=> s \in Planned(minute)
      /\ \A s \in Planned(minute) : /\ minute.time_last_exe < minute.due[s]
                                    /\ minute.due[s] = since[s].closed + AliveDelay
      /\ status \in [Sessions -> {"none", "open", "closed", "deleted"}]
      /\ since \in [Sessions -> [closed : Int, login : Int]]
      /\ Planned(minute) \subseteq Sessions
  BY DEF ServerInv, ServerTypes, AliveChecks, NothingOfTheDead, Living
<1>2. /\ minute.time_last_exe \in Nat /\ minute.time_last_exe <= clock
      /\ \A s \in Planned(minute) : minute.due[s] \in Nat
  BY <1>1, TimelyFields
<1>3. Late \in Nat \ {0} /\ AliveDelay \in Nat \ {0}
  BY ServerAssumption
<1>4. ASSUME UNCHANGED <<clock, minute>>,
             \A s \in Sessions : status'[s] = "closed" <=> status[s] = "closed",
             \A s \in Planned(minute) : since'[s].closed = since[s].closed
      PROVE  AliveChecks'
  <2>1. \A s \in Planned(minute) : minute.due[s] = since'[s].closed + AliveDelay
    BY <1>1, <1>4
  <2>2. QED
    BY <1>1, <1>4, <2>1 DEF AliveChecks
<1>5. CASE Second
  <2>1. PICK c \in Nat : c = clock + 1
    BY <1>1
  <2>2. /\ clock' = c /\ clock - minute.time_last_exe < Late
        /\ minute' = minute /\ status' = status /\ since' = since
    BY <1>5, <2>1 DEF Second
  <2>3. clock <= c /\ c - minute.time_last_exe <= Late
    BY <1>1, <1>2, <1>3, <2>1, <2>2
  <2>4. Timely(minute, c)
    BY <1>1, <2>3, LaterTimely
  <2>5. Timely(minute', clock')
    BY <2>2, <2>4
  <2>6. clock' - minute'.time_last_exe <= Late
    BY <2>2, <2>3
  <2>7. /\ \A s \in Sessions : status'[s] = "closed" <=> s \in Planned(minute')
        /\ \A s \in Planned(minute') : /\ minute'.time_last_exe < minute'.due[s]
                                       /\ minute'.due[s] = since'[s].closed + AliveDelay
    BY <1>1, <2>2
  <2>8. minute'.size = MinuteSlots
    BY <1>1, <2>2
  <2>9. QED
    BY <2>5, <2>6, <2>7, <2>8 DEF AliveChecks
<1>6. CASE Timer1s
  <2>1. PICK E, S : E = Executed(minute, clock) /\ S = sessions_to_del \cup E
    OBVIOUS
  <2>2. /\ \A s : s \in E <=> s \in Planned(minute) /\ minute.due[s] <= clock
        /\ status' = [s \in Sessions |-> IF s \in S THEN "deleted" ELSE status[s]]
        /\ Timely(minute', clock) /\ minute'.size = minute.size /\ minute'.time_last_exe = clock
        /\ Planned(minute') = Planned(minute) \ S
        /\ \A s \in Planned(minute') : minute'.due[s] = minute.due[s]
        /\ since' = [s \in Sessions |-> IF s \in S THEN NotYet ELSE since[s]]
        /\ clock' = clock
    BY <1>6, <2>1, Timer1sIs
  <2>3. \A s \in Sessions : status'[s] = "closed" <=> s \in Planned(minute')
    BY <1>1, <2>2
  <2>4. ASSUME NEW s \in Planned(minute')
        PROVE  minute'.time_last_exe < minute'.due[s] /\ minute'.due[s] = since'[s].closed + AliveDelay
    <3>1. s \in Planned(minute) /\ s \notin S /\ s \notin E /\ s \in Sessions
      BY <1>1, <2>1, <2>2
    <3>2. minute'.due[s] = minute.due[s] /\ since'[s] = since[s]
      BY <2>2, <3>1
    <3>3. clock < minute.due[s]
      BY <1>1, <1>2, <2>2, <3>1
    <3>4. QED
      BY <1>1, <2>2, <3>1, <3>2, <3>3
  <2>5. clock' - minute'.time_last_exe <= Late
    BY <1>1, <1>3, <2>2
  <2>6. QED
    BY <1>1, <2>2, <2>3, <2>4, <2>5 DEF AliveChecks
<1>7. CASE Timer1h
  BY <1>4, <1>7 DEF Timer1h
<1>8. ASSUME NEW s \in Sessions, Connect(s)
      PROVE  AliveChecks'
  BY <1>1, <1>4, <1>8 DEF Connect
<1>9. ASSUME NEW s \in Sessions, Login(s)
      PROVE  AliveChecks'
  <2>1. since' = [since EXCEPT ![s] = [since[s] EXCEPT !.login = clock]]
    BY <1>9 DEF Login
  <2>2. \A x \in Planned(minute) : since'[x].closed = since[x].closed
    BY <1>1, <2>1
  <2>3. QED
    BY <1>4, <1>9, <2>2 DEF Login
<1>10. ASSUME NEW s \in Sessions, Logout(s)
       PROVE  AliveChecks'
  BY <1>4, <1>10 DEF Logout
<1>11. ASSUME NEW s \in Sessions, Close(s)
       PROVE  AliveChecks'
  <2>1. /\ Timely(minute', clock) /\ minute'.size = minute.size
        /\ minute'.time_last_exe = minute.time_last_exe
        /\ s \notin Planned(minute) /\ Planned(minute') = Planned(minute) \cup {s}
        /\ \A x \in Planned(minute') : minute'.due[x] = IF x = s THEN clock + AliveDelay ELSE minute.due[x]
    BY <1>11, ClosePlanned
  <2>2. /\ status' = [status EXCEPT ![s] = "closed"] /\ clock' = clock
        /\ since' = [since EXCEPT ![s] = [since[s] EXCEPT !.closed = clock]]
    BY <1>11 DEF Close
  <2>3. \A x \in Sessions : status'[x] = "closed" <=> x \in Planned(minute')
    BY <1>1, <2>1, <2>2
  <2>4. ASSUME NEW x \in Planned(minute')
        PROVE  minute'.time_last_exe < minute'.due[x] /\ minute'.due[x] = since'[x].closed + AliveDelay
    <3>1. CASE x = s
      <4>1. since'[s].closed = clock
        BY <1>1, <2>2
      <4>2. QED
        BY <1>1, <1>2, <1>3, <2>1, <3>1, <4>1
    <3>2. CASE x # s
      <4>1. x \in Planned(minute) /\ since'[x] = since[x]
        BY <1>1, <2>1, <2>2, <3>2
      <4>2. QED
        BY <1>1, <2>1, <3>2, <4>1
    <3>3. QED
      BY <3>1, <3>2
  <2>5. QED
    BY <1>1, <2>1, <2>2, <2>3, <2>4 DEF AliveChecks
<1>12. ASSUME NEW s \in Sessions, NEW o \in Inodes, BindObj(s, o)
       PROVE  AliveChecks'
  BY <1>4, <1>12 DEF BindObj
<1>13. ASSUME NEW s \in Sessions, NEW o \in Inodes, NEW bind \in BOOLEAN, LoadObj(s, o, bind)
       PROVE  AliveChecks'
  BY <1>4, <1>13 DEF LoadObj
<1>14. CASE UNCHANGED server
  BY <1>4, <1>14 DEF server
<1>15. QED
  BY <1>5, <1>6, <1>7, <1>8, <1>9, <1>10, <1>11, <1>12, <1>13, <1>14 DEF ServerNext

LEMMA EndsOfTokensNext ==
    ASSUME ServerInv, [ServerNext]_server
    PROVE  EndsOfTokens'
<1>1. /\ clock \in Nat /\ next_hour \in Nat
      /\ OneSlot(fifteen_days) /\ fifteen_days.time_last_exe <= Div(Hour)
      /\ clock <= next_hour + Late /\ next_hour <= clock + Hour
      /\ token_to_usr_id \subseteq Planned(fifteen_days)
      /\ \A s \in token_to_usr_id : next_hour <= since[s].login + Hour
      /\ since \in [Sessions -> [closed : Int, login : Int]]
      /\ token_to_usr_id \subseteq Sessions
  BY DEF ServerInv, ServerTypes, EndsOfTokens, NothingOfTheDead, Living
<1>2. Hour \in Nat \ {0} /\ Late \in Nat \ {0} /\ Day \in Nat
  BY ServerAssumption
<1>3. Div(Hour) \in Nat /\ Div(Hour) = clock * Hour /\ fifteen_days.time_last_exe \in Nat
  BY <1>1, <1>2 DEF Div, OneSlot, IsList
<1>4. ASSUME UNCHANGED <<clock, next_hour, token_to_usr_id, fifteen_days>>,
             \A s \in token_to_usr_id : since'[s].login = since[s].login
      PROVE  EndsOfTokens'
  BY <1>1, <1>4 DEF EndsOfTokens, Div
<1>5. CASE Second
  <2>1. /\ clock' = clock + 1 /\ clock < next_hour + Late
        /\ UNCHANGED <<next_hour, token_to_usr_id, fifteen_days, since>>
    BY <1>5 DEF Second
  <2>2. clock' * Hour = clock * Hour + Hour
    BY <1>1, <1>2, <2>1
  <2>3. fifteen_days.time_last_exe <= clock' * Hour
    BY <1>1, <1>2, <1>3, <2>2
  <2>4. clock' <= next_hour + Late /\ next_hour <= clock' + Hour
    BY <1>1, <1>2, <2>1
  <2>5. QED
    BY <1>1, <2>1, <2>3, <2>4 DEF EndsOfTokens, Div
<1>6. CASE Timer1s
  <2>1. PICK E, S : E = Executed(minute, clock) /\ S = sessions_to_del \cup E
    OBVIOUS
  <2>2. /\ token_to_usr_id' = token_to_usr_id \ S
        /\ fifteen_days' = DesactivateAll(fifteen_days, S)
        /\ since' = [s \in Sessions |-> IF s \in S THEN NotYet ELSE since[s]]
        /\ UNCHANGED <<clock, next_hour>>
    BY <1>6, <2>1, Timer1sIs
  <2>3. /\ OneSlot(fifteen_days') /\ fifteen_days'.time_last_exe = fifteen_days.time_last_exe
        /\ Planned(fifteen_days') = Planned(fifteen_days) \ S
    BY <1>1, <2>2, OneSlotWithout
  <2>4. \A s \in token_to_usr_id' : since'[s].login = since[s].login /\ s \in token_to_usr_id
    BY <1>1, <2>2
  <2>5. QED
    BY <1>1, <2>2, <2>3, <2>4 DEF EndsOfTokens, Div
<1>7. CASE Timer1h
  <2>1. /\ clock >= next_hour /\ next_hour' = next_hour + Hour
        /\ token_to_usr_id' = token_to_usr_id \ Executed(fifteen_days, Div(Hour))
        /\ fifteen_days' = Exec(fifteen_days, Div(Hour)) /\ UNCHANGED <<clock, since>>
    BY <1>7 DEF Timer1h
  <2>2. /\ Executed(fifteen_days, Div(Hour)) = Planned(fifteen_days)
        /\ OneSlot(fifteen_days') /\ fifteen_days'.time_last_exe = Div(Hour)
    BY <1>1, <1>3, <2>1, OneSlotExec
  <2>3. token_to_usr_id' = {}
    BY <1>1, <2>1, <2>2
  <2>4. clock' <= next_hour' + Late /\ next_hour' <= clock' + Hour
    BY <1>1, <1>2, <2>1
  <2>5. fifteen_days'.time_last_exe <= clock' * Hour
    BY <1>3, <2>1, <2>2
  <2>6. QED
    BY <2>2, <2>3, <2>4, <2>5 DEF EndsOfTokens, Div
<1>8. ASSUME NEW s \in Sessions, Connect(s)
      PROVE  EndsOfTokens'
  BY <1>4, <1>8 DEF Connect
<1>9. ASSUME NEW s \in Sessions, Login(s)
      PROVE  EndsOfTokens'
  <2>1. /\ since' = [since EXCEPT ![s] = [since[s] EXCEPT !.login = clock]]
        /\ token_to_usr_id' = token_to_usr_id \cup {s}
        /\ fifteen_days' = AddTask(fifteen_days, s, Day \div Hour, Div(Hour))
        /\ UNCHANGED <<clock, next_hour>>
    BY <1>9 DEF Login, EndOfToken
  <2>2. PICK delay \in Nat : fifteen_days' = AddTask(fifteen_days, s, delay, Div(Hour))
    BY <1>2, <2>1
  <2>3. /\ OneSlot(fifteen_days') /\ fifteen_days'.time_last_exe = fifteen_days.time_last_exe
        /\ Planned(fifteen_days') = Planned(fifteen_days) \cup {s}
    BY <1>1, <1>3, <2>2, OneSlotAdd
  <2>4. ASSUME NEW x \in token_to_usr_id'
        PROVE  next_hour <= since'[x].login + Hour
    <3>1. CASE x = s
      <4>1. since'[s].login = clock
        BY <1>1, <2>1
      <4>2. QED
        BY <1>1, <3>1, <4>1
    <3>2. CASE x # s
      <4>1. x \in token_to_usr_id /\ since'[x] = since[x]
        BY <1>1, <2>1, <3>2
      <4>2. QED
        BY <1>1, <4>1
    <3>3. QED
      BY <3>1, <3>2
  <2>5. QED
    BY <1>1, <2>1, <2>3, <2>4 DEF EndsOfTokens, Div
<1>10. ASSUME NEW s \in Sessions, Logout(s)
       PROVE  EndsOfTokens'
  BY <1>4, <1>10 DEF Logout
<1>11. ASSUME NEW s \in Sessions, Close(s)
       PROVE  EndsOfTokens'
  <2>1. since' = [since EXCEPT ![s] = [since[s] EXCEPT !.closed = clock]]
    BY <1>11 DEF Close
  <2>2. \A x \in token_to_usr_id : since'[x].login = since[x].login
    BY <1>1, <2>1
  <2>3. QED
    BY <1>4, <1>11, <2>2 DEF Close
<1>12. ASSUME NEW s \in Sessions, NEW o \in Inodes, BindObj(s, o)
       PROVE  EndsOfTokens'
  BY <1>4, <1>12 DEF BindObj
<1>13. ASSUME NEW s \in Sessions, NEW o \in Inodes, NEW bind \in BOOLEAN, LoadObj(s, o, bind)
       PROVE  EndsOfTokens'
  BY <1>4, <1>13 DEF LoadObj
<1>14. CASE UNCHANGED server
  BY <1>4, <1>14 DEF server
<1>15. QED
  BY <1>5, <1>6, <1>7, <1>8, <1>9, <1>10, <1>11, <1>12, <1>13, <1>14 DEF ServerNext

LEMMA BindersListedNext ==
    ASSUME ServerInv, [ServerNext]_server
    PROVE  BindersListed' /\ PeersKnow'
<1>1. /\ status \in [Sessions -> {"none", "open", "closed", "deleted"}]
      /\ told \in [Sessions -> SUBSET (Inodes \X Sessions)]
      /\ connected_devs \in [Inodes -> SUBSET Sessions]
      /\ binders \in [Inodes -> SUBSET Sessions]
  BY DEF ServerInv, ServerTypes
<1>2. \A o \in Inodes, s \in Sessions :
         s \in binders[o] => s \in logged /\ (s \in sessions /\ status[s] = "open" => s \in connected_devs[o])
  BY DEF ServerInv, BindersListed, Connected
<1>3. \A o \in Inodes, s, t \in Sessions :
         (/\ s # t /\ s \in binders[o] /\ s \in sessions /\ status[s] = "open"
          /\ t \in binders[o] /\ t \in sessions /\ status[t] = "open") => <<o, t>> \in told[s]
  BY DEF ServerInv, PeersKnow, Connected
<1> DEFINE Listing == \A o \in Inodes, s \in Sessions :
                         s \in binders[o] => /\ s \in logged
                                             /\ s \in sessions /\ status[s] = "open" => s \in connected_devs[o]
           Knowing == \A o \in Inodes, s, t \in Sessions :
                         (/\ s # t /\ s \in binders[o] /\ s \in sessions /\ status[s] = "open"
                          /\ t \in binders[o] /\ t \in sessions /\ status[t] = "open") => <<o, t>> \in told[s]
<1>4. ASSUME Listing', Knowing', binders' \in [Inodes -> SUBSET Sessions]
      PROVE  BindersListed' /\ PeersKnow'
  <2>1. \A o \in Inodes : binders'[o] \subseteq Sessions
    BY <1>4
  <2>2. \A o \in Inodes : /\ binders'[o] \subseteq logged'
                          /\ binders'[o] \cap sessions' \cap Connected' \subseteq connected_devs'[o]
    BY <1>4, <2>1 DEF Connected
  <2>3. \A o \in Inodes : \A s, t \in binders'[o] \cap sessions' \cap Connected' :
           s # t => <<o, t>> \in told'[s]
    BY <1>4, <2>1 DEF Connected
  <2>4. QED
    BY <2>2, <2>3 DEF BindersListed, PeersKnow
<1>5. ASSUME UNCHANGED <<told, connected_devs, binders>>, logged \subseteq logged',
             \A s \in Sessions : s \in logged /\ s \in sessions' /\ status'[s] = "open" =>
                                 s \in sessions /\ status[s] = "open"
      PROVE  BindersListed' /\ PeersKnow'
  <2>1. Listing' /\ Knowing'
    BY <1>2, <1>3, <1>5
  <2>2. QED
    BY <1>1, <1>4, <1>5, <2>1
<1>6. CASE Second
  BY <1>5, <1>6 DEF Second
<1>7. CASE Timer1s
  <2>1. PICK E, S : E = Executed(minute, clock) /\ S = sessions_to_del \cup E
    OBVIOUS
  <2>2. /\ status' = [s \in Sessions |-> IF s \in S THEN "deleted" ELSE status[s]]
        /\ sessions' = sessions \ E
        /\ told' = [s \in Sessions |-> IF s \in S THEN {} ELSE told[s]]
        /\ binders' = [o \in Inodes |-> binders[o] \ S]
        /\ logged' = logged /\ connected_devs' = connected_devs
    BY <1>7, <2>1, Timer1sIs
  <2>3. Listing'
    BY <1>2, <2>2
  <2>4. Knowing'
    BY <1>3, <2>2
  <2>5. binders' \in [Inodes -> SUBSET Sessions]
    BY <1>1, <2>2
  <2>6. QED
    BY <1>4, <2>3, <2>4, <2>5
<1>8. CASE Timer1h
  BY <1>5, <1>8 DEF Timer1h
<1>9. ASSUME Defined, NEW s \in Sessions, Connect(s)
      PROVE  BindersListed' /\ PeersKnow'
  <2>1. status' = [status EXCEPT ![s] = "open"] /\ status[s] = "none" /\ sessions' = sessions
    BY <1>9 DEF Connect
  <2>2. s \notin sessions
    BY <1>9, <2>1 DEF Defined, Living
  <2>3. \A x \in Sessions : x \in sessions' /\ status'[x] = "open" => x \in sessions /\ status[x] = "open"
    BY <1>1, <2>1, <2>2
  <2>4. QED
    BY <1>5, <1>9, <2>3 DEF Connect
<1>10. ASSUME NEW s \in Sessions, Login(s)
       PROVE  BindersListed' /\ PeersKnow'
  BY <1>5, <1>10 DEF Login
<1>11. ASSUME NEW s \in Sessions, Logout(s)
       PROVE  BindersListed' /\ PeersKnow'
  BY <1>5, <1>11 DEF Logout
<1>12. ASSUME NEW s \in Sessions, Close(s)
       PROVE  BindersListed' /\ PeersKnow'
  <2>1. status' = [status EXCEPT ![s] = "closed"] /\ sessions' = sessions
    BY <1>12 DEF Close
  <2>2. \A x \in Sessions : x \in sessions' /\ status'[x] = "open" => x \in sessions /\ status[x] = "open"
    BY <1>1, <2>1
  <2>3. QED
    BY <1>5, <1>12, <2>2 DEF Close
<1>13. ASSUME NEW s \in Sessions, NEW o \in Inodes, BindObj(s, o)
       PROVE  BindersListed' /\ PeersKnow'
  <2>1. /\ status[s] = "open" /\ s \in logged
        /\ told' = Tell(s, o, Peers(o))
        /\ connected_devs' = [connected_devs EXCEPT ![o] = Peers(o) \cup {s}]
        /\ binders' = [binders EXCEPT ![o] = binders[o] \cup {s}]
        /\ UNCHANGED <<status, logged, sessions>>
    BY <1>13 DEF BindObj, Connected
  <2>2. \A x : x \in Peers(o) <=> x \in connected_devs[o] /\ x \in sessions
    BY DEF Peers
  <2>3. Listing'
    <3>1. ASSUME NEW i \in Inodes, NEW x \in Sessions, x \in binders'[i]
          PROVE  /\ x \in logged'
                 /\ x \in sessions' /\ status'[x] = "open" => x \in connected_devs'[i]
      <4>1. CASE i = o /\ x = s
        BY <1>1, <2>1, <4>1
      <4>2. CASE ~(i = o /\ x = s)
        <5>1. x \in binders[i]
          BY <1>1, <2>1, <3>1, <4>2
        <5>2. x \in logged /\ (x \in sessions /\ status[x] = "open" => x \in connected_devs[i])
          BY <1>2, <5>1
        <5>3. CASE i = o
          BY <1>1, <2>1, <2>2, <5>2, <5>3
        <5>4. CASE i # o
          BY <1>1, <2>1, <5>2, <5>4
        <5>5. QED
          BY <5>3, <5>4
      <4>3. QED
        BY <4>1, <4>2
    <3>2. QED
      BY <3>1
  <2>4. \A x \in Sessions : told[x] \subseteq told'[x]
    BY <1>1, <2>1 DEF Tell
  <2>5. ASSUME NEW x \in Sessions, x \in binders[o], x \in sessions, status[x] = "open", x # s
        PROVE  <<o, x>> \in told'[s] /\ <<o, s>> \in told'[x]
    <3>1. x \in Peers(o) /\ x \in Connected
      BY <1>2, <2>2, <2>5 DEF Connected
    <3>2. QED
      BY <2>1, <2>5, <3>1 DEF Tell
  <2>6. Knowing'
    <3>1. ASSUME NEW i \in Inodes, NEW x \in Sessions, NEW y \in Sessions, x # y,
                 x \in binders'[i], x \in sessions', status'[x] = "open",
                 y \in binders'[i], y \in sessions', status'[y] = "open"
          PROVE  <<i, y>> \in told'[x]
      <4>1. x \in sessions /\ y \in sessions /\ status[x] = "open" /\ status[y] = "open"
        BY <2>1, <3>1
      <4>2. CASE i = o
        <5>1. (x = s \/ x \in binders[o]) /\ (y = s \/ y \in binders[o])
          BY <1>1, <2>1, <3>1, <4>2
        <5>2. CASE x = s
          BY <2>5, <3>1, <4>1, <4>2, <5>1, <5>2
        <5>3. CASE y = s
          BY <2>5, <3>1, <4>1, <4>2, <5>1, <5>3
        <5>4. CASE x # s /\ y # s
          <6>1. <<o, y>> \in told[x]
            BY <1>3, <3>1, <4>1, <5>1, <5>4
          <6>2. QED
            BY <2>4, <4>2, <6>1
        <5>5. QED
          BY <5>2, <5>3, <5>4
      <4>3. CASE i # o
        <5>1. x \in binders[i] /\ y \in binders[i]
          BY <1>1, <2>1, <3>1, <4>3
        <5>2. <<i, y>> \in told[x]
          BY <1>3, <3>1, <4>1, <5>1
        <5>3. QED
          BY <2>4, <5>2
      <4>4. QED
        BY <4>2, <4>3
    <3>2. QED
      BY <3>1
  <2>7. binders' \in [Inodes -> SUBSET Sessions]
    BY <1>1, <2>1
  <2>8. QED
    BY <1>4, <2>3, <2>6, <2>7
<1>14. ASSUME NEW s \in Sessions, NEW o \in Inodes, NEW bind \in BOOLEAN, LoadObj(s, o, bind)
       PROVE  BindersListed' /\ PeersKnow'
  <2>1. /\ connected_devs' = [connected_devs EXCEPT ![o] = IF bind THEN Kept(o) \cup {s} ELSE Kept(o)]
        /\ UNCHANGED <<status, logged, sessions, told, binders>>
    BY <1>14 DEF LoadObj
  <2>2. \A x \in Sessions : x \in connected_devs[o] /\ x \in sessions /\ status[x] = "open" => x \in Kept(o)
    BY DEF Kept, Peers, Connected
  <2>3. Listing'
    <3>1. ASSUME NEW i \in Inodes, NEW x \in Sessions, x \in binders[i], x \in sessions, status[x] = "open"
          PROVE  x \in connected_devs'[i]
      <4>1. x \in connected_devs[i]
        BY <1>2, <3>1
      <4>2. CASE i = o
        <5>1. x \in Kept(o)
          BY <2>2, <3>1, <4>1, <4>2
        <5>2. QED
          BY <1>1, <2>1, <4>2, <5>1
      <4>3. CASE i # o
        BY <1>1, <2>1, <4>1, <4>3
      <4>4. QED
        BY <4>2, <4>3
    <3>2. QED
      BY <1>2, <2>1, <3>1
  <2>4. Knowing'
    BY <1>3, <2>1
  <2>5. QED
    BY <1>1, <1>4, <2>1, <2>3, <2>4
<1>15. CASE UNCHANGED server
  BY <1>5, <1>15 DEF server
<1>16. QED
  BY <1>6, <1>7, <1>8, <1>9, <1>10, <1>11, <1>12, <1>13, <1>14, <1>15 DEF ServerNext

LEMMA ServerInvNext ==
    ASSUME ServerInv, [ServerNext]_server
    PROVE  ServerInv'
BY ServerTypesNext, NothingOfTheDeadNext, AliveChecksNext, EndsOfTokensNext, BindersListedNext DEF ServerInv

LEMMA ServerInvHolds == ServerSpec => []ServerInv
BY ServerInvInit, ServerInvNext, PTL DEF ServerSpec

LEMMA SessionsEndHolds == ServerInv => SessionsEnd
<1> SUFFICES ASSUME ServerInv PROVE SessionsEnd
  OBVIOUS
<1>1. /\ clock \in Nat /\ next_hour \in Nat /\ Timely(minute, clock)
      /\ clock - minute.time_last_exe <= Late
      /\ status \in [Sessions -> {"none", "open", "closed", "deleted"}]
      /\ since \in [Sessions -> [closed : Int, login : Int]]
      /\ \A s \in Sessions : status[s] = "closed" <=> s \in Planned(minute)
      /\ \A s \in Planned(minute) : /\ minute.time_last_exe < minute.due[s]
                                    /\ minute.due[s] = since[s].closed + AliveDelay
  BY DEF ServerInv, ServerTypes, AliveChecks
<1>2. minute.time_last_exe \in Nat /\ \A s \in Planned(minute) : minute.due[s] \in Nat
  BY <1>1, TimelyFields
<1>3. ForgottenInTime
  <2>1. ASSUME NEW s \in Living
        PROVE  IF s \in Connected THEN s \notin Planned(minute)
               ELSE clock - since[s].closed < AliveDelay + Late
    <3>1. CASE s \in Connected
      BY <1>1, <3>1 DEF Connected
    <3>2. CASE s \notin Connected
      <4>1. s \in Sessions /\ s \in Planned(minute) /\ since[s].closed \in Int
        BY <1>1, <3>2 DEF Connected, Living
      <4>2. QED
        BY <1>1, <1>2, <3>2, <4>1, ServerAssumption
    <3>3. QED
      BY <3>1, <3>2
  <2>2. QED
    BY <2>1 DEF ForgottenInTime
<1>4. TokensEnd
  <2>1. ASSUME NEW s \in token_to_usr_id
        PROVE  clock - since[s].login <= Day
    <3>1. /\ s \in Sessions /\ clock <= next_hour + Late /\ next_hour <= since[s].login + Hour
      BY DEF ServerInv, EndsOfTokens, NothingOfTheDead, Living
    <3>2. since[s].login \in Int
      BY <1>1, <3>1
    <3>3. QED
      BY <1>1, <3>1, <3>2, ServerAssumption
  <2>2. QED
    BY <2>1 DEF TokensEnd
<1>5. QED
  BY <1>3, <1>4 DEF ServerInv, SessionsEnd

\* The end of a session, by its client, by the end of its connection or by a
\* timer, comes in time and takes with it everything the tracker knew of the
\* session (reg_session_to_del, timer_1s, timer_1h, ~TrackerServerSession): no
\* list, map or task refers to a deleted session, a session without connection
\* is deleted before AliveDelay + Late, and a token does not outlive its day.
\* What stays is in sessions, and is of a client that logged in after it had
\* logged out, whose session was to be deleted already: login does not ask.
THEOREM SessionsAlwaysEnd == ServerSpec => []SessionsEnd
BY ServerInvHolds, SessionsEndHolds, PTL

\* Two clients that have bound an object and are there are told of each other,
\* whoever has bound it, asked for it, left or been deleted in between (bind_obj, load_obj).
THEOREM PeersAlwaysKnow == ServerSpec => []PeersKnow
BY ServerInvHolds, PTL DEF ServerInv

\* A session is deleted for a reason.
LEMMA DeletedStep ==
    ASSUME ServerInv, [ServerNext]_server, NEW s \in Living, status'[s] = "deleted"
    PROVE  s \in sessions_to_del \/ (status[s] = "closed" /\ clock - since[s].closed >= AliveDelay)
<1>1. /\ clock \in Nat /\ status \in [Sessions -> {"none", "open", "closed", "deleted"}]
      /\ since \in [Sessions -> [closed : Int, login : Int]]
      /\ \A x \in Sessions : status[x] = "closed" <=> x \in Planned(minute)
      /\ \A x \in Planned(minute) : minute.due[x] = since[x].closed + AliveDelay
      /\ s \in Sessions /\ status[s] # "deleted"
  BY DEF ServerInv, ServerTypes, AliveChecks, Living
<1>2. Timer1s
  BY <1>1 DEF ServerNext, server, Second, Timer1h, Connect, Login, Logout, Close, BindObj, LoadObj
<1>3. PICK E, S : E = Executed(minute, clock) /\ S = sessions_to_del \cup E
  OBVIOUS
<1>4. /\ \A x : x \in E <=> x \in Planned(minute) /\ minute.due[x] <= clock
      /\ status' = [x \in Sessions |-> IF x \in S THEN "deleted" ELSE status[x]]
  BY <1>2, <1>3, Timer1sIs
<1>5. s \in S
  BY <1>1, <1>4
<1>6. CASE s \in sessions_to_del
  BY <1>6
<1>7. CASE s \in E
  <2>1. s \in Planned(minute) /\ minute.due[s] <= clock /\ since[s].closed \in Int
    BY <1>1, <1>4, <1>7
  <2>2. QED
    BY <1>1, <2>1, ServerAssumption
<1>8. QED
  BY <1>3, <1>5, <1>6, <1>7

\* timer_1s deletes a session because its client has logged out, or after it
\* has stayed AliveDelay without connection: no other step deletes one, and no
\* alive_check of the ring comes early.
THEOREM SessionsDeletedForReason == ServerSpec => DeletedForReason
<1>1. ASSUME ServerInv, [ServerNext]_server
      PROVE  [\A s \in Living : status'[s] = "deleted" =>
                s \in sessions_to_del
                \/ (status[s] = "closed" /\ clock - since[s].closed >= AliveDelay)]_server
  BY <1>1, DeletedStep
<1>2. QED
  BY <1>1, ServerInvHolds, PTL DEF ServerSpec, DeletedForReason

===============================================================================
