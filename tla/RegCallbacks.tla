---------------------------- MODULE RegCallbacks ----------------------------
(***************************************************************************)
(* The signals of change (src/ts/Core/OtWrapper.ts, sig_change) and the    *)
(* callbacks they defer (src/ts/System/RegCallbacks.ts): a change of a     *)
(* variable registers its callbacks, which are called together, once each, *)
(* when a timer fires.  A callback may change variables itself, add        *)
(* callbacks to them and remove some.  None throws.                        *)
(*                                                                         *)
(* The immediate callbacks, called by sig_change itself, defer nothing.    *)
(* The callbacks of a variable are registered in any order: the code takes *)
(* that of its Map. MaxChanges bounds the changes.                         *)
(***************************************************************************)
EXTENDS Integers, FiniteSets, Sequences

CONSTANTS Variables, Callbacks, MaxChanges

ASSUME CallbacksAssumption == IsFiniteSet(Callbacks) /\ MaxChanges \in Nat

VARIABLES on_change,   \* on_change[v]: the callbacks of v
          callbacks,   \* those to call
          timeout,     \* is the variable timeout defined?
          timer,       \* is a timer of setTimeout armed?
          pos,         \* call_all: which callback is being called, 0 outside of it
          stale,       \* the callbacks that have not been called since a change
          late,        \* those of a change made after their call in the same call_all
          changes
cbvars == <<on_change, callbacks, timeout, timer, pos, stale, late, changes>>

In(c, s) == \E i \in DOMAIN s : s[i] = c
FirstOnes(s, n) == {s[i] : i \in 1..n}

CallbacksInit == /\ on_change = [v \in Variables |-> {}]
                 /\ callbacks = <<>> /\ timeout = FALSE /\ timer = FALSE /\ pos = 0
                 /\ stale = {} /\ late = {} /\ changes = 0

OnChange(v, c) == /\ c \notin on_change[v]
                  /\ on_change' = [on_change EXCEPT ![v] = @ \cup {c}]
                  /\ UNCHANGED <<callbacks, timeout, timer, pos, stale, late, changes>>
RmOnChange(v, c) == /\ c \in on_change[v]
                    /\ on_change' = [on_change EXCEPT ![v] = @ \ {c}]
                    /\ UNCHANGED <<callbacks, timeout, timer, pos, stale, late, changes>>

\* add(), for each of them: those that are not in the list are pushed, once.
Pushed(added) == {c \in added : ~In(c, callbacks)}
Orders(S) == {s \in [1..Cardinality(S) -> S] :
                 /\ \A c \in S : In(c, s)
                 /\ \A i, j \in DOMAIN s : s[i] = s[j] => i = j}

\* sig_change.  The first callback that is pushed arms the timer.
SigChange(v) ==
    /\ changes < MaxChanges /\ changes' = changes + 1
    /\ \E order \in Orders(Pushed(on_change[v])) : callbacks' = callbacks \o order
    /\ LET pushed == Pushed(on_change[v]) # {}
       IN timeout' = (timeout \/ pushed) /\ timer' = (timer \/ (pushed /\ ~timeout))
    /\ stale' = stale \cup on_change[v]
    /\ late' = late \cup (on_change[v] \cap FirstOnes(callbacks, pos))
    /\ UNCHANGED <<on_change, pos>>

DoneEarly(n) == n + 1 >= Len(callbacks)          \* mutant: the last one is forgotten
Done(n) == n >= Len(callbacks)

\* The n-th callback is called, or the list is emptied after the last one.
CallAfter(n) == IF Done(n) THEN callbacks' = <<>> /\ pos' = 0 /\ UNCHANGED <<stale, late>>
                ELSE /\ pos' = n + 1
                     /\ stale' = stale \ {callbacks[n + 1]} /\ late' = late \ {callbacks[n + 1]}
                     /\ UNCHANGED callbacks

Defined == FALSE

\* The timer calls call_all, which goes on with what the callbacks add.
CallAll == /\ timer /\ pos = 0
           /\ timer' = FALSE /\ timeout' = Defined
           /\ CallAfter(0)
           /\ UNCHANGED <<on_change, changes>>
CallNext == /\ pos > 0
            /\ CallAfter(pos)
            /\ UNCHANGED <<on_change, timeout, timer, changes>>

CallbacksNext == \/ CallAll \/ CallNext
                 \/ \E v \in Variables : SigChange(v) \/ \E c \in Callbacks : OnChange(v, c) \/ RmOnChange(v, c)

CallbacksSpec == CallbacksInit /\ [][CallbacksNext]_cbvars

-----------------------------------------------------------------------------
\* Properties

\* However many changes there are, a callback is called once by a call_all.
CalledOnce == \A i, j \in DOMAIN callbacks : callbacks[i] = callbacks[j] => i = j

\* A callback that has not seen a change is to be called, by the call_all in
\* progress or by the next one, unless the change comes from a callback and
\* this call_all has called it already: then it is forgotten.
ChangesAreSeen == \A c \in stale \ late : \E i \in DOMAIN callbacks : i > pos /\ callbacks[i] = c

\* What is to be called will be: a timer is armed whenever no call_all is in
\* progress and callbacks wait ("to be called during the next tick").
CallbacksArmed == pos = 0 /\ callbacks # <<>> => timer
\* sig_change and call_all, as a whole: one call for any number of changes, and
\* none forgotten.
CallbacksDue == CalledOnce /\ ChangesAreSeen /\ CallbacksArmed
=============================================================================
