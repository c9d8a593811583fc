---------------------------- MODULE IdGenerator ----------------------------
(***************************************************************************)
(* The identifiers of the tracker (RB/cpp/RiotBase/Tracker/Core/           *)
(* IdGenerator.cpp): the date in milliseconds, the number of the tracker   *)
(* and a counter for the identifiers of one millisecond, side by side in   *)
(* one number of 64 bits.  A tracker that restarts keeps nothing of its    *)
(* generator.                                                              *)
(*                                                                         *)
(* CounterSize, BaseSize and DateSize are 2^10, 2^12 and 2^42 in the code. *)
(* The clock never goes back and a restart takes more than a millisecond.  *)
(***************************************************************************)
EXTENDS Integers

CONSTANTS CounterSize, BaseSize, DateSize,
          Bases,      \* the numbers of the trackers
          MaxClock    \* bound on the date: 139 years, says the code

ASSUME GeneratorAssumption ==
    /\ CounterSize \in Nat \ {0} /\ BaseSize \in Nat \ {0} /\ DateSize \in Nat \ {0}
    /\ Bases \subseteq 0..BaseSize - 1
    /\ MaxClock \in Nat /\ MaxClock < DateSize

VARIABLES clock,   \* Date::current().msec
          gens,    \* gens[b]: the generator of tracker b
          older,   \* the identifiers generated before the last one
          newest   \* the last one, -1 at first
idvars == <<clock, gens, older, newest>>

NewGenerator == [counter |-> 0, pr_date |-> 0]

\* The three fields, from the highest bits.
Id(counter, b, date) == (counter * BaseSize + b) * DateSize + (date % DateSize)

\* gen(): waits for the next millisecond when the counter is used up.
CanGenerate(g, date) == date = g.pr_date => g.counter < CounterSize - 1
NextCounterFromOne(g, date) == IF date = g.pr_date THEN 1 ELSE 0   \* a mutant: not incremented
NextCounter(g, date) == IF date = g.pr_date THEN g.counter + 1 ELSE 0
Generated(g, date) == [counter |-> NextCounter(g, date), pr_date |-> date]

IdInit == /\ clock = 1
          /\ gens = [b \in Bases |-> NewGenerator]
          /\ older = {} /\ newest = -1

Keep(id) == older' = older \cup {newest} /\ newest' = id

Generate(b) == /\ CanGenerate(gens[b], clock)
               /\ gens' = [gens EXCEPT ![b] = Generated(gens[b], clock)]
               /\ Keep(Id(NextCounter(gens[b], clock), b, clock))
               /\ UNCHANGED clock

Tick == clock < MaxClock /\ clock' = clock + 1 /\ UNCHANGED <<gens, older, newest>>

\* A restart of tracker b, some time later.
Restart(b) == /\ clock < MaxClock /\ clock' = clock + 1
              /\ gens' = [gens EXCEPT ![b] = NewGenerator]
              /\ UNCHANGED <<older, newest>>

IdNext == Tick \/ \E b \in Bases : Generate(b) \/ Restart(b)
IdSpec == IdInit /\ [][IdNext]_idvars

-----------------------------------------------------------------------------
\* IdsUnique: no identifier is given twice, by one tracker before and after a
\* restart, or by two trackers ("must be unique amongst all the other
\* instances", says IdGenerator.h of the base ids).
IdsUnique == newest \notin older
=============================================================================
