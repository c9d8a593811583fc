------------------------------- MODULE DbItem -------------------------------
(***************************************************************************)
(* One replicated variable as each Db keeps it (src/ts/Db/DbItem.ts): the  *)
(* log of patches, the clock of the patches it holds, what was sent to the *)
(* other devices and the local modifications that are not a patch yet.     *)
(*                                                                         *)
(* The items of a Db do not interact, so one item per Db is modelled: the  *)
(* one that every Db binds to the same Inode.                              *)
(*                                                                         *)
(* The operations on the variable itself are parameters, as they are in    *)
(* the code (Core/OtMerger.ts calls them through the ot_wrapper): Op is    *)
(* the set of operations, a patch holds a sequence of them, and            *)
(*   LocalOps(doc)            what the local user may do: a set of records *)
(*                            [doc, data],                                 *)
(*   UndoData(doc, data)      the variable before data was applied,        *)
(*   NewData(doc, data, cq)   data applied after the concurrent operations *)
(*                            cq: a record [doc, data, cq] holding the     *)
(*                            variable, data transformed, cq transformed.  *)
(*                                                                         *)
(* Device identifiers and the clocks indexed by them come first            *)
(* (src/ts/System/DevId.ts, PatchId.ts, VectorClock.ts). Inside a Db the   *)
(* local device is always written DevId.null_DevId_str ("-----------~"),   *)
(* here Loc; every other device has its global name. What one Db writes is *)
(* therefore renamed by the Db that reads it. Global names are compared as *)
(* strings in the code; here they are positive numbers, with their order.  *)
(***************************************************************************)
EXTENDS Integers, Sequences, FiniteSetsExt

CONSTANT Dev    \* the global names of the devices

ASSUME DevAssumption == Dev \subseteq Nat \ {0}

Loc == 0
Ids == Dev \cup {Loc}

(* A clock maps a name to the number of the last patch known from it. A    *)
(* name that is absent from the JavaScript map reads as 0 (val).           *)
Clock == [Ids -> Nat]
ZeroClock == [i \in Ids |-> 0]

ToGlo(i, cur) == IF i = Loc THEN cur ELSE i

(* DevId.read_from: a name written by src, as cur stores it. *)
ReadDev(i, src, cur) == IF ToGlo(i, src) = cur THEN Loc ELSE ToGlo(i, src)

(* Fault: the names of the sender are kept. *)
ReadClockAsIs(vc, src, cur) == [j \in Ids |-> vc[j]]

(* VectorClock.read_from: every entry moves to the name its device has at  *)
(* cur. The device stored under j at cur is stored by src under            *)
(* ReadDev(j, cur, src); nothing is ever stored under cur's global name.   *)
ReadClock(vc, src, cur) ==
    [j \in Ids |-> IF j = cur THEN 0 ELSE vc[ReadDev(j, cur, src)]]

Contains(vc, dev, num) == num <= vc[dev]

(* update_patch: only the successor of the last number is accepted; both   *)
(* callers ignore the boolean that says whether it was.                    *)
UpdatePatch(vc, dev, num) ==
    IF num = vc[dev] + 1 THEN [vc EXCEPT ![dev] = num] ELSE vc

SelfInc(vc, dev) == [vc EXCEPT ![dev] = @ + 1]

ClockLeq(v, w) == \A i \in Ids : v[i] <= w[i]

-----------------------------------------------------------------------------
CONSTANTS
    Op, Doc, Doc0,
    LocalOps(_), UndoData(_, _), NewData(_, _, _),
    Skew        \* Skew[d]: how far the clock of device d is from the true time

ASSUME SkewAssumption == Skew \in [Dev -> Int]

VARIABLES
    patches,          \* patches[d]: the log of d, oldest first
    vector_clock,     \* vector_clock[d]: coordinates of the patches d holds
    sent,             \* sent[d][e]: what d takes as sent to e (ExtState.sent)
    modifications,    \* modifications[d]: operations of d not yet in a patch
    val               \* val[d]: the variable itself

itemVars == <<patches, vector_clock, sent, modifications, val>>

InsType == {"UNK", "NEW", "STD"}

Patch == [dev: Ids, num: Nat \ {0}, causal_num: Nat, date: Int,
          data: Seq(Op), ins_type: InsType]

(* Fault: the names of the devices are compared as cur stores them. *)
SupLocal(p, q, cur) ==
    \/ p.causal_num > q.causal_num
    \/ p.causal_num = q.causal_num /\ p.date > q.date
    \/ p.causal_num = q.causal_num /\ p.date = q.date /\ p.dev > q.dev

(* Patch.sup: p comes after q in the log of cur. *)
Sup(p, q, cur) ==
    \/ p.causal_num > q.causal_num
    \/ p.causal_num = q.causal_num /\ p.date > q.date
    \/ /\ p.causal_num = q.causal_num /\ p.date = q.date
       /\ ToGlo(p.dev, cur) > ToGlo(q.dev, cur)

Same(p, q) == p.dev = q.dev /\ p.num = q.num

-----------------------------------------------------------------------------
(* freeze_last_mod: the pending modifications become the last patch.       *)

(* Fault: self_inc gives the number before the increment. *)
LastPatchNotInc(d, date) ==
    [dev |-> Loc, num |-> vector_clock[d][Loc],
     causal_num |-> IF patches[d] = <<>> THEN 0
                    ELSE patches[d][Len(patches[d])].causal_num + 1,
     date |-> date, data |-> modifications[d], ins_type |-> "STD"]

LastPatch(d, date) ==
    [dev        |-> Loc,
     num        |-> vector_clock[d][Loc] + 1,
     causal_num |-> IF patches[d] = <<>> THEN 0
                    ELSE patches[d][Len(patches[d])].causal_num + 1,
     date       |-> date,
     data       |-> modifications[d],
     ins_type   |-> "STD"]

FrozenPatches(d, date) ==
    IF modifications[d] = <<>> THEN patches[d]
    ELSE Append(patches[d], LastPatch(d, date))

(* Fault: the clock advances even when nothing is pending. *)
FrozenClockAlways(d) == SelfInc(vector_clock[d], Loc)

FrozenClock(d) ==
    IF modifications[d] = <<>> THEN vector_clock[d]
    ELSE SelfInc(vector_clock[d], Loc)

-----------------------------------------------------------------------------
(* get_changes: the patches of a log that the destination was not sent.    *)

(* Faults: the last number is left out; only the own patches are sent. *)
UnsentButLast(log, clock, known) ==
    {log[i] : i \in {k \in 1 .. Len(log) :
        log[k].num \in (known[log[k].dev] + 1) .. (clock[log[k].dev] - 1)}}

UnsentOwn(log, clock, known) ==
    {log[i] : i \in {k \in 1 .. Len(log) :
        log[k].dev = Loc /\ log[k].num \in (known[Loc] + 1) .. clock[Loc]}}

Unsent(log, clock, known) ==
    {log[i] : i \in {k \in 1 .. Len(log) :
        log[k].num \in (known[log[k].dev] + 1) .. clock[log[k].dev]}}

-----------------------------------------------------------------------------
(* app_changes: the parts of the handler. Indices start from 1.            *)

NoIndex == 1073741824    \* "1 << 30", index_first_insertion before any patch

IsUnk(p, clock, base) == p.num \in (base[p.dev] + 1) .. clock[p.dev]

MarkUnk(log, clock, base) ==
    [i \in 1 .. Len(log) |->
        IF IsUnk(log[i], clock, base)
        THEN [log[i] EXCEPT !.ins_type = "UNK"] ELSE log[i]]

FirstUnk(log, clock, base) ==
    Min({i \in 1 .. Len(log) : IsUnk(log[i], clock, base)} \cup {NoIndex})

(* Fault: a patch that is already here keeps its mark. *)
MarkStdNot(log, p) == log

MarkStd(log, p) ==
    [i \in 1 .. Len(log) |->
        IF Same(log[i], p) THEN [log[i] EXCEPT !.ins_type = "STD"] ELSE log[i]]

(* Faults: pushed at the end; put in the place of another (splice( k, 1, n )). *)
InsertionIndexEnd(log, n, cur) == Len(log) + 1

InsertPatchOver(log, n, k) ==
    [i \in 1 .. Max({k, Len(log)}) |-> IF i = k THEN n ELSE log[i]]

(* The place of n: scanning from the end, before every patch that is       *)
(* greater, after the first one that is not.                               *)
InsertionIndex(log, n, cur) ==
    Min({k \in 1 .. Len(log) + 1 : \A i \in k .. Len(log) : Sup(log[i], n, cur)})

InsertPatch(log, n, k) ==
    [i \in 1 .. Len(log) + 1 |->
        IF i < k THEN log[i] ELSE IF i = k THEN n ELSE log[i - 1]]

(* Where the patches are undone and merged again from: the first patch     *)
(* from "from" on that is not "STD" (after the end if there is none).      *)
FirstToMerge(log, from) ==
    Min({i \in 1 .. Len(log) : i >= from /\ log[i].ins_type # "STD"}
        \cup {Len(log) + 1})

=============================================================================
