----------------------------- MODULE RbPatches -----------------------------
(***************************************************************************)
(* The PatchManager of the TypeScript client: the log of one variable.     *)
(*                                                                         *)
(* A log is [patches, clock, ext, typed, whole]: the patches in their      *)
(* order, the numbers it knows of each device, what it takes each other    *)
(* device to know (ext_states, one entry for each connected device),       *)
(* whether the variable has operations that are no patch yet, and whether  *)
(* its value is the one of the patches: not when a merge threw on the way. *)
(*                                                                         *)
(* The operations of a patch are abstracted to `after`, the patches they   *)
(* are written after, each as many times as they are: those that were there *)
(* when it was made, and those that a merge took them through. Patches that *)
(* stand for a whole other log (merges) are left out: undoing one, or finding *)
(* it on one side only, is an exception of the code.                       *)
(***************************************************************************)
EXTENDS Integers, SequencesExt, FiniteSetsExt

CONSTANT Machines   \* the devices: numbers, ordered as their names are

Nobody == [d \in Machines |-> 0]
Known(clock, id) == id[2] <= clock[id[1]]
IdsOf(patches) == {patches[i].id : i \in DOMAIN patches}
IdsIn(clock) == UNION {{<<d, n>> : n \in 1 .. clock[d]} : d \in Machines}
None == <<0, 0>>    \* the PatchId of no patch

\* Only the next number of a device is an update.
UpdatePatch(clock, id) ==
    IF id[2] = clock[id[1]] + 1 THEN [clock EXCEPT ![id[1]] = id[2]] ELSE clock
UpdateClock(clock, known) ==
    [d \in Machines |-> IF known[d] > clock[d] THEN known[d] ELSE clock[d]]

NewLog == [patches |-> <<>>, clock |-> Nobody, ext |-> <<>>, typed |-> FALSE, whole |-> TRUE]
SentTo(log, d) == IF d \in DOMAIN log.ext THEN log.ext[d] ELSE Nobody
RegSent(log, d, clock) ==
    [log EXCEPT !.ext = [e \in DOMAIN log.ext \cup {d} |-> IF e = d THEN clock ELSE log.ext[e]]]

\* The index of a patch, 0 if it is not there.
FindPatch(patches, id) == CHOOSE i \in 0 .. Len(patches) :
    IF id \in IdsOf(patches) THEN i > 0 /\ patches[i].id = id ELSE i = 0

\* The operations of the variable become a patch of this device.
Freeze(log, me, now) ==
    IF ~ log.typed THEN log
    ELSE LET id == <<me, log.clock[me] + 1>>
             next == IF log.patches = <<>> THEN now ELSE Max({now, Last(log.patches).date + 1})
         IN  [log EXCEPT !.patches = Append(@, [id |-> id, date |-> next, after |-> SetToBag(IdsOf(@))]),
                         !.clock = [@ EXCEPT ![me] = id[2]],
                         !.typed = FALSE]

-----------------------------------------------------------------------------
\* The indices, counted from 0, are sorted as texts.
TextOf(i) == IF i < 10 THEN <<i>> ELSE <<i \div 10, i % 10>>
TextBefore(i, j) ==
    LET a == TextOf(i - 1)
        b == TextOf(j - 1)
    IN  a[1] < b[1] \/ (a[1] = b[1] /\ Len(a) < Len(b))
        \/ (a[1] = b[1] /\ Len(a) = 2 /\ Len(b) = 2 /\ a[2] < b[2])

Coordinates(patches, i) ==
    [id |-> patches[i].id,
     prev |-> IF i = 1 THEN None ELSE patches[i - 1].id,
     delta |-> IF i = 1 THEN patches[1].date ELSE patches[i].date - patches[i - 1].date,
     after |-> patches[i].after]

ToBeSent(log, d) ==
    SetToSortSeq({i \in DOMAIN log.patches : ~ Known(SentTo(log, d), log.patches[i].id)}, TextBefore)

\* What is sent to d: what it is taken to know, and the patches that come on top.
\* log is frozen.
Changes(log, d) ==
    LET ids == ToBeSent(log, d)
    IN  [base |-> SentTo(log, d),
         patches |-> [k \in DOMAIN ids |-> Coordinates(log.patches, ids[k])]]
AfterChanges(log, d) ==
    LET ids == ToBeSent(log, d)
    IN  RegSent(log, d, FoldLeft(LAMBDA c, i : UpdatePatch(c, log.patches[i].id), SentTo(log, d), ids))

KnownBy(log, d, known) == RegSent(log, d, UpdateClock(SentTo(log, d), known))

-----------------------------------------------------------------------------
\* Where a patch goes: after the previous one of its sender, then after those
\* that are older, or as old and of a device that comes before. Without a
\* previous patch it takes the date of the first one.
Older(p, n) == p.date < n.date \/ (p.date = n.date /\ p.id[1] < n.id[1])
SameDateBefore(p, n) == p.date = n.date /\ p.id[1] < n.id[1]
Dated(patches, prev, n) ==
    IF prev # 0 THEN [n EXCEPT !.date = @ + patches[prev].date]
    ELSE IF patches # <<>> THEN [n EXCEPT !.date = patches[1].date]
    ELSE n
PlaceOf(patches, prev, n) ==
    LET passes(i) == IF prev # 0 THEN Older(patches[i], n) ELSE SameDateBefore(patches[i], n)
    IN  CHOOSE k \in prev .. Len(patches) :
            /\ \A i \in prev + 1 .. k : passes(i)
            /\ k < Len(patches) => ~ passes(k + 1)

\* One patch of a message. r is [log, new, unk, ok].
ReadPatch(r, from, p) ==
    LET heard == RegSent(r.log, from, UpdatePatch(SentTo(r.log, from), p.id))
        prev == FindPatch(r.log.patches, p.prev)
        n == Dated(r.log.patches, prev, [id |-> p.id, date |-> p.delta, after |-> p.after])
        at == PlaceOf(r.log.patches, prev, n)
    IN  IF ~ r.ok \/ (p.prev # None /\ prev = 0) THEN [r EXCEPT !.ok = FALSE]
        ELSE IF Known(r.log.clock, p.id) THEN [r EXCEPT !.log = heard, !.unk = @ \ {p.id}]
        ELSE [r EXCEPT !.log = [heard EXCEPT !.clock = UpdatePatch(@, p.id),
                                             !.patches = InsertAt(@, at + 1, n)],
                       !.new = @ \cup {p.id}]

\* Mutant: the new patches are remembered for those that both know only.
MergeOneForgetsStd(m, p) ==
    IF p.id \in m.new
    THEN [m EXCEPT !.patches = Append(@, [p EXCEPT !.after = @ (+) SetToBag(m.cq_unk)]),
                   !.cq_new = IF m.nb_std # 0 THEN @ \cup {p.id} ELSE @, !.nb_new = @ - 1]
    ELSE [m EXCEPT !.patches = Append(@, [p EXCEPT !.after = @ (+) SetToBag(m.cq_new)]),
                 !.cq_unk = IF p.id \in m.unk THEN @ \cup {p.id} ELSE @,
                 !.nb_unk = IF p.id \in m.unk THEN @ - 1 ELSE @,
                 !.nb_std = IF p.id \in m.unk THEN @ ELSE @ - 1]

\* One patch of the log after the first that moves: a new one is taken through
\* the unknown ones before it, the others through the new ones before them.
\* What is still to come decides what has to be remembered, counted as the code
\* does: the unknown ones twice. A patch that both know cannot be put before the
\* unknown ones that are remembered (the operations have no reg_op): that throws,
\* and what follows is not merged.
Throws(m, p) == p.id \notin m.new \cup m.unk /\ m.cq_unk # {}
MergeOne(m, p) ==
    CASE ~ m.ok \/ Throws(m, p) -> [m EXCEPT !.patches = Append(@, p), !.ok = FALSE]
      [] p.id \in m.new ->
           [m EXCEPT !.patches = Append(@, [p EXCEPT !.after = @ (+) SetToBag(m.cq_unk)]),
                     !.cq_new = IF m.nb_unk # 0 \/ m.nb_std # 0 THEN @ \cup {p.id} ELSE @,
                     !.nb_new = @ - 1]
      [] p.id \in m.unk ->
           [m EXCEPT !.patches = Append(@, [p EXCEPT !.after = @ (+) SetToBag(m.cq_new)]),
                     !.cq_unk = IF m.nb_new # 0 \/ m.nb_std # 0 THEN @ \cup {p.id} ELSE @,
                     !.nb_unk = @ - 1]
      [] OTHER ->
           [m EXCEPT !.patches = Append(@, [p EXCEPT !.after = @ (+) SetToBag(m.cq_new)]),
                     !.nb_std = @ - 1]

\* The patches from the first that is new or unknown on are undone and done again.
MergeFrom(patches, new, unk) ==
    LET moved == {i \in DOMAIN patches : patches[i].id \in new \cup unk}
        first == Min(moved)
        nb_unk == 2 * Cardinality(unk)
        start == [patches |-> SubSeq(patches, 1, first - 1), new |-> new, unk |-> unk,
                  cq_new |-> {}, cq_unk |-> {}, nb_new |-> Cardinality(new), nb_unk |-> nb_unk,
                  nb_std |-> Len(patches) - first + 1 - nb_unk - Cardinality(new), ok |-> TRUE]
    IN  FoldLeft(MergeOne, start, SubSeq(patches, first, Len(patches)))

\* What the log has and the sender is not said to know.
NotKnown(log, msg) == {id \in IdsOf(log.patches) : ~ Known(msg.base, id)}
BaseKnown(log, msg) == \A d \in Machines : msg.base[d] <= log.clock[d]

\* A message of `from` is applied to a frozen log: [log, new, unk, ok]. An
\* exception leaves the log as it is then: before the first patch if the base is
\* not known, between two patches, nothing being merged, if a previous one is not,
\* in the middle of the merge if MergeOne throws.
AppChanges(log, msg, from) ==
    LET start == [log |-> log, new |-> {}, unk |-> NotKnown(log, msg), ok |-> BaseKnown(log, msg)]
        r == FoldLeft(LAMBDA a, p : ReadPatch(a, from, p), start, msg.patches)
        m == MergeFrom(r.log.patches, r.new, r.unk)
    IN  IF r.new = {} THEN r
        ELSE IF ~ r.ok THEN [r EXCEPT !.log.whole = FALSE]
        ELSE [r EXCEPT !.log.patches = m.patches, !.log.whole = @ /\ m.ok, !.ok = m.ok]

-----------------------------------------------------------------------------
\* From which patch on the storage is written: the first it does not know.
FirstToStore(log, known) ==
    LET missing == {d \in Machines : known[d] < log.clock[d]}
    IN  Min({Len(log.patches) + 1} \cup {FindPatch(log.patches, <<d, known[d] + 1>>) : d \in missing})

\* All the patches from there on are written over what the storage has.
StoreLog(disk, log) ==
    LET first == FirstToStore(log, disk.known)
        written == {log.patches[i] : i \in first .. Len(log.patches)}
        ids == {p.id : p \in written}
    IN  [known |-> FoldLeft(LAMBDA c, p : UpdatePatch(c, p.id), disk.known,
                            SubSeq(log.patches, first, Len(log.patches))),
         patches |-> {p \in disk.patches : p.id \notin ids} \cup written]
=============================================================================
