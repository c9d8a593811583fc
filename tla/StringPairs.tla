---------------------------- MODULE StringPairs ----------------------------
(***************************************************************************)
(* Two users change one string without knowing of each other: one          *)
(* operation each, with the rights they have there, and the merge of the   *)
(* two (src/ts/LvString/OtWrapperStringOperations.ts, which                *)
(* src/ts/Core/OtMerger.ts calls). mine comes first in the order of the    *)
(* log: theirs, when it comes, is done again after mine, and mine is       *)
(* rewritten to be what is unknown to what follows theirs.                 *)
(***************************************************************************)
EXTENDS StringOt

CONSTANTS
    Letters,        \* what texts are made of
    Documents,      \* the strings, with the rights of the user
    MyTexts,        \* what is inserted here
    TheirTexts,     \* and there
    PairGrants      \* the sets of rights given or taken back

ASSUME PairsAssumption ==
    /\ Documents \subseteq [str : Seq(Letters), rights : SUBSET AllRights]
    /\ MyTexts \subseteq Seq(Letters) /\ TheirTexts \subseteq Seq(Letters)
    /\ PairGrants \subseteq SUBSET AllRights

VARIABLES text, mine, theirs    \* the document, two concurrent patches made on it
pairVars == <<text, mine, theirs>>

(* What a user may try on the document d, and what tar registers of it.    *)
Tries(d, texts) ==
    LET len == Len(d.str)
    IN  {Insert(p, s) : p \in 0 .. len, s \in texts}
        \cup {RemUnd(p, SubSeq(d.str, p + 1, q)) : p \in 0 .. len, q \in 0 .. len}
        \cup {AddUsrRight(g) : g \in PairGrants} \cup {RemUsrRight(g) : g \in PairGrants}
OpsOn(d, texts) ==
    UNION {{Reg(d, t)[k] : k \in DOMAIN Reg(d, t)} : t \in {x \in Tries(d, texts) : RightTo(d, x)}}

PairsInit == text \in Documents /\ mine = <<>> /\ theirs = <<>>
ChoosePair ==
    /\ mine = <<>> /\ theirs = <<>>
    /\ \E m \in OpsOn(text, MyTexts), t \in OpsOn(text, TheirTexts) : mine' = <<m>> /\ theirs' = <<t>>
    /\ UNCHANGED text
PairsSpec == PairsInit /\ [][ChoosePair]_pairVars

-----------------------------------------------------------------------------
(* The merge: theirs after mine, or mine after theirs.                     *)
Here == NewOps(ApplyOps(text, mine), theirs, mine)
There == NewOps(ApplyOps(text, theirs), mine, theirs)

(* OtMerger.ts:58 "1) update data according to cq_unk; 2) make cq_unk'":   *)
(* the rewritten mine operations, after the theirs ones, give the same string. *)
CqFits(r) == r.err = "none" /\ r.doc = ApplyOps(ApplyOps(text, theirs), r.cq)

(* What is registered undoes exactly what was applied. *)
Undoes(r) == r.err = "none" /\ UndoOps(r.doc, r.data) = ApplyOps(text, mine)

Pair(a, b) == mine[1].op = a /\ theirs[1].op = b
Inside(o, r) == r.pos < o.pos /\ o.pos < r.pos + Len(r.str)
Past(o) == o.pos + Len(o.str)
Apart(o, r) == Past(o) <= r.pos \/ Past(r) <= o.pos

(* Two concurrent insertions are merged: both texts are in, cq' fits and   *)
(* the result can be undone. OtWrapperStringOperations.ts:202.             *)
InsertAfterInsert(r) == Pair("Insert", "Insert") => CqFits(r) /\ Undoes(r)

(* An insertion merged after a removal can be undone, and the removal is   *)
(* rewritten rightly unless the insertion falls strictly inside the        *)
(* removed text. OtWrapperStringOperations.ts:214.                         *)
InsertAfterRemoval(r) ==
    Pair("RemUnd", "Insert") =>
        Undoes(r) /\ (Inside(theirs[1], mine[1]) \/ CqFits(r))

(* A removal merged after an insertion, cut in two parts by it if need be, *)
(* can be undone, and the insertion is rewritten rightly unless it falls   *)
(* strictly inside the removed text. OtWrapperStringOperations.ts:290.     *)
RemovalAfterInsert(r) ==
    Pair("Insert", "RemUnd") =>
        Undoes(r) /\ (Inside(mine[1], theirs[1]) \/ CqFits(r))

(* A removal merged after a removal of something else, or of a text that   *)
(* starts later (partly or fully the same). OtWrapperStringOperations.ts:302. *)
RemovalAfterRemoval(r) ==
    Pair("RemUnd", "RemUnd") /\ (Apart(mine[1], theirs[1]) \/ mine[1].pos > theirs[1].pos)
        => CqFits(r) /\ Undoes(r)

(* When one of the two changes the rights, what is registered undoes. If   *)
(* the other withdrew the right first, nothing is done and what is not     *)
(* known stays as it was; if not, it is rewritten to give the same text.   *)
(* OtWrapperStringOperations.ts:132.                                       *)
OnRights(r) ==
    ~ (IsText(mine[1]) /\ IsText(theirs[1])) =>
        /\ Undoes(r)
        /\ IF RightTo(ApplyOps(text, mine), theirs[1])
           THEN r.doc.str = ApplyOps(ApplyOps(text, theirs), r.cq).str
           ELSE r.doc = ApplyOps(text, mine) /\ r.cq = mine

(* Two concurrent patches give the same string and the same rights         *)
(* whichever of them comes first in the log: the date that orders them     *)
(* does not matter. Not so when something is removed twice, inserted at    *)
(* one place, given by one and taken by the other, or done with a right    *)
(* that the other withdraws.                                               *)
TextsApart(a, b) ==
    /\ a.op = "Insert" /\ b.op = "Insert" => a.pos # b.pos
    /\ a.op = "RemUnd" /\ b.op = "RemUnd" => Apart(a, b)
RightsApart(a, b) ==
    /\ RightTo(ApplyOp(text, a), b) /\ RightTo(ApplyOp(text, b), a)
    /\ ~ IsText(a) /\ ~ IsText(b) /\ a.op # b.op => a.flags \cap b.flags = {}
OrderIndependent(r) ==
    (IF IsText(mine[1]) /\ IsText(theirs[1]) THEN TextsApart(mine[1], theirs[1])
     ELSE RightsApart(mine[1], theirs[1]))
        => r.doc = There.doc

(* Any two concurrent operations on any string. OtMerger.ts:58.            *)
PairsMerge ==
    mine # <<>> => \A r \in {Here} :
        /\ InsertAfterInsert(r) /\ InsertAfterRemoval(r)
        /\ RemovalAfterInsert(r) /\ RemovalAfterRemoval(r)
        /\ OnRights(r) /\ OrderIndependent(r)
=============================================================================
