----------------------------- MODULE RbTsString -----------------------------
(***************************************************************************)
(* Strings of the TypeScript client (RB/ts/RiotBase/Variable/String/       *)
(* OtWrapperString.ts over GenString.ts), their merger (Variable/Ot/       *)
(* OtMerger.ts, OtWrapper.ts), and a page that edits one: what it does     *)
(* between two calls of pull_ot_changes is sent to a copy.                 *)
(*                                                                         *)
(* A wrapper is [text, cursors, rights, threw]: the cursors in the order   *)
(* of their list, each [cur, at, old, usr] with cur its identifiers        *)
(* (dev_id, loc_id), at its carets (the pairs beg, end: foc never changes) *)
(* and old what its device announced last; threw, whether an exception of  *)
(* the code has left a merge half done. One user, "me", edits everywhere;  *)
(* the rights of the others are data.                                      *)
(***************************************************************************)
EXTENDS Integers, Sequences, SequencesExt, FiniteSets

CONSTANTS
    TextChars,  \* the characters a user types
    Carets,     \* the lists of carets a user gives to a cursor
    MaxTyped,   \* bound: operations of the page
    MaxShown    \* bound: length of its text

VARIABLES
    page,       \* the wrapper, new_cursors, mod_cursors, rem_cursors, last_ops
    copy,       \* the wrapper that receives the patches of the page
    typed       \* how many operations the user has done

tsvars == <<page, copy, typed>>

Rights == {"add_rights", "rem_rights", "read", "insert", "remove", "append"}
Nobody == "undefined"

OpInsert(p, s) == [op |-> "insert", pos |-> p, str |-> s]
OpRemove(p, l) == [op |-> "remove", pos |-> p, len |-> l]
OpRemoveUnd(p, s) == [op |-> "remove_und", pos |-> p, str |-> s]
OpNewCursor(c, at) == [op |-> "new_cursor", cur |-> c, at |-> at]
OpSetCursor(c, at) == [op |-> "set_cursor", cur |-> c, at |-> at]
OpSetCursorUnd(c, at, old) == [op |-> "set_cursor_und", cur |-> c, at |-> at, old |-> old]
OpRemCursor(c) == [op |-> "rem_cursor", cur |-> c]
OpRemCursorUnd(c, old, usr) == [op |-> "rem_cursor_und", cur |-> c, old |-> old, usr |-> usr]
OpAddRight(who, flags) == [op |-> "add_right", who |-> who, flags |-> flags]
OpRemRight(who, flags) == [op |-> "rem_right", who |-> who, flags |-> flags]

Removals == {"remove", "remove_und"}
Placed == {"new_cursor", "set_cursor", "set_cursor_und"}
CursorOps == Placed \cup {"rem_cursor", "rem_cursor_und"}
RightOps == {"add_right", "rem_right"}

LenOf(o) == IF o.op = "remove" THEN o.len ELSE Len(o.str)

\* slice: what is out of the text is left out.
Upto(s, n) == SubSeq(s, 1, IF n < Len(s) THEN n ELSE Len(s))
From(s, n) == SubSeq(s, n + 1, Len(s))

\* The removal o without the n characters that follow its first k.
Cut(o, k, n) ==
    IF o.op = "remove" THEN [o EXCEPT !.len = @ - n]
    ELSE [o EXCEPT !.str = Upto(@, k) \o From(@, k + n)]

\* set_cursor_und.valid has one parameter too many: what it compares with 0 is
\* the list of carets.
Valid(o) ==
    CASE o.op \in Removals \cup {"insert"} -> LenOf(o) # 0
      [] o.op = "set_cursor_und"           -> o.at # <<>>
      [] o.op \in CursorOps                -> o.cur # 0
      [] o.op \in RightOps                 -> o.flags # {}

\* spread: whether the caller gives the arguments one by one, or all in a list,
\* which is never the length of the text.
RightTo(w, o, spread) ==
    LET flags == w.rights["me"]
    IN  CASE o.op = "insert" -> \/ "insert" \in flags
                                \/ spread /\ o.pos = Len(w.text) /\ "append" \in flags
          [] o.op \in Removals  -> "remove" \in flags
          [] o.op \in CursorOps -> "read" \in flags
          [] o.op = "add_right" -> "add_rights" \in flags
          [] o.op = "rem_right" -> "rem_rights" \in flags

-----------------------------------------------------------------------------
(* apply_op and undo of the operations *)

AfterInsert(p, o) == IF p >= o.pos THEN p + LenOf(o) ELSE p

AfterRemove(p, o) ==
    IF p >= o.pos + LenOf(o) THEN p - LenOf(o)
    ELSE IF p > o.pos THEN o.pos ELSE p

CaretsAfter(at, o) ==
    [i \in DOMAIN at |-> [k \in DOMAIN at[i] |->
        IF o.op = "insert" THEN AfterInsert(at[i][k], o) ELSE AfterRemove(at[i][k], o)]]

MoveCursors(w, o) ==
    [w EXCEPT !.cursors = [i \in DOMAIN @ |-> [@[i] EXCEPT !.at = CaretsAfter(@, o)]]]

ApplyInsert(w, o) ==
    [MoveCursors(w, o) EXCEPT !.text = Upto(@, o.pos) \o o.str \o From(@, o.pos)]

ApplyRemove(w, o) ==
    LET r == OpRemove(o.pos, LenOf(o))
    IN  [MoveCursors(w, r) EXCEPT !.text = Upto(@, r.pos) \o From(@, r.pos + r.len)]

Index(w, c) == SelectInSeq(w.cursors, LAMBDA x : x.cur = c)
IdsOf(w) == {w.cursors[i].cur : i \in DOMAIN w.cursors}

\* The user of a merged cursor is read in a field that nobody sets.
AddCursor(w, c, at) ==
    [w EXCEPT !.cursors = Append(@, [cur |-> c, at |-> at, old |-> <<>>, usr |-> Nobody])]

PlaceCursor(w, c, at) ==
    [w EXCEPT !.cursors = [i \in DOMAIN @ |->
        IF i = Index(w, c) THEN [@[i] EXCEPT !.at = at] ELSE @[i]]]

DropCursor(w, c) ==
    IF c \in IdsOf(w) THEN [w EXCEPT !.cursors = RemoveAt(@, Index(w, c))] ELSE w

AddFlags(w, who, flags) == [w EXCEPT !.rights[who] = @ \cup flags]
RemFlags(w, who, flags) == [w EXCEPT !.rights[who] = @ \ flags]

Apply(w, o) ==
    CASE o.op = "insert"     -> ApplyInsert(w, o)
      [] o.op \in Removals   -> ApplyRemove(w, o)
      [] o.op = "new_cursor" -> AddCursor(w, o.cur, o.at)
      [] o.op \in Placed     -> PlaceCursor(w, o.cur, o.at)
      [] o.op \in CursorOps  -> DropCursor(w, o.cur)
      [] o.op = "add_right"  -> AddFlags(w, o.who, o.flags)
      [] o.op = "rem_right"  -> RemFlags(w, o.who, o.flags)

\* The operations that keep no old value cannot be undone.
UndoOp(w, o) ==
    CASE o.op = "insert"         -> ApplyRemove(w, o)
      [] o.op = "remove_und"     -> ApplyInsert(w, OpInsert(o.pos, o.str))
      [] o.op = "new_cursor"     -> DropCursor(w, o.cur)
      [] o.op = "set_cursor_und" -> PlaceCursor(w, o.cur, o.old)
      [] o.op = "rem_cursor_und" -> AddCursor(w, o.cur, o.old)
      [] o.op = "add_right"      -> RemFlags(w, o.who, o.flags)
      [] o.op = "rem_right"      -> AddFlags(w, o.who, o.flags)
      [] OTHER                   -> [w EXCEPT !.threw = TRUE]

\* reverse_patch_data_visitor starts to read at the numbers of the operations
\* and not at their offsets: only a patch of one operation is read right.
Undo(w, data) ==
    IF data = <<>> THEN w
    ELSE IF Len(data) = 1 THEN UndoOp(w, data[1])
    ELSE [w EXCEPT !.threw = TRUE]

Redo(w, data) == FoldLeft(Apply, w, data)

-----------------------------------------------------------------------------
(* unk_new_or_new_unk: n is taken after o, which did not know it. The      *)
(* result: n after o, o after n, what is written for o before o itself, and *)
(* now, the part of n that is registered and done at once; threw.          *)

Both(n, o) == [n |-> n, o |-> o, before |-> <<>>, now |-> <<>>, threw |-> FALSE]

InsertInsert(n, o) ==
    IF o.pos > n.pos THEN Both(n, [o EXCEPT !.pos = @ + LenOf(n)])
    ELSE Both([n EXCEPT !.pos = @ + LenOf(o)], o)

InsertRemoval(n, o) ==
    LET k == n.pos - o.pos
    IN  IF k >= LenOf(o) THEN Both([n EXCEPT !.pos = @ - LenOf(o)], o)
        ELSE IF k <= 0 THEN Both(n, [o EXCEPT !.pos = @ + LenOf(n)])
        ELSE [Both([n EXCEPT !.pos = o.pos], [Cut(o, 0, k) EXCEPT !.pos = @ + LenOf(n)])
                 EXCEPT !.before = <<Cut(o, k, LenOf(o) - k)>>]

\* The first part of a removal that an insertion cuts in two; what a `remove'
\* takes away is read in the text.
FirstPart(n, k, w) ==
    OpRemoveUnd(n.pos, IF n.op = "remove" THEN Upto(From(w.text, n.pos), k) ELSE Upto(n.str, k))

\* Fault: what is left to remove stays before the inserted text.
RemovalInsertStays(n, o, w) ==
    LET k == o.pos - n.pos
    IN  IF k <= 0 THEN Both([n EXCEPT !.pos = @ + LenOf(o)], o)
        ELSE IF k >= LenOf(n) THEN Both(n, [o EXCEPT !.pos = @ - LenOf(n)])
        ELSE [Both(Cut(n, 0, k), [o EXCEPT !.pos = n.pos]) EXCEPT !.now = <<FirstPart(n, k, w)>>]

RemovalInsert(n, o, w) ==
    LET k == o.pos - n.pos
    IN  IF k <= 0 THEN Both([n EXCEPT !.pos = @ + LenOf(o)], o)
        ELSE IF k >= LenOf(n) THEN Both(n, [o EXCEPT !.pos = @ - LenOf(n)])
        ELSE [Both([Cut(n, 0, k) EXCEPT !.pos = @ + LenOf(o)], [o EXCEPT !.pos = n.pos])
                 EXCEPT !.now = <<FirstPart(n, k, w)>>]

\* When a `remove' covers the text that a `remove_und' removes, the code calls a
\* method that strings do not have.
RemovalRemoval(n, o) ==
    LET ln == LenOf(n)
        lo == LenOf(o)
        ahead == o.pos + lo - n.pos     \* d, if o starts first
        behind == n.pos + ln - o.pos    \* d, if n starts first
    IN  IF o.pos <= n.pos
        THEN IF ahead <= 0 THEN Both([n EXCEPT !.pos = @ - lo], o)
             ELSE IF ahead <= ln
             THEN Both([Cut(n, 0, ahead) EXCEPT !.pos = o.pos], Cut(o, lo - ahead, ahead))
             ELSE [Both(Cut(n, 0, ln), Cut(o, n.pos - o.pos, ln))
                      EXCEPT !.threw = (n.op = "remove_und" /\ o.op = "remove")]
        ELSE IF behind <= 0 THEN Both(n, [o EXCEPT !.pos = @ - ln])
             ELSE IF behind <= lo
             THEN Both(Cut(n, ln - behind, behind), [Cut(o, 0, behind) EXCEPT !.pos = n.pos])
             ELSE Both(Cut(n, o.pos - n.pos, lo), Cut(o, 0, lo))

UnkInsert(n, o) ==
    CASE o.op = "insert"   -> InsertInsert(n, o)
      [] o.op \in Removals -> InsertRemoval(n, o)
      [] o.op \in Placed   -> Both(n, [o EXCEPT !.at = CaretsAfter(@, n)])
      [] OTHER             -> Both(n, o)

UnkRemove(n, o, w) ==
    CASE o.op = "insert"   -> RemovalInsert(n, o, w)
      [] o.op \in Removals -> RemovalRemoval(n, o)
      [] o.op \in Placed   -> Both(n, [o EXCEPT !.at = CaretsAfter(@, n)])
      [] OTHER             -> Both(n, o)

\* A place that n gives to a cursor moves with the text.
UnkPlaced(n, o) ==
    IF o.op \in Removals \cup {"insert"} THEN Both([n EXCEPT !.at = CaretsAfter(@, o)], o)
    ELSE Both(n, o)

\* Two operations on one cursor, or on the rights of one user: the code compares
\* the identifiers as objects, each has been read from its own buffer, nothing is
\* ever made void.
UnkSameCursor(n, o) == Both(n, o)
UnkSameUser(n, o) == Both(n, o)

UnkNewOrNewUnk(n, o, w) ==
    CASE n.op = "insert"     -> UnkInsert(n, o)
      [] n.op \in Removals   -> UnkRemove(n, o, w)
      [] n.op \in Placed     -> IF o.op \in CursorOps THEN UnkSameCursor(n, o) ELSE UnkPlaced(n, o)
      [] n.op \in CursorOps  -> UnkSameCursor(n, o)
      [] n.op \in RightOps   -> UnkSameUser(n, o)

-----------------------------------------------------------------------------
(* unk_std_comb: u is an unknown operation, s a known one stored after it. *)
(* The result: s as it is without u, u as it is after s.                   *)

Swap(s, u) == [s |-> s, u |-> u]

StdInsert(s, u) ==
    CASE u.op = "insert" ->
           IF u.pos > s.pos THEN Swap(s, [u EXCEPT !.pos = @ + LenOf(s)])
           ELSE Swap([s EXCEPT !.pos = @ - LenOf(u)], u)
      [] u.op \in Removals ->
           IF s.pos > u.pos THEN Swap([s EXCEPT !.pos = @ + LenOf(u)], u)
           ELSE Swap(s, [u EXCEPT !.pos = @ + LenOf(s)])
      [] u.op \in Placed -> Swap(s, [u EXCEPT !.at = CaretsAfter(@, s)])
      [] OTHER -> Swap(s, u)

StdRemoveInsert(s, u) ==
    IF u.pos > s.pos THEN Swap(s, [u EXCEPT !.pos = @ - LenOf(s)])
    ELSE Swap([s EXCEPT !.pos = @ - LenOf(u)], u)

StdRemoveRemoval(s, u) ==
    IF s.pos >= u.pos THEN Swap([s EXCEPT !.pos = @ + LenOf(u)], u)
    ELSE IF s.pos + LenOf(s) <= u.pos THEN Swap(s, [u EXCEPT !.pos = @ - LenOf(s)])
    ELSE Swap(s, [u EXCEPT !.pos = s.pos])

StdRemove(s, u) ==
    CASE u.op = "insert"   -> StdRemoveInsert(s, u)
      [] u.op \in Removals -> StdRemoveRemoval(s, u)
      [] u.op \in Placed   -> Swap(s, [u EXCEPT !.at = CaretsAfter(@, s)])
      [] OTHER             -> Swap(s, u)

UnkStdComb(s, u) ==
    CASE s.op = "insert"   -> StdInsert(s, u)
      [] s.op \in Removals -> StdRemove(s, u)
      [] OTHER             -> Swap(s, u)      \* compared as objects

-----------------------------------------------------------------------------
(* The merger. A merge is [w, cq, out]: cq is cq_unk or cq_new, out what   *)
(* tmp_res holds.                                                          *)

UpdatePatchDataL0(w, o) ==
    CASE o.op = "add_right" -> [o EXCEPT !.flags = @ \ w.rights[o.who]]
      [] o.op = "rem_right" -> [o EXCEPT !.flags = @ \cap w.rights[o.who]]
      [] OTHER -> o

The(S) == CHOOSE x \in S : TRUE     \* of a set of one element

\* One turn of the inner loop, with the result r of the transformation.
Turned(s, r) ==
    [w |-> [Redo(s.w, r.now) EXCEPT !.threw = @ \/ r.threw], n |-> r.n, out |-> s.out \o r.now,
     upd |-> s.upd \o r.before \o (IF Valid(r.o) THEN <<r.o>> ELSE <<>>)]
Through(s, o) == The({Turned(s, r) : r \in {UnkNewOrNewUnk(s.n, o, s.w)}})

Against(st, n) ==
    FoldLeft(Through, [w |-> st.w, n |-> UpdatePatchDataL0(st.w, n), upd |-> <<>>, out |-> st.out],
             st.cq)

\* When the operation is void or refused, cq stays as it was before the loop.
Settled(a, cq, spread) ==
    IF Valid(a.n) /\ RightTo(a.w, a.n, spread)
    THEN [w |-> Apply(a.w, a.n), cq |-> a.upd, out |-> Append(a.out, a.n)]
    ELSE [w |-> a.w, cq |-> cq, out |-> a.out]
MergeOp(st, n, spread) == The({Settled(a, st.cq, spread) : a \in {Against(st, n)}})

MergePatch(w, cq, msg, spread) ==
    FoldLeft(LAMBDA st, n : MergeOp(st, n, spread), [w |-> w, cq |-> cq, out |-> <<>>], msg)

NewPatch(w, cq_unk, msg) == MergePatch(w, cq_unk, msg, TRUE)
UnkPatch(w, cq_new, msg) == MergePatch(w, cq_new, msg, FALSE)

-----------------------------------------------------------------------------
(* The page *)

Empty == [text |-> <<>>, cursors |-> <<>>, rights |-> [who \in {"me", "other"} |->
             IF who = "me" THEN Rights ELSE {}], threw |-> FALSE]

InitTs ==
    /\ page = [w |-> Empty, news |-> {}, mods |-> <<>>, rems |-> <<>>, last |-> <<>>, loc |-> 0]
    /\ copy = Empty
    /\ typed = 0

Typing == typed < MaxTyped /\ typed' = typed + 1 /\ UNCHANGED copy

Registered(o) == [page EXCEPT !.w = Apply(@, o), !.last = Append(@, o)]

SelfInsert ==
    /\ Typing /\ Len(page.w.text) < MaxShown
    /\ \E p \in 0 .. Len(page.w.text), c \in TextChars : page' = Registered(OpInsert(p, <<c>>))

\* A removal beyond the end is registered with the empty text that it removes.
SelfRemove ==
    /\ Typing
    /\ \E p \in 0 .. Len(page.w.text), l \in 1 .. 2 :
          page' = Registered(OpRemoveUnd(p, Upto(From(page.w.text, p), l)))

NewCursor ==
    /\ Typing
    /\ \E at \in Carets :
          page' = [page EXCEPT
              !.loc = @ + 1, !.news = @ \cup {page.loc + 1},
              !.w.cursors = Append(@, [cur |-> page.loc + 1, at |-> at, old |-> <<>>, usr |-> "me"])]

SetCursor ==
    /\ Typing
    /\ \E i \in DOMAIN page.w.cursors : \E at \in Carets \ {page.w.cursors[i].at} :
          page' = [page EXCEPT
              !.w.cursors[i].at = at,
              !.mods = IF Contains(@, page.w.cursors[i].cur) THEN @
                       ELSE Append(@, page.w.cursors[i].cur)]

RemCursor ==
    /\ Typing
    /\ \E i \in DOMAIN page.w.cursors :
          page' = [page EXCEPT !.w.cursors = RemoveAt(@, i), !.rems = Append(@, page.w.cursors[i])]

CursorNamed(c) == page.w.cursors[Index(page.w, c)]

\* freeze_last_changes: the cursors that moved and those that are new, where they
\* are now, those that are gone, with the user they had.
Moved == SelectSeq(page.mods, LAMBDA c : c \notin page.news /\ c \in IdsOf(page.w)
                                         /\ CursorNamed(c).at # CursorNamed(c).old)
Added == SelectSeq([i \in 1 .. page.loc |-> i], LAMBDA c : c \in page.news \cap IdsOf(page.w))

\* Mutant: the old carets are announced.
FrozenOld ==
    page.last
    \o [i \in DOMAIN Moved |-> OpSetCursorUnd(Moved[i], CursorNamed(Moved[i]).old, CursorNamed(Moved[i]).at)]
    \o [i \in DOMAIN Added |-> OpNewCursor(Added[i], CursorNamed(Added[i]).at)]
    \o [i \in DOMAIN page.rems |-> OpRemCursorUnd(page.rems[i].cur, page.rems[i].at, page.rems[i].usr)]

Frozen ==
    page.last
    \o [i \in DOMAIN Moved |-> OpSetCursorUnd(Moved[i], CursorNamed(Moved[i]).at, CursorNamed(Moved[i]).old)]
    \o [i \in DOMAIN Added |-> OpNewCursor(Added[i], CursorNamed(Added[i]).at)]
    \o [i \in DOMAIN page.rems |-> OpRemCursorUnd(page.rems[i].cur, page.rems[i].at, page.rems[i].usr)]

Announced(cursor) == [cursor EXCEPT !.old = cursor.at]

\* pull_ot_changes: the patch is made, and merged as new where nothing is unknown.
PullOtChanges ==
    /\ Frozen # <<>>
    /\ page' = [page EXCEPT
          !.news = {}, !.mods = <<>>, !.rems = <<>>, !.last = <<>>,
          !.w.cursors = [i \in DOMAIN @ |->
              IF Contains(Moved \o Added, @[i].cur) THEN Announced(@[i]) ELSE @[i]]]
    /\ copy' = NewPatch(copy, <<>>, Frozen).w
    /\ UNCHANGED typed

NextTs == SelfInsert \/ SelfRemove \/ NewCursor \/ SetCursor \/ RemCursor \/ PullOtChanges

(* After a patch of the page its copy has the same text and the same       *)
(* cursors; those that were moved or are new are where they are in the     *)
(* page, if they have a caret and the user did not put them back where     *)
(* they were announced (the announced place does not move with the text:   *)
(* such a cursor is not sent again). OtWrapperString.ts:437, 463.          *)
CopyFollows ==
    [][PullOtChanges =>
          /\ copy'.text = page.w.text /\ IdsOf(copy') = IdsOf(page.w)
          /\ \A c \in IdsOf(page.w) :
                (c \in page.news \/ c \in Range(page.mods)) /\ CursorNamed(c).at # <<>>
                /\ (c \in page.news \/ CursorNamed(c).at # CursorNamed(c).old)
                    => copy'.cursors[Index(copy', c)].at = CursorNamed(c).at]_tsvars

=============================================================================
