------------------------------ MODULE RbString ------------------------------
(***************************************************************************)
(* Strings of the C++ code: the wrapper that records operations            *)
(* (RB/cpp/RiotBase/Variable/String/OtWrapperString.cpp) and the merger    *)
(* of its patches (Variable/Ot/OtWrapper.h).                               *)
(*                                                                         *)
(* A wrapper is a record: the text, the cursors (identifier -> position    *)
(* and owner), the rights of users and groups. An operation is a record    *)
(* whose field op is its name in the code. A patch, or one of the buffers  *)
(* of the merger, is a sequence of operations; identifiers of cursors are  *)
(* the pairs (dev_id, loc_id), 0 standing for a loc_id equal to 0.         *)
(***************************************************************************)
EXTENDS Integers, Sequences, FiniteSets, SequencesExt

CONSTANTS
    Who,        \* users and groups
    Width       \* 2^w for the unsigned type PT

Lesser(a, b) == IF a < b THEN a ELSE b

Upto(s, n) == SubSeq(s, 1, Lesser(n, Len(s)))
From(s, n) == SubSeq(s, n + 1, Len(s))

Rights == {"add_rights", "rem_rights", "read", "insert", "append", "remove"}

OpInsert(p, s) == [op |-> "insert", pos |-> p, str |-> s]
OpRemove(p, l) == [op |-> "remove", pos |-> p, len |-> l]
OpRemoveUnd(p, s) == [op |-> "remove_und", pos |-> p, str |-> s]
OpNewCursor(c, p) == [op |-> "new_cursor", cur |-> c, pos |-> p]
OpSetCursor(c, p) == [op |-> "set_cursor", cur |-> c, pos |-> p]
OpSetCursorUnd(c, p, q) == [op |-> "set_cursor_und", cur |-> c, pos |-> p, old |-> q]
OpRemCursor(c) == [op |-> "rem_cursor", cur |-> c]
OpRemCursorUnd(c, q, u) == [op |-> "rem_cursor_und", cur |-> c, old |-> q, usr |-> u]
OpAddRight(w, f) == [op |-> "add_right", who |-> w, flags |-> f]
OpRemRight(w, f) == [op |-> "rem_right", who |-> w, flags |-> f]

Removals == {"remove", "remove_und"}
Placed == {"new_cursor", "set_cursor", "set_cursor_und"}
Sets == {"set_cursor", "set_cursor_und"}
Rems == {"rem_cursor", "rem_cursor_und"}
RightOps == {"add_right", "rem_right"}
CursorOps == Placed \cup Rems

LenOf(o) == IF o.op = "remove" THEN o.len ELSE Len(o.str)

(* The operation o without the n characters that follow the first k. *)
Cut(o, k, n) ==
    IF o.op = "remove" THEN [o EXCEPT !.len = @ - n]
    ELSE [o EXCEPT !.str = Upto(@, k) \o From(@, k + n)]

Valid(o) ==
    IF o.op \in RightOps THEN o.flags # {}
    ELSE IF o.op \in CursorOps THEN o.cur # 0
    ELSE LenOf(o) > 0

RightTo(w, o, usr) ==
    CASE o.op = "insert" -> \/ "insert" \in w.rights[usr]
                            \/ o.pos = Len(w.text) /\ "append" \in w.rights[usr]
      [] o.op \in Removals  -> "remove" \in w.rights[usr]
      [] o.op \in CursorOps -> "read" \in w.rights[usr]
      [] o.op = "add_right" -> "add_rights" \in w.rights[usr]
      [] o.op = "rem_right" -> "rem_rights" \in w.rights[usr]

-----------------------------------------------------------------------------
(* apply_op *)

(* GenString::self_insert does nothing beyond the end. *)
SelfInsert(s, pos, t) == IF pos > Len(s) THEN s ELSE Upto(s, pos) \o t \o From(s, pos)

(* GenString::self_remove shrinks the string by len wherever it starts;    *)
(* a len beyond the size wraps it around: the contents are lost.           *)
SelfRemove(s, pos, len) ==
    IF len > Len(s) THEN <<"lost">>
    ELSE IF pos + len > Len(s) THEN Upto(s, Len(s) - len)
    ELSE Upto(s, pos) \o From(s, pos + len)

AfterInsert(pos, o) == IF pos >= o.pos THEN pos + LenOf(o) ELSE pos

AfterRemove(pos, o) ==
    IF pos >= o.pos + LenOf(o) THEN pos - LenOf(o)
    ELSE IF pos > o.pos THEN o.pos
    ELSE pos

Positions(w) == {w.cursors[c].pos : c \in DOMAIN w.cursors}
MoveCursors(w, moved) == [c \in DOMAIN w.cursors |-> [w.cursors[c] EXCEPT !.pos = moved[@]]]

ApplyInsert(w, o) ==
    [w EXCEPT !.text = SelfInsert(@, o.pos, o.str),
              !.cursors = MoveCursors(w, [p \in Positions(w) |-> AfterInsert(p, o)])]

ApplyRemove(w, o) ==
    [w EXCEPT !.text = SelfRemove(@, o.pos, LenOf(o)),
              !.cursors = MoveCursors(w, [p \in Positions(w) |-> AfterRemove(p, o)])]

WithCursor(w, c, pos, usr) ==
    [w EXCEPT !.cursors = [d \in DOMAIN @ \cup {c} |->
                              IF d = c THEN [pos |-> pos, usr |-> usr] ELSE @[d]]]

PlaceCursor(w, c, pos) ==
    [w EXCEPT !.cursors = [d \in DOMAIN @ |->
                              IF d = c THEN [@[d] EXCEPT !.pos = pos] ELSE @[d]]]

WithoutCursor(w, c) == [w EXCEPT !.cursors = [d \in DOMAIN @ \ {c} |-> @[d]]]

Apply(w, o, usr) ==
    CASE o.op = "insert"       -> ApplyInsert(w, o)
      [] o.op \in Removals     -> ApplyRemove(w, o)
      [] o.op = "new_cursor"   -> WithCursor(w, o.cur, o.pos, usr)
      [] o.op \in Sets         -> PlaceCursor(w, o.cur, o.pos)
      [] o.op \in Rems         -> WithoutCursor(w, o.cur)
      [] o.op = "add_right"    -> [w EXCEPT !.rights[o.who] = @ \cup o.flags]
      [] o.op = "rem_right"    -> [w EXCEPT !.rights[o.who] = @ \ o.flags]

(* Fault: the cursors stay when an insertion is undone. *)
UndoOpText(w, o, usr) ==
    CASE o.op = "insert"         -> [w EXCEPT !.text = SelfRemove(@, o.pos, LenOf(o))]
      [] o.op = "remove_und"     -> ApplyInsert(w, o)
      [] o.op = "new_cursor"     -> WithoutCursor(w, o.cur)
      [] o.op = "set_cursor_und" -> PlaceCursor(w, o.cur, o.old)
      [] OTHER                   -> w

(* undo_patch. A cursor that comes back belongs to the user who undoes.    *)
(* The operations that keep no old value only print a warning.             *)
UndoOp(w, o, usr) ==
    CASE o.op = "insert"         -> ApplyRemove(w, o)
      [] o.op = "remove_und"     -> ApplyInsert(w, o)
      [] o.op = "new_cursor"     -> WithoutCursor(w, o.cur)
      [] o.op = "set_cursor_und" -> PlaceCursor(w, o.cur, o.old)
      [] o.op = "rem_cursor_und" -> WithCursor(w, o.cur, o.old, usr)
      [] o.op = "add_right"      -> Apply(w, OpRemRight(o.who, o.flags), usr)
      [] o.op = "rem_right"      -> Apply(w, OpAddRight(o.who, o.flags), usr)
      [] OTHER                   -> w

-----------------------------------------------------------------------------
(* What a user does, registers and sees: ops is what goes to last_ops.     *)

Done(w, o, usr) == [w |-> Apply(w, o, usr), ops |-> <<o>>]
Refused(w) == [w |-> w, ops |-> <<>>]

UserInsert(w, usr, pos, str) ==
    IF RightTo(w, OpInsert(pos, str), usr) THEN Done(w, OpInsert(pos, str), usr)
    ELSE Refused(w)

UserRemove(w, usr, pos, len) ==
    LET p == Lesser(pos, Len(w.text))
        l == Lesser(len, Len(w.text) - p)
    IN  IF RightTo(w, OpRemove(pos, len), usr)
        THEN Done(w, OpRemoveUnd(p, SubSeq(w.text, p + 1, p + l)), usr)
        ELSE Refused(w)

(* A new cursor belongs to the default user, here usr. *)
UserNewCursor(w, usr, c, pos) ==
    IF "read" \in w.rights[usr] THEN Done(w, OpNewCursor(c, pos), usr) ELSE Refused(w)

UserSetCursor(w, usr, c, pos) ==
    IF "read" \in w.rights[usr] /\ c \in DOMAIN w.cursors /\ w.cursors[c].pos # pos
    THEN Done(w, OpSetCursorUnd(c, pos, w.cursors[c].pos), usr)
    ELSE Refused(w)

UserRemCursor(w, usr, c) ==
    IF "read" \in w.rights[usr] /\ c \in DOMAIN w.cursors
    THEN Done(w, OpRemCursorUnd(c, w.cursors[c].pos, w.cursors[c].usr), usr)
    ELSE Refused(w)

UserAddRight(w, usr, who, flags) ==
    IF "add_rights" \in w.rights[usr] /\ flags \ w.rights[who] # {}
    THEN Done(w, OpAddRight(who, flags \ w.rights[who]), usr)
    ELSE Refused(w)

UserRemRight(w, usr, who, flags) ==
    IF "rem_rights" \in w.rights[usr] /\ flags \cap w.rights[who] # {}
    THEN Done(w, OpRemRight(who, flags \cap w.rights[who]), usr)
    ELSE Refused(w)

(* transmission: what can be found again on the other side is not sent. *)
Sent(o) ==
    CASE o.op = "remove_und"     -> OpRemove(o.pos, Len(o.str))
      [] o.op = "set_cursor_und" -> OpSetCursor(o.cur, o.pos)
      [] o.op = "rem_cursor_und" -> OpRemCursor(o.cur)
      [] OTHER                   -> o

Message(ops) == [i \in DOMAIN ops |-> Sent(ops[i])]

(* register_patch_op: it is found again. *)
Stored(w, o) ==
    LET known == o.cur \in DOMAIN w.cursors
    IN  CASE o.op = "remove" ->
               OpRemoveUnd(o.pos, SubSeq(w.text, o.pos + 1, Lesser(o.pos + o.len, Len(w.text))))
          [] o.op = "set_cursor" ->
               OpSetCursorUnd(o.cur, o.pos, IF known THEN w.cursors[o.cur].pos ELSE 0)
          [] o.op = "rem_cursor" ->
               OpRemCursorUnd(o.cur, IF known THEN w.cursors[o.cur].pos ELSE 0,
                                   IF known THEN w.cursors[o.cur].usr ELSE "nobody")
          [] OTHER -> o

(* reverse_patch_data_visitor: the operations, the last one first. *)
Undo(w, data, usr) == FoldLeft(LAMBDA s, o : UndoOp(s, o, usr), w, Reverse(data))
Redo(w, data, usr) == FoldLeft(LAMBDA s, o : Apply(s, o, usr), w, data)

-----------------------------------------------------------------------------
(* unk_new_or_new_unk: a new operation n against o, which was done without *)
(* knowing n. The result: n after o; o after n; before, what is written    *)
(* for o before o itself; now, the part of n that is registered and        *)
(* applied at once.                                                        *)

Pair(n, o) == [n |-> n, o |-> o, before |-> <<>>, now |-> <<>>]

InsertInsert(n, o) ==
    IF o.pos > n.pos THEN Pair(n, [o EXCEPT !.pos = @ + LenOf(n)])
    ELSE Pair([n EXCEPT !.pos = @ + LenOf(o)], o)

(* An insertion inside a removed text cuts the removal. *)
InsertRemoval(n, o) ==
    LET k == n.pos - o.pos
        l == LenOf(o)
    IN  IF n.pos >= o.pos + l THEN Pair([n EXCEPT !.pos = @ - l], o)
        ELSE IF n.pos <= o.pos THEN Pair(n, [o EXCEPT !.pos = @ + LenOf(n)])
        ELSE [Pair([n EXCEPT !.pos = o.pos],
                   [Cut(o, 0, k) EXCEPT !.pos = @ + LenOf(n)])
                 EXCEPT !.before = <<Cut(o, k, l - k)>>]

RemovalInsert(n, o, w) ==
    LET k == o.pos - n.pos
        first == Cut(n, k, LenOf(n) - k)
    IN  IF o.pos <= n.pos THEN Pair([n EXCEPT !.pos = @ + LenOf(o)], o)
        ELSE IF o.pos >= n.pos + LenOf(n) THEN Pair(n, [o EXCEPT !.pos = @ - LenOf(n)])
        ELSE [Pair([Cut(n, 0, k) EXCEPT !.pos = @ + LenOf(o)],
                   [o EXCEPT !.pos = n.pos])
                 EXCEPT !.now = <<Stored(w, first)>>]

RemovalRemoval(n, o) ==
    LET ln == LenOf(n)
        lo == LenOf(o)
        ahead == o.pos + lo - n.pos     \* d, when o starts first
        behind == n.pos + ln - o.pos    \* d, when n starts first
    IN  IF o.pos <= n.pos
        THEN IF ahead <= 0 THEN Pair([n EXCEPT !.pos = @ - lo], o)
             ELSE IF ahead <= ln
             THEN Pair([Cut(n, 0, ahead) EXCEPT !.pos = o.pos], Cut(o, lo - ahead, ahead))
             ELSE Pair(Cut(n, 0, ln), Cut(o, n.pos - o.pos, ln))
        ELSE IF behind <= 0 THEN Pair(n, [o EXCEPT !.pos = @ - ln])
             ELSE IF behind <= lo
             THEN Pair(Cut(n, ln - behind, behind), [Cut(o, 0, behind) EXCEPT !.pos = n.pos])
             ELSE Pair(Cut(n, o.pos - n.pos, lo), Cut(o, 0, lo))

UnkInsert(n, o, w) ==
    CASE o.op = "insert"   -> InsertInsert(n, o)
      [] o.op \in Removals -> InsertRemoval(n, o)
      [] o.op \in Placed   -> Pair(n, [o EXCEPT !.pos = AfterInsert(@, n)])
      [] OTHER             -> Pair(n, o)

UnkRemove(n, o, w) ==
    CASE o.op = "insert"   -> RemovalInsert(n, o, w)
      [] o.op \in Removals -> RemovalRemoval(n, o)
      [] o.op \in Placed   -> Pair(n, [o EXCEPT !.pos = AfterRemove(@, n)])
      [] OTHER             -> Pair(n, o)

(* The overloads of op_remove_und: the same, n has its own text. *)
UnkRemoveUnd(n, o, w) == UnkRemove(n, o, w)

(* A position that n gives to a cursor moves with the text. *)
UnkPlaced(n, o) ==
    CASE o.op = "insert"   -> Pair([n EXCEPT !.pos = AfterInsert(@, o)], o)
      [] o.op \in Removals -> Pair([n EXCEPT !.pos = AfterRemove(@, o)], o)
      [] OTHER             -> Pair(n, o)

(* Two positions of one cursor: n wins. A cursor removed meanwhile: n is   *)
(* void. The overload against op_rem_cursor has one parameter too many and *)
(* is never chosen.                                                        *)
UnkSetCursor(n, o) ==
    IF o.op \in Sets /\ o.cur = n.cur THEN Pair(n, [o EXCEPT !.cur = 0])
    ELSE IF o.op = "rem_cursor_und" /\ o.cur = n.cur THEN Pair([n EXCEPT !.cur = 0], o)
    ELSE UnkPlaced(n, o)

UnkRemCursor(n, o) ==
    IF o.op \in CursorOps /\ o.cur = n.cur THEN Pair(n, [o EXCEPT !.cur = 0])
    ELSE Pair(n, o)

UnkRight(n, o) ==
    IF o.op \in RightOps /\ o.who = n.who THEN Pair(n, [o EXCEPT !.flags = @ \ n.flags])
    ELSE Pair(n, o)

UnkNewOrNewUnk(n, o, w) ==
    CASE n.op = "insert"     -> UnkInsert(n, o, w)
      [] n.op = "remove"     -> UnkRemove(n, o, w)
      [] n.op = "remove_und" -> UnkRemoveUnd(n, o, w)
      [] n.op = "new_cursor" -> UnkPlaced(n, o)
      [] n.op \in Sets       -> UnkSetCursor(n, o)
      [] n.op \in Rems       -> UnkRemCursor(n, o)
      [] n.op \in RightOps   -> UnkRight(n, o)

-----------------------------------------------------------------------------
(* unk_std_comb: u is an unknown operation, s a known one done after it.   *)
(* The result: s and u such that s can be done first, and u after it.      *)
(* Positions are unsigned.                                                 *)

Minus(a, b) == (a - b) % Width

Swap(s, u) == [s |-> s, u |-> u]

StdInsert(s, u) ==
    CASE u.op = "insert" ->
           IF u.pos > s.pos THEN Swap(s, [u EXCEPT !.pos = @ + LenOf(s)])
           ELSE Swap([s EXCEPT !.pos = Minus(@, LenOf(u))], u)
      [] u.op \in Removals ->
           IF s.pos > u.pos THEN Swap([s EXCEPT !.pos = @ + LenOf(u)], u)
           ELSE Swap(s, [u EXCEPT !.pos = @ + LenOf(s)])
      [] u.op \in Placed -> Swap(s, [u EXCEPT !.pos = AfterInsert(@, s)])
      [] OTHER -> Swap(s, u)

StdRemove(s, u) ==
    CASE u.op = "insert" ->
           IF u.pos > s.pos THEN Swap(s, [u EXCEPT !.pos = Minus(@, LenOf(s))])
           ELSE Swap([s EXCEPT !.pos = Minus(@, LenOf(u))], u)
      [] u.op \in Removals ->
           IF s.pos >= u.pos THEN Swap([s EXCEPT !.pos = @ + LenOf(u)], u)
           ELSE IF s.pos + LenOf(s) <= u.pos
           THEN Swap(s, [u EXCEPT !.pos = Minus(@, LenOf(s))])
           ELSE Swap(s, [u EXCEPT !.pos = s.pos])
      [] u.op \in Placed -> Swap(s, [u EXCEPT !.pos = AfterRemove(@, s)])
      [] OTHER -> Swap(s, u)

(* The overloads of op_remove_und are the same. *)
StdRemoveUnd(s, u) == StdRemove(s, u)

(* A position or a removal of a cursor makes what u does to it void. *)
StdCursor(s, u) ==
    IF u.op \in Placed /\ u.cur = s.cur THEN Swap(s, [u EXCEPT !.cur = 0]) ELSE Swap(s, u)

StdRight(s, u) ==
    IF u.op \in RightOps /\ u.who = s.who THEN Swap(s, [u EXCEPT !.flags = @ \ s.flags])
    ELSE Swap(s, u)

UnkStdComb(s, u) ==
    CASE s.op = "insert"       -> StdInsert(s, u)
      [] s.op = "remove"       -> StdRemove(s, u)
      [] s.op = "remove_und"   -> StdRemoveUnd(s, u)
      [] s.op \in Sets \cup Rems -> StdCursor(s, u)
      [] s.op \in RightOps     -> StdRight(s, u)
      [] OTHER                 -> Swap(s, u)

-----------------------------------------------------------------------------
(* The merger. st: the wrapper w, the buffer cq of the other side (cq_unk  *)
(* or cq_new), what has been registered so far (tmp_res).                  *)

UpdatePatchDataL0(w, o) ==
    CASE o.op = "add_right" -> [o EXCEPT !.flags = @ \ w.rights[o.who]]
      [] o.op = "rem_right" -> [o EXCEPT !.flags = @ \cap w.rights[o.who]]
      [] OTHER -> o

(* One turn of the inner loop, with what came out of the transformation.   *)
(* An o that has become void is not written to the updated cq.             *)
Passed(s, r, usr) ==
    [w   |-> Redo(s.w, r.now, usr),
     n   |-> r.n,
     upd |-> s.upd \o r.before \o (IF Valid(r.o) THEN <<r.o>> ELSE <<>>),
     out |-> s.out \o r.now]

(* The inner loop: n against each operation o of cq. *)
Against(st, n, usr) ==
    FoldLeft(LAMBDA s, o : Passed(s, UnkNewOrNewUnk(s.n, o, s.w), usr),
             [w |-> st.w, n |-> UpdatePatchDataL0(st.w, n), upd |-> <<>>, out |-> st.out],
             st.cq)

(* The end of a turn of the outer loop; reg: the operations are            *)
(* registered, or kept as they are read. Reading cq empties it: when n is  *)
(* void or not allowed, the updated cq is dropped and cq stays empty.      *)
Merged(a, usr, reg) ==
    IF Valid(a.n) /\ RightTo(a.w, a.n, usr)
    THEN [w |-> Apply(a.w, a.n, usr), cq |-> a.upd,
          out |-> Append(a.out, IF reg THEN Stored(a.w, a.n) ELSE a.n)]
    ELSE [w |-> a.w, cq |-> <<>>, out |-> a.out]

(* The loop over the patch. *)
MergeOp(st, n, usr, reg) == Merged(Against(st, n, usr), usr, reg)

MergePatch(w, cq, msg, usr, reg) ==
    FoldLeft(LAMBDA st, n : MergeOp(st, n, usr, reg), [w |-> w, cq |-> cq, out |-> <<>>], msg)

(* m: the wrapper w, cq_unk, cq_new, and res, what is stored in the log.   *)
(* more: patches of another kind remain to be merged.                      *)
NewMerged(m, r, more) ==
    [w |-> r.w, unk |-> r.cq, new |-> m.new \o (IF more THEN r.out ELSE <<>>), res |-> r.out]

NewPatch(m, msg, usr, more) == NewMerged(m, MergePatch(m.w, m.unk, msg, usr, TRUE), more)

UnkMerged(m, r, more) ==
    [w |-> r.w, new |-> r.cq, unk |-> m.unk \o (IF more THEN r.out ELSE <<>>), res |-> r.out]

UnkPatch(m, msg, usr, more) == UnkMerged(m, MergePatch(m.w, m.new, msg, usr, FALSE), more)

(* cq_unk after the known operation s: its operations are read backwards,  *)
(* and s goes back before each of them.                                    *)
SentBack(b, r) == [s |-> r.s, upd |-> Append(b.upd, r.u)]
UnkAfter(unk, s) ==
    Reverse(FoldLeft(LAMBDA b, u : SentBack(b, UnkStdComb(b.s, u)),
                     [s |-> s, upd |-> <<>>], Reverse(unk)).upd)

StdMerged(m, r) ==
    [w |-> r.w, new |-> r.cq, unk |-> FoldLeft(UnkAfter, m.unk, r.out), res |-> r.out]

StdPatch(m, msg, usr) == StdMerged(m, MergePatch(m.w, m.new, msg, usr, FALSE))

Merger(w) == [w |-> w, unk |-> <<>>, new |-> <<>>, res |-> <<>>]

=============================================================================
