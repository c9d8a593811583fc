------------------------------ MODULE StringOt ------------------------------
(***************************************************************************)
(* The operational transformation of strings                               *)
(* (src/ts/LvString/OtWrapperStringOperations.ts, generated from           *)
(* GenOtWrapperStringOperations.ts).                                       *)
(*                                                                         *)
(* A document is a text, a sequence of characters, and the rights of its   *)
(* user. There is one user: the operations are made as `new UsrId', the    *)
(* local user, the usr_id of a Db is null, and no other could be read back *)
(* (UsrId.read_from then compares with an undefined user). A patch is a    *)
(* sequence of operations Insert, RemUnd, AddUsrRight and RemUsrRight:     *)
(* reg.Remove stores a Remove as the RemUnd that keeps the removed text,   *)
(* so no Remove is ever in a patch.                                        *)
(***************************************************************************)
EXTENDS Integers, Sequences

Lower(a, b) == IF a < b THEN a ELSE b
Higher(a, b) == IF a > b THEN a ELSE b

(* String.prototype.substr( k ) and substr( 0, n ). A negative start       *)
(* counts from the end, a length beyond the end is cut.                    *)
From(s, k) == SubSeq(s, 1 + (IF k < 0 THEN Higher(0, Len(s) + k) ELSE k), Len(s))
Upto(s, n) == SubSeq(s, 1, Lower(n, Len(s)))

Insert(pos, str) == [op |-> "Insert", pos |-> pos, str |-> str]
RemUnd(pos, str) == [op |-> "RemUnd", pos |-> pos, str |-> str]

AllRights == {"add_usr_right", "rem_usr_right", "read", "insert", "remove", "append"}
AddUsrRight(flags) == [op |-> "AddUsrRight", flags |-> flags]
RemUsrRight(flags) == [op |-> "RemUsrRight", flags |-> flags]
IsText(o) == o.op \in {"Insert", "RemUnd"}

Insertion(str, pos, sup) == Upto(str, pos) \o sup \o From(str, pos)
Removal(str, pos, len) == Upto(str, pos) \o From(str, pos + len)

(* right_to: the test before an operation. Who may only append inserts at  *)
(* the end.                                                                *)
RightTo(doc, o) ==
    \/ o.op = "AddUsrRight" /\ "add_usr_right" \in doc.rights
    \/ o.op = "RemUsrRight" /\ "rem_usr_right" \in doc.rights
    \/ o.op = "Insert" /\ \/ "insert" \in doc.rights
                          \/ "append" \in doc.rights /\ o.pos = Len(doc.str)
    \/ o.op = "RemUnd" /\ "remove" \in doc.rights

ApplyOp(doc, o) ==
    CASE o.op = "AddUsrRight" -> [doc EXCEPT !.rights = @ \cup o.flags]
      [] o.op = "RemUsrRight" -> [doc EXCEPT !.rights = @ \ o.flags]
      [] o.op = "Insert" -> [doc EXCEPT !.str = Insertion(@, o.pos, o.str)]
      [] o.op = "RemUnd" -> [doc EXCEPT !.str = Removal(@, o.pos, Len(o.str))]

(* reg, before the operation is applied: an operation writes what it will  *)
(* change, nothing if it changes nothing.                                  *)
Reg(doc, o) ==
    IF IsText(o) THEN IF o.str = <<>> THEN <<>> ELSE <<o>>
    ELSE LET flags == IF o.op = "AddUsrRight" THEN o.flags \ doc.rights
                      ELSE o.flags \cap doc.rights
         IN  IF flags = {} THEN <<>> ELSE <<[o EXCEPT !.flags = flags]>>

(* undo_patch: the operations are undone from the last to the first; the   *)
(* rights of an operation are those it changed, they are flipped (^).      *)
UndoOp(doc, o) ==
    CASE o.op = "Insert" -> [doc EXCEPT !.str = Removal(@, o.pos, Len(o.str))]
      [] o.op = "RemUnd" -> [doc EXCEPT !.str = Insertion(@, o.pos, o.str)]
      [] OTHER -> [doc EXCEPT !.rights = (@ \ o.flags) \cup (o.flags \ @)]

UndoOps(doc, data) ==
    LET undone[k \in 0 .. Len(data)] ==
          IF k = 0 THEN doc ELSE UndoOp(undone[k - 1], data[Len(data) + 1 - k])
    IN  undone[Len(data)]

(* The operations of a patch, one after the other. *)
ApplyOps(doc, data) ==
    LET done[k \in 0 .. Len(data)] == IF k = 0 THEN doc ELSE ApplyOp(done[k - 1], data[k])
    IN  done[Len(data)]

-----------------------------------------------------------------------------
(* One new operation n against one concurrent operation u, both made on    *)
(* the same string. The result: n after u; unk, what is written for u      *)
(* after n; tail, the part of n split off, to be done after n.             *)

Trans(n, unk, tail) == [n |-> n, unk |-> unk, tail |-> tail]

InsertInsert(n, u) ==
    IF u.pos > n.pos
    THEN Trans(n, <<[u EXCEPT !.pos = @ + Len(n.str)]>>, <<>>)
    ELSE Trans([n EXCEPT !.pos = @ + Len(u.str)], <<u>>, <<>>)

InsertRemUnd(n, u) ==
    LET cut == n.pos - u.pos
    IN  IF n.pos >= u.pos + Len(u.str)
        THEN Trans([n EXCEPT !.pos = @ - Len(u.str)], <<u>>, <<>>)
        ELSE IF n.pos <= u.pos
        THEN Trans(n, <<[u EXCEPT !.pos = @ + Len(n.str)]>>, <<>>)
        ELSE Trans([n EXCEPT !.pos = u.pos],
                   <<RemUnd(u.pos + Len(n.str), From(u.str, cut)),
                     RemUnd(u.pos, Upto(u.str, cut))>>,
                   <<>>)

(* Fault: the boundary of the removed text belongs to it. *)
RemUndInsertPast(n, u) ==
    LET cut == u.pos - n.pos
    IN  IF u.pos >= n.pos + Len(n.str)
        THEN Trans(n, <<[u EXCEPT !.pos = @ - Len(n.str)]>>, <<>>)
        ELSE IF u.pos < n.pos
        THEN Trans([n EXCEPT !.pos = @ + Len(u.str)], <<u>>, <<>>)
        ELSE Trans(RemUnd(n.pos, Upto(n.str, cut)),
                   <<[u EXCEPT !.pos = n.pos]>>,
                   <<RemUnd(n.pos, From(n.str, cut))>>)

RemUndInsert(n, u) ==
    LET cut == u.pos - n.pos
    IN  IF u.pos >= n.pos + Len(n.str)
        THEN Trans(n, <<[u EXCEPT !.pos = @ - Len(n.str)]>>, <<>>)
        ELSE IF u.pos <= n.pos
        THEN Trans([n EXCEPT !.pos = @ + Len(u.str)], <<u>>, <<>>)
        ELSE Trans(RemUnd(n.pos, Upto(n.str, cut)),
                   <<[u EXCEPT !.pos = n.pos]>>,
                   <<RemUnd(n.pos + Len(u.str), From(n.str, cut))>>)

RemUndRemUnd(n, u) ==
    LET lenN == Len(n.str)
        lenU == Len(u.str)
        over == u.pos + lenU - n.pos        \* T0 of the case u first
        gapN == n.pos - u.pos
        gapU == u.pos - n.pos
    IN  IF u.pos <= n.pos
        THEN IF u.pos + lenU <= n.pos
             THEN Trans([n EXCEPT !.pos = @ - lenU], <<u>>, <<>>)
             ELSE IF u.pos + lenU <= n.pos + lenN
             THEN Trans(RemUnd(u.pos, From(n.str, lenN - over)),
                        <<RemUnd(u.pos, Upto(u.str, lenU - over))>>, <<>>)
             ELSE Trans(RemUnd(n.pos, <<>>),
                        <<RemUnd(u.pos, Upto(u.str, gapN) \o
                            From(u.str, gapN + n.pos - u.pos + lenN - n.pos))>>, <<>>)
        ELSE IF n.pos + lenN <= u.pos
             THEN Trans(n, <<[u EXCEPT !.pos = @ - lenN]>>, <<>>)
             ELSE IF n.pos + lenN <= u.pos + lenU
             THEN Trans(RemUnd(n.pos, Upto(n.str, gapU)),
                        <<RemUnd(n.pos, From(u.str, n.pos + lenN - u.pos))>>, <<>>)
             ELSE Trans(RemUnd(n.pos, Upto(n.str, gapU) \o From(n.str, gapU + lenU)),
                        <<RemUnd(u.pos, <<>>)>>, <<>>)

(* The two operations on the rights: two of one kind compare their users   *)
(* as objects (usr_unk==usr_new), which are never the same ones, so that   *)
(* nothing is rewritten; nor is it when one is on the rights and the other *)
(* on the text.                                                            *)
Transform(n, u) ==
    CASE ~ IsText(n) \/ ~ IsText(u) -> Trans(n, <<u>>, <<>>)
      [] n.op = "Insert" /\ u.op = "Insert" -> InsertInsert(n, u)
      [] n.op = "Insert" /\ u.op = "RemUnd" -> InsertRemUnd(n, u)
      [] n.op = "RemUnd" /\ u.op = "Insert" -> RemUndInsert(n, u)
      [] n.op = "RemUnd" /\ u.op = "RemUnd" -> RemUndRemUnd(n, u)

-----------------------------------------------------------------------------
(* new_patch. The concurrent operations cq are read from a buffer, and a   *)
(* tail remembers where to go on reading as an offset in this buffer, in   *)
(* bytes: one for the operation, one for the position, one for the length  *)
(* and the characters (positions and lengths below 128); one for the       *)
(* operation, one for the user and one for the rights.                     *)

Bytes(o) == IF IsText(o) THEN 3 + Len(o.str) ELSE 3

Size(ops) ==
    LET sum[k \in 0 .. Len(ops)] == IF k = 0 THEN 0 ELSE sum[k - 1] + Bytes(ops[k])
    IN  sum[Len(ops)]

Reads(ops, off) == \E k \in 0 .. Len(ops) : Size(SubSeq(ops, 1, k)) = off
ReadFrom(ops, off) ==
    SubSeq(ops, 1 + (CHOOSE k \in 0 .. Len(ops) : Size(SubSeq(ops, 1, k)) = off), Len(ops))

(* The loop over the concurrent operations, from the offset off of the     *)
(* buffer: n, what is written of them, and the tails with the place where  *)
(* each goes on reading.                                                   *)
Met(r, u) ==
    LET t == Transform(r.n, u)
        next == r.off + Bytes(u)
    IN  [n     |-> t.n,
         unk   |-> r.unk \o t.unk,
         tails |-> r.tails \o [k \in DOMAIN t.tail |-> [op |-> t.tail[k], off |-> next]],
         off   |-> next]

Against(n, cq, off) ==
    LET met[k \in 0 .. Len(cq)] ==
          IF k = 0 THEN [n |-> n, unk |-> <<>>, tails |-> <<>>, off |-> off]
          ELSE Met(met[k - 1], cq[k])
    IN  met[Len(cq)]

(* One turn of the loop over the new operations: the first one that waits. *)
(* One that is refused writes nothing, its tails and the rewritten         *)
(* concurrent operations are dropped: they are still concurrent to the     *)
(* next. Otherwise its tails come next. An offset beyond the end of the    *)
(* buffer makes "while ( br_unk.size )" endless ("hang"); an offset inside *)
(* an operation reads bytes that are not one ("garbled"): err says so and  *)
(* the rest of the result is not used.                                     *)
Turn(st) ==
    LET w == Head(st.waiting)
        t == Against(w.op, ReadFrom(st.cq, w.off), w.off)
    IN  IF w.off > Size(st.cq) THEN [st EXCEPT !.err = "hang", !.waiting = <<>>]
        ELSE IF ~ Reads(st.cq, w.off) THEN [st EXCEPT !.err = "garbled", !.waiting = <<>>]
        ELSE IF ~ RightTo(st.doc, t.n) THEN [st EXCEPT !.waiting = Tail(@)]
        ELSE [doc     |-> ApplyOp(st.doc, t.n),
              data    |-> st.data \o Reg(st.doc, t.n),
              cq      |-> t.unk,
              err     |-> "none",
              waiting |-> t.tails \o Tail(st.waiting)]

(* The loop: a new operation reads the concurrent ones from the first. It  *)
(* is cut in no more parts than it has characters, so that there are at    *)
(* most as many turns as data has bytes.                                   *)
NewPatch(st, most) ==
    LET turns[k \in 0 .. most] ==
          IF k = 0 THEN st
          ELSE LET before == turns[k - 1]
               IN  IF before.waiting = <<>> THEN before ELSE Turn(before)
    IN  turns[most]

NewOps(doc, data, cq) ==
    NewPatch([doc |-> doc, data |-> <<>>, cq |-> cq, err |-> "none",
              waiting |-> [k \in DOMAIN data |-> [op |-> data[k], off |-> 0]]],
             Size(data))

=============================================================================
