-------------------------------- MODULE TestOt --------------------------------
(***************************************************************************)
(* A group of Db that share a string: Db with the operations of StringOt,  *)
(* driven as test_ot drives it (src/ts/Test/test_ot.ts, with the first     *)
(* text of test_ot_str, test/test_LvString.ts):                            *)
(*   "init"        the first Db makes the first text and sends it,         *)
(*   "operations"  every Db edits, before any of them sends,               *)
(*   "sends"       every Db in turn calls send_changes,                    *)
(*   "end"         the strings are compared.                               *)
(***************************************************************************)
EXTENDS Db, StringOt

SeqExt == INSTANCE SequencesExt

CONSTANTS
    Text0,          \* the first text
    Chars,          \* the characters a user inserts
    MaxText,        \* bound: length of a text that is edited
    WithRemove,     \* whether the users remove text
    Grants          \* the sets of rights that the users give and take back

VARIABLES test, turn    \* the phase, and the Db whose turn it is to send

testVars == <<vars, test, turn>>

(* A variable: its text, the rights of the user, and what became of the    *)
(* loops of new_patch.                                                     *)
Text(str, rights, err) == [str |-> str, rights |-> rights, err |-> err]

(* LvString.insert, remove, addUsrRight and remUsrRight, through tar: what *)
(* is refused changes nothing.                                             *)
StrLocalOps(doc) ==
    LET Insertions == {Insert(p, <<c>>) : p \in 0 .. Len(doc.str), c \in Chars}
        Removals == {RemUnd(k[1] - 1, SubSeq(doc.str, k[1], k[2])) :
                        k \in {r \in (1 .. Len(doc.str)) \X (1 .. Len(doc.str)) :
                                  WithRemove /\ r[1] <= r[2]}}
        Changes == {AddUsrRight(g) : g \in Grants} \cup {RemUsrRight(g) : g \in Grants}
    IN  {[doc |-> ApplyOp(doc, o), data |-> Reg(doc, o)] :
            o \in {x \in Insertions \cup Removals \cup Changes :
                      Len(doc.str) < MaxText /\ RightTo(doc, x) /\ Reg(doc, x) # <<>>}}

StrUndoData(doc, data) == UndoOps(doc, data)

StrNewData(doc, data, cq) ==
    LET r == NewOps(doc, data, cq)
    IN  [doc  |-> [r.doc EXCEPT !.err = IF @ = "none" THEN r.err ELSE @],
         data |-> r.data, cq |-> r.cq]

-----------------------------------------------------------------------------

TestInit == Init /\ test = "init" /\ turn = 1

(* "if ( init )": the first text is made and sent; its author may withdraw *)
(* rights before.                                                          *)
FirstText ==
    /\ test = "init" /\ pc = "idle" /\ val[1] = Doc0
    /\ \E g \in Grants \cup {{}} :
          LET made == ApplyOp(val[1], Insert(0, Text0))
          IN  /\ val' = [val EXCEPT ![1] = ApplyOp(made, RemUsrRight(g))]
              /\ modifications' = [modifications EXCEPT ![1] =
                     Reg(val[1], Insert(0, Text0)) \o Reg(made, RemUsrRight(g))]
    /\ modified_items' = [modified_items EXCEPT ![1] = 1]
    /\ UNCHANGED <<patches, vector_clock, sent, bound, connections, now,
                   pc, src, todo, msgVars, mergeVars, test, turn>>

FirstSend == test = "init" /\ SendChanges(1) /\ UNCHANGED <<test, turn>>

Operations ==
    /\ test = "init" /\ pc = "idle" /\ val[1] # Doc0 /\ modified_items[1] = 0
    /\ test' = "operations"
    /\ UNCHANGED <<vars, turn>>

(* The order of the edits of two Db does not matter: by turns. *)
TestEdit ==
    /\ test = "operations"
    /\ \E d \in Dev :
          /\ \A e \in Dev : e > d => modifications[e] = <<>>
          /\ Edit(d)
    /\ UNCHANGED <<test, turn>>

Sends == test = "operations" /\ test' = "sends" /\ UNCHANGED <<vars, turn>>

(* send_changes of the Db turn; it returns at once if nothing is modified. *)
TestSend ==
    /\ test = "sends" /\ turn \in Dev
    /\ SendChanges(turn)
    /\ turn' = turn + 1 /\ UNCHANGED test

NoSend ==
    /\ test = "sends" /\ turn \in Dev /\ pc = "idle" /\ modified_items[turn] = 0
    /\ turn' = turn + 1 /\ UNCHANGED <<vars, test>>

TestEnd ==
    /\ test = "sends" /\ turn \notin Dev /\ pc = "idle"
    /\ test' = "end" /\ UNCHANGED <<vars, turn>>

TestRun == Run /\ UNCHANGED <<test, turn>>

TestNext ==
    \/ FirstText \/ FirstSend \/ Operations \/ TestEdit \/ Sends
    \/ TestSend \/ NoSend \/ TestEnd \/ TestRun

TestSpec == TestInit /\ [][TestNext]_testVars

-----------------------------------------------------------------------------

(* test_ot.ts:38-43: at the end every Db shows the same string and the     *)
(* same rights, although one may have used a right that another withdrew   *)
(* in parallel, and no transformation went wrong on the way.               *)
SameText ==
    test = "end" => \A d, e \in Dev : val[d] = val[e] /\ val[d].err = "none"

(* The undo of app_changes removes exactly what the patches did: undoing,  *)
(* in a Db that is not merging, every patch and what is not a patch yet    *)
(* gives back the variable as it was created, with its rights. A patch     *)
(* stored other than it was applied would corrupt it at the next merge.    *)
LogIsHistory ==
    pc \in {"idle", "send", "deliver"} => \A d \in Dev :
        LET created == SeqExt!FoldRight(LAMBDA p, doc : UndoData(doc, p.data), patches[d],
                                      UndoData(val[d], modifications[d]))
        IN  created.str = Doc0.str /\ created.rights = Doc0.rights

(* At the end of the test all have the same text, and a log that is not    *)
(* being merged is the history of its text: what test_ot expects, and what *)
(* the next merge relies on. test_ot.ts:38, OtMerger.ts:47.                *)
TextsAgree == SameText /\ LogIsHistory

=============================================================================
