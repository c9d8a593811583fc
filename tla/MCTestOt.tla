------------------------------ MODULE MCTestOt ------------------------------
(***************************************************************************)
(* Strings for TLC: `part' says what moves, the test of a whole group of   *)
(* Db, the choice of one pair of patches, of strings or of directories of  *)
(* src/ts or of the strings of RB/ts, or a page of RB/ts that edits one.   *)
(***************************************************************************)
EXTENDS TestOt, DirectoryOt, StringPairs, TLC

VARIABLE part

-----------------------------------------------------------------------------
(* Two concurrent patches, of directories or of the strings of RB/ts: what *)
(* they are made on, the one that comes first in the log and the other.    *)

VARIABLES common, earlier, later

caseVars == <<common, earlier, later>>

(* The string 1 2 3 ... : its characters can be told from each other and   *)
(* from the inserted ones.                                                 *)
Numbers(n) == [i \in 1 .. n |-> i]
Inserted(x) == {<<x>>, <<x, x + 1>>}

(* Patches of a directory, of at most two operations, which set different  *)
(* inodes.                                                                 *)
Directories == [entries : {<<>>, <<[name |-> "a", inode |-> 0]>>,
                           <<[name |-> "b", inode |-> 0], [name |-> "a", inode |-> 0]>>},
                rights : {DirectoryRights, DirectoryRights \ {"rem_usr_right", "set"}}]
DirOps(inode) == {SetVal(n, inode) : n \in {"a", "b"}} \cup {Delete(n) : n \in {"a", "b"}}
                 \cup {AddUsrRight({"set"}), RemUsrRight({"set"}), RemUsrRight({"delete", "add"})}
DirPatches(dir, inode) ==
    {DirNew(dir, s).data : s \in UNION {[1 .. k -> DirOps(inode)] : k \in 0 .. 2}}

DirectoriesInit == common \in Directories /\ earlier = <<>> /\ later = <<>>
ChooseDirPair ==
    /\ earlier = <<>> /\ later = <<>>
    /\ earlier' \in DirPatches(common, 1) /\ later' \in DirPatches(common, 2)
    /\ UNCHANGED common

(* Two directories that merge earlier before later, where earlier was made *)
(* and where later was made and is undone and done again, have the same    *)
(* names with the same inodes and the same rights, if earlier withdraws no *)
(* right: the undo that leaves the names as they are does no harm.         *)
(* RpDirectoryOperations.ts:67, test_LvDirectory.ts:25.                    *)
DirectoriesAgree ==
    part = "directories" /\ (\A i \in DOMAIN earlier : earlier[i].op # "RemUsrRight") =>
        LET here == DirNew(SeqExt!FoldLeft(DirApply, common, earlier), later).dir
            undone == DirUndo(SeqExt!FoldLeft(DirApply, common, later), later)
            there == DirNew(DirNew(undone, earlier).dir, later).dir
        IN  Contents(here) = Contents(there) /\ here.rights = there.rights

-----------------------------------------------------------------------------
(* The strings of RB/ts: a page, and two concurrent patches of one         *)
(* operation, made by two devices of one user on a text with one cursor.   *)

VARIABLES page, copy, typed

Ts == INSTANCE RbTsString WITH
          TextChars <- {"x", "y"}, Carets <- {<<>>, <<<<0, 1>>>>, <<<<1, 1>>, <<2, 2>>>>},
          MaxTyped <- 5, MaxShown <- 3

TsBases ==
    {[text |-> Numbers(n), threw |-> FALSE,
      cursors |-> <<[cur |-> 1, at |-> <<<<1, n>>>>, old |-> <<>>, usr |-> "me"]>>,
      rights |-> [who \in {"me", "other"} |-> IF who = "me" THEN r ELSE {"read"}]] :
         n \in 1 .. 3, r \in {Ts!Rights, {"read", "append", "add_rights", "rem_rights"}}}

TsSteps(w, x, new) ==
    LET len == Len(w.text)
        ranges == {k \in (1 .. len) \X (1 .. len) : k[1] <= k[2]}
    IN  {Ts!OpInsert(p, s) : p \in 0 .. len, s \in Inserted(x)}
        \cup {Ts!OpRemoveUnd(k[1] - 1, SubSeq(w.text, k[1], k[2])) : k \in ranges}
        \cup {Ts!OpNewCursor(new, <<<<p, len>>>>) : p \in {0, 1}}
        \cup {Ts!OpSetCursorUnd(c.cur, <<<<p, p>>>>, c.at) : c \in Range(w.cursors), p \in {0, 1}}
        \cup {Ts!OpRemCursorUnd(c.cur, c.at, "me") : c \in Range(w.cursors)}
        \cup UNION {{Ts!OpAddRight(who, {f}) : f \in {"insert", "remove"} \ w.rights[who]}
                   \cup {Ts!OpRemRight(who, {f}) : f \in {"append", "read", "rem_rights"} \cap w.rights[who]} :
                   who \in {"me", "other"}}
TsPatches(w, x, new) == {<<o>> : o \in {s \in TsSteps(w, x, new) : Ts!RightTo(w, s, TRUE)}}

TsPairsInit == common \in TsBases /\ earlier = <<>> /\ later = <<>>
ChooseTsPair ==
    /\ earlier = <<>> /\ later = <<>>
    /\ earlier' \in TsPatches(common, 100, 2) /\ later' \in TsPatches(common, 200, 3)
    /\ UNCHANGED common

ChooseTsStd ==
    /\ earlier = <<>> /\ later = <<>>
    /\ earlier' \in TsPatches(common, 100, 2)
    /\ later' \in TsPatches(Ts!Redo(common, earlier'), 200, 3)
    /\ UNCHANGED common

\* Each side undoes what it has done after the common base and does it again, as
\* app_changes does: here earlier is known when later comes, there later was done
\* first. What is undone is one operation: more are not read back right.
TsMine == Ts!UnkPatch(Ts!Undo(Ts!Redo(common, earlier), earlier), <<>>, earlier)
TsHere(m) == Ts!NewPatch(m.w, m.out, later)
TsUnder == Ts!NewPatch(Ts!Undo(Ts!Redo(common, later), later), <<>>, earlier)
TsThere(u) == Ts!UnkPatch(u.w, u.out, later)

\* Neither void nor refused.
TsTaken(a) == Ts!Valid(a.n) /\ Ts!RightTo(a.w, a.n, TRUE)

Alike(w, v) == w.text = v.text /\ w.rights = v.rights
Places(w) == {<<w.cursors[i].cur, w.cursors[i].at>> : i \in DOMAIN w.cursors}

\* An insertion by who may only append: it is refused where it is done again.
AppendOnly == "insert" \notin common.rights["me"] /\ "insert" \in {earlier[1].op, later[1].op}

(* Two concurrent operations on a string of RB/ts: no exception; the two   *)
(* devices get the same text and the same rights whatever is inserted,     *)
(* removed (twice, split, at one place), given or withdrawn, and the same  *)
(* cursors if one of the operations is about a cursor (a cursor next to a  *)
(* removed text may not be at one place on both); what is written for the  *)
(* known operation gives that text after the other; what is registered     *)
(* undoes it. Variable/Ot/OtMerger.ts:52, String/OtWrapperString.ts:499.   *)
TsAgree(m, here, there) ==
    /\ ~ here.w.threw /\ ~ there.w.threw
    /\ AppendOnly \/ (/\ Alike(here.w, there.w)
                      /\ {earlier[1].op, later[1].op} \cap Ts!CursorOps # {}
                            => Places(here.w) = Places(there.w))
    /\ TsTaken(Ts!Against([w |-> m.w, cq |-> m.out, out |-> <<>>], later[1]))
          => Ts!Redo(common, later \o here.cq).text = here.w.text
    /\ Len(here.out) < 2 => Alike(Ts!Undo(here.w, here.out), m.w)
TsAlike ==
    part = "tspairs" /\ earlier # <<>> =>
        \A m \in {TsMine}, u \in {TsUnder} :
            \A here \in {TsHere(m)}, there \in {TsThere(u)} : TsAgree(m, here, there)

(* An operation stored after an unknown one can be moved before it, with   *)
(* the same text in the end, if it inserts or removes before or after what *)
(* the unknown one did, and not at the very place of an insertion.         *)
(* String/OtWrapperString.ts:1108.                                         *)
OnText(o) == o.op \in Ts!Removals \cup {"insert"}
Reach(o) == o.pos + (IF o.op = "insert" THEN 1 ELSE Ts!LenOf(o))
Clear(s, u) ==
    OnText(u) => Reach(s) <= u.pos \/ s.pos >= (IF u.op = "insert" THEN Past(u) ELSE u.pos)
SameEnd(v, w) == v.text = w.text /\ (OnText(earlier[1]) \/ Places(v) = Places(w))
StdFits ==
    part = "tsstd" /\ earlier # <<>> /\ OnText(later[1]) /\ Clear(later[1], earlier[1]) =>
        \A r \in {Ts!UnkStdComb(later[1], earlier[1])} :
            SameEnd(Ts!Redo(common, <<r.s, r.u>>), Ts!Redo(common, earlier \o later))

(* Directories and the strings of RB/ts. OtMerger.ts:58 of src/ts, and of  *)
(* RB/ts/RiotBase/Variable/Ot.                                             *)
Transformed == DirectoriesAgree /\ TsAlike /\ StdFits

(* What a page of RB/ts sends makes the same text and cursors.             *)
(* RB/ts/RiotBase/Variable/Ot/OtWrapper.ts:324.                            *)
CopyFollows == Ts!CopyFollows

-----------------------------------------------------------------------------
(* The runs *)

Dev2 == {1, 2}
Dev3 == {1, 2, 3}
Mesh2 == 1 :> <<2>> @@ 2 :> <<1>>
Mesh3 == 1 :> <<2, 3>> @@ 2 :> <<1, 3>> @@ 3 :> <<1, 2>>
NoSkew == [d \in Dev |-> 0]

FirstAhead == [d \in Dev |-> IF d = 1 THEN 2 ELSE 0]

NoText == Text(<<>>, AllRights, "none")
Ab == <<"a", "b">>
XY == {"x", "y"}
AnyOp == {Insert(0, <<"x">>)}
AnyDoc == {NoText}

\* The right to withdraw, to insert, to write at all; what the test takes.
WithdrawOrWrite == {{"rem_usr_right"}, {"insert"}, {"insert", "append"}}
PairSets == {{"add_usr_right"}, {"rem_usr_right"}, {"insert", "remove"}, {"remove", "append"}}
SomeRights == {AllRights, {"append", "remove"}, {"insert", "rem_usr_right"},
               {"add_usr_right", "append"}, AllRights \ {"rem_usr_right", "insert"}}
Plain == [str |-> <<>>, rights |-> AllRights]

OneText == {Plain}
Texts == [str : {Numbers(n) : n \in 0 .. 5}, rights : SomeRights]
Mine == Inserted(100)
Theirs == Inserted(200)
Marks == 1 .. 201

MCInit ==
    /\ part \in {"test", "pairs", "directories", "tspairs", "tsstd", "page"}
    /\ TestInit /\ Ts!InitTs
    /\ PairsInit /\ (part # "pairs" => text = Plain)
    /\ CASE part = "directories" -> DirectoriesInit
         [] part \in {"tspairs", "tsstd"} -> TsPairsInit
         [] OTHER -> common = <<>> /\ earlier = <<>> /\ later = <<>>

tsVars == <<page, copy, typed>>

MCNext ==
    /\ \/ part = "test" /\ TestNext /\ UNCHANGED <<pairVars, caseVars, tsVars>>
       \/ part = "pairs" /\ ChoosePair /\ UNCHANGED <<testVars, caseVars, tsVars>>
       \/ part = "directories" /\ ChooseDirPair /\ UNCHANGED <<testVars, pairVars, tsVars>>
       \/ part = "tspairs" /\ ChooseTsPair /\ UNCHANGED <<testVars, pairVars, tsVars>>
       \/ part = "tsstd" /\ ChooseTsStd /\ UNCHANGED <<testVars, pairVars, tsVars>>
       \/ part = "page" /\ Ts!NextTs /\ UNCHANGED <<testVars, pairVars, caseVars>>
    /\ UNCHANGED part

MCVars == <<part, testVars, pairVars, caseVars, tsVars>>
MCSpec == MCInit /\ [][MCNext]_MCVars

(* The test alone. *)
MCTestSpec == MCInit /\ part = "test" /\ [][MCNext]_MCVars

=============================================================================
