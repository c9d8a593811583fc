----------------------------- MODULE DirectoryOt -----------------------------
(***************************************************************************)
(* The operations of directories (src/ts/LvDirectory/RpDirectory.ts, and   *)
(* RpDirectoryOperations.ts, generated). A directory is a list of names    *)
(* with their inodes, and the rights of its user. Nothing is transformed,  *)
(* and undo_patch undoes the operations on the rights only: merging relies *)
(* on the last operation on a name, which is done again, to win. Patches   *)
(* hold no DelUnd: Delete is stored as it is.                              *)
(***************************************************************************)
EXTENDS StringOt

LOCAL INSTANCE SequencesExt

DirectoryRights == {"add_usr_right", "rem_usr_right", "set", "add", "delete"}

SetVal(name, inode) == [op |-> "SetVal", name |-> name, inode |-> inode]
Delete(name) == [op |-> "Delete", name |-> name]

DirRightTo(dir, o) ==
    CASE o.op = "SetVal" -> "set" \in dir.rights
      [] o.op = "Delete" -> "delete" \in dir.rights
      [] OTHER -> RightTo(dir, o)

(* RpDirectory.set: the first entry of this name, or a new one at the end. *)
NameSet(entries, name, inode) ==
    LET found == {i \in DOMAIN entries : entries[i].name = name}
    IN  IF found = {} THEN Append(entries, [name |-> name, inode |-> inode])
        ELSE [entries EXCEPT ![CHOOSE i \in found : \A j \in found : i <= j].inode = inode]

(* RpDirectory.delete: the first entry of this name is taken out. *)
NameDeleted(entries, name) ==
    LET found == {i \in DOMAIN entries : entries[i].name = name}
    IN  IF found = {} THEN entries
        ELSE RemoveAt(entries, CHOOSE i \in found : \A j \in found : i <= j)

DirApply(dir, o) ==
    CASE o.op = "SetVal" -> [dir EXCEPT !.entries = NameSet(@, o.name, o.inode)]
      [] o.op = "Delete" -> [dir EXCEPT !.entries = NameDeleted(@, o.name)]
      [] OTHER -> ApplyOp(dir, o)

(* reg: SetVal and Delete are written even if they change nothing.         *)
DirReg(dir, o) == IF o.op \in {"SetVal", "Delete"} THEN <<o>> ELSE Reg(dir, o)

(* undo_patch has no case for SetVal and Delete. *)
DirUndo(dir, data) ==
    UndoOps(dir, SelectSeq(data, LAMBDA o : o.op \in {"AddUsrRight", "RemUsrRight"}))

(* new_patch: an operation that is refused is left out; the concurrent     *)
(* ones, which nothing rewrites, have no effect.                           *)
DirDo(st, o) ==
    IF DirRightTo(st.dir, o)
    THEN [dir |-> DirApply(st.dir, o), data |-> st.data \o DirReg(st.dir, o)]
    ELSE st
DirNew(dir, data) == FoldLeft(DirDo, [dir |-> dir, data |-> <<>>], data)

(* What the name shows, for those that are there. *)
Contents(dir) == {<<dir.entries[i].name, dir.entries[i].inode>> : i \in DOMAIN dir.entries}

=============================================================================
