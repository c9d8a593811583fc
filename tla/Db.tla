--------------------------------- MODULE Db ---------------------------------
(***************************************************************************)
(* A group of Db instances that share one item (src/ts/Db.ts), connected   *)
(* by DbConnToDb (src/ts/Db/DbConnToDb.ts), which hands a message directly *)
(* to recv_changes of the destination.                                     *)
(*                                                                         *)
(* Everything runs in one JavaScript thread: send_changes runs to its end  *)
(* with every recv_changes it causes. pc is the place this thread has      *)
(* reached and one step is one iteration of one of its loops:              *)
(*   "idle"     in the application: edits, bind, connect, send_changes     *)
(*   "send"     in send_changes of src, at the head of the loop over the   *)
(*              connections, todo being the connections that are left      *)
(*   "deliver"  message written, entering recv_changes of Head(todo)       *)
(*   "read"     in app_changes, in the loop that reads the patches         *)
(*   "undo"     in app_changes, in the loop that undoes patches, at idx    *)
(*   "merge"    in app_changes, in the loop that merges patches, at idx    *)
(***************************************************************************)
EXTENDS DbItem

CONSTANTS
    InitBound,      \* the devices that have bound the item at the beginning
    InitConn,       \* InitConn[d]: the connections d has at the beginning
    MaxOps,         \* bound: operations a device groups in one patch
    MaxPatches,     \* bound: patches a device makes
    MaxNow          \* bound: ticks of the true time

ASSUME GroupAssumption ==
    /\ InitBound \subseteq Dev
    /\ InitConn \in [Dev -> Seq(Dev)]
    /\ \A d \in Dev : d \notin Range(InitConn[d])
    /\ MaxOps \in Nat /\ MaxPatches \in Nat /\ MaxNow \in Nat

VARIABLES
    bound,            \* bound[d]: d has the item in its map "items"
    connections,      \* connections[d]: where d sends its changes
    modified_items,   \* modified_items[d]: number of entries of this array
    now,              \* the true time; d reads now + Skew[d]
    pc, src, todo,    \* the thread, see above (src is Loc when it is idle)
    base, msg,        \* the message: clock it is based on, patches left to read
    ifi,              \* index_first_insertion
    first, idx,       \* last value of index_first_insertion; the loop index
    cq_new, cq_unk    \* the two operation lists of the OtMerger

dbVars == <<bound, connections, modified_items, now>>
msgVars == <<base, msg>>
mergeVars == <<ifi, first, idx, cq_new, cq_unk>>
vars == <<itemVars, dbVars, pc, src, todo, msgVars, mergeVars>>

dst == Head(todo)
Date(d) == now + Skew[d]

(* The Dbs when the ones of bs have bound the item and conns connects them. *)
InitGroup(bs, conns) ==
    /\ patches = [d \in Dev |-> <<>>]
    /\ vector_clock = [d \in Dev |-> ZeroClock]
    /\ sent = [d \in Dev |-> [e \in Dev |-> ZeroClock]]
    /\ modifications = [d \in Dev |-> <<>>]
    /\ val = [d \in Dev |-> Doc0]
    /\ bound = [d \in Dev |-> d \in bs]
    /\ connections = conns
    /\ modified_items = [d \in Dev |-> 0]
    /\ now = 0
    /\ pc = "idle" /\ src = Loc /\ todo = <<>>
    /\ base = ZeroClock /\ msg = {}
    /\ ifi = NoIndex /\ first = 0 /\ idx = 0
    /\ cq_new = <<>> /\ cq_unk = <<>>

Init == InitGroup(InitBound, InitConn)

-----------------------------------------------------------------------------
(* The application.                                                        *)

(* An operation of the user on the variable: applied, then given to        *)
(* new_modification.                                                       *)
Edit(d) ==
    /\ pc = "idle" /\ bound[d]
    /\ Len(modifications[d]) < MaxOps /\ vector_clock[d][Loc] < MaxPatches
    /\ \E r \in LocalOps(val[d]) :
          /\ val' = [val EXCEPT ![d] = r.doc]
          /\ modifications' = [modifications EXCEPT ![d] = @ \o r.data]
    /\ modified_items' =
          [modified_items EXCEPT ![d] = IF modifications[d] = <<>> THEN @ + 1 ELSE @]
    /\ UNCHANGED <<patches, vector_clock, sent, bound, connections, now,
                   pc, src, todo, msgVars, mergeVars>>

Bind(d) ==
    /\ pc = "idle" /\ ~ bound[d]
    /\ bound' = [bound EXCEPT ![d] = TRUE]
    /\ UNCHANGED <<itemVars, connections, modified_items, now,
                   pc, src, todo, msgVars, mergeVars>>

(* Each pair is connected at most once. *)
Connect(d, e) ==
    /\ pc = "idle" /\ d # e /\ e \notin Range(connections[d])
    /\ connections' = [connections EXCEPT ![d] = Append(@, e)]
    /\ UNCHANGED <<itemVars, bound, modified_items, now,
                   pc, src, todo, msgVars, mergeVars>>

(* Time passes. Only the steps of "send" and "deliver" read the date. *)
Tick ==
    /\ pc \in {"idle", "send", "deliver"} /\ now < MaxNow
    /\ now' = now + 1
    /\ UNCHANGED <<itemVars, bound, connections, modified_items,
                   pc, src, todo, msgVars, mergeVars>>

-----------------------------------------------------------------------------
(* send_changes of src.                                                    *)

(* Fault: the loop starts at the second connection. *)
SendChangesFromSecond(d) ==
    /\ pc = "idle" /\ modified_items[d] > 0
    /\ pc' = "send" /\ src' = d /\ todo' = SubSeq(connections[d], 2, Len(connections[d]))
    /\ UNCHANGED <<itemVars, dbVars, msgVars, mergeVars>>

SendChanges(d) ==
    /\ pc = "idle" /\ modified_items[d] > 0
    /\ pc' = "send" /\ src' = d /\ todo' = connections[d]
    /\ UNCHANGED <<itemVars, dbVars, msgVars, mergeVars>>

Freeze(d) ==
    /\ vector_clock' = [vector_clock EXCEPT ![d] = FrozenClock(d)]
    /\ modifications' = [modifications EXCEPT ![d] = <<>>]

(* One connection: get_changes, which returns nothing when the destination *)
(* was sent everything. The item may be several times in modified_items:   *)
(* the next calls return nothing.                                          *)
GetChanges ==
    /\ pc = "send" /\ todo # <<>>
    /\ Freeze(src)
    /\ patches' = [patches EXCEPT ![src] = FrozenPatches(src, Date(src))]
    /\ LET out == Unsent(patches'[src], vector_clock'[src], sent[src][dst])
       IN  \/ /\ out = {}
              /\ todo' = Tail(todo)
              /\ UNCHANGED <<pc, sent, msgVars>>
           \/ /\ out # {}
              /\ sent' = [sent EXCEPT ![src][dst] = vector_clock'[src]]
              /\ base' = sent[src][dst] /\ msg' = out
              /\ pc' = "deliver"
              /\ UNCHANGED todo
    /\ UNCHANGED <<val, dbVars, src, mergeVars>>

EndSend ==
    /\ pc = "send" /\ todo = <<>>
    /\ modified_items' = [modified_items EXCEPT ![src] = 0]
    /\ pc' = "idle" /\ src' = Loc
    /\ UNCHANGED <<itemVars, bound, connections, now, todo, msgVars, mergeVars>>

-----------------------------------------------------------------------------
(* recv_changes of the destination.                                        *)

ClearMessage == base' = ZeroClock /\ msg' = {}
ClearMerge == /\ ifi' = NoIndex /\ first' = 0 /\ idx' = 0
              /\ cq_new' = <<>> /\ cq_unk' = <<>>

(* The item is not in "items": the changes are skipped. *)
DropChanges ==
    /\ pc = "deliver" /\ ~ bound[dst]
    /\ pc' = "send" /\ todo' = Tail(todo) /\ ClearMessage
    /\ UNCHANGED <<itemVars, dbVars, src, mergeVars>>

(* Fault: no test of what is assumed to be known. *)
BaseKnownAlways(clock) == TRUE

BaseKnown(clock) == ClockLeq(ReadClock(base, src, dst), clock)

(* app_changes throws; the exception leaves recv_changes and send_changes. *)
RejectChanges ==
    /\ pc = "deliver" /\ bound[dst]
    /\ Freeze(dst)
    /\ patches' = [patches EXCEPT ![dst] = FrozenPatches(dst, Date(dst))]
    /\ ~ BaseKnown(vector_clock'[dst])
    /\ pc' = "idle" /\ src' = Loc /\ todo' = <<>> /\ ClearMessage
    /\ UNCHANGED <<sent, val, dbVars, mergeVars>>

(* app_changes up to the loop that reads the patches. *)
AcceptChanges ==
    /\ pc = "deliver" /\ bound[dst]
    /\ Freeze(dst)
    /\ BaseKnown(vector_clock'[dst])
    /\ LET log == FrozenPatches(dst, Date(dst))
           known == ReadClock(base, src, dst)
       IN  /\ patches' = [patches EXCEPT ![dst] =
                             MarkUnk(log, vector_clock'[dst], known)]
           /\ ifi' = FirstUnk(log, vector_clock'[dst], known)
    /\ pc' = "read"
    /\ UNCHANGED <<sent, val, dbVars, src, todo, msgVars, first, idx, cq_new, cq_unk>>

(* A patch of the message, with the name its receiver gives to its device. *)
Received(p) == [p EXCEPT !.dev = ReadDev(p.dev, src, dst), !.ins_type = "NEW"]

(* One iteration: p is in the log of the receiver already, or it is put at *)
(* its place. For one device the patches come in the order of num; the     *)
(* order of the devices is the one of a JavaScript map, any here.          *)
Read(p) ==
    /\ \A q \in msg : q.dev = p.dev => p.num <= q.num
    /\ msg' = msg \ {p}
    /\ LET n == Received(p)
           k == InsertionIndex(patches[dst], n, dst)
       IN  /\ sent' = [sent EXCEPT ![dst][src] = UpdatePatch(@, n.dev, n.num)]
           /\ \/ /\ Contains(vector_clock[dst], n.dev, n.num)
                 /\ patches' = [patches EXCEPT ![dst] = MarkStd(@, n)]
                 /\ UNCHANGED <<vector_clock, ifi>>
              \/ /\ ~ Contains(vector_clock[dst], n.dev, n.num)
                 /\ vector_clock' = [vector_clock EXCEPT ![dst] = UpdatePatch(@, n.dev, n.num)]
                 /\ patches' = [patches EXCEPT ![dst] = InsertPatch(@, n, k)]
                 /\ ifi' = IF ifi > k THEN k ELSE ifi

ReadPatch ==
    /\ pc = "read"
    /\ \E p \in msg : Read(p)
    /\ UNCHANGED <<modifications, val, dbVars, pc, src, todo, base, first, idx, cq_new, cq_unk>>

(* Every patch is read: merge if one of them was new. *)
EndRead ==
    /\ pc = "read" /\ msg = {}
    /\ \/ /\ \E i \in 1 .. Len(patches[dst]) : patches[dst][i].ins_type = "NEW"
          /\ pc' = "undo"
          /\ first' = FirstToMerge(patches[dst], ifi)
          /\ idx' = Len(patches[dst])
          /\ UNCHANGED <<todo, msgVars, ifi, cq_new, cq_unk>>
       \/ /\ \A i \in 1 .. Len(patches[dst]) : patches[dst][i].ins_type # "NEW"
          /\ pc' = "send" /\ todo' = Tail(todo)
          /\ ClearMessage /\ ClearMerge
    /\ UNCHANGED <<itemVars, dbVars, src>>

(* Fault: "continue" leaves the index where it is. *)
(* From the last patch down to first: undo those that are not new. *)
UndoPatch ==
    /\ pc = "undo"
    /\ LET f == patches[dst][idx]
       IN  val' = [val EXCEPT ![dst] = IF f.ins_type = "NEW" THEN @
                                       ELSE UndoData(@, f.data)]
    /\ \/ idx = first /\ pc' = "merge" /\ UNCHANGED idx
       \/ idx > first /\ idx' = idx - 1 /\ UNCHANGED pc
    /\ UNCHANGED <<patches, vector_clock, sent, modifications, dbVars,
                   src, todo, msgVars, ifi, first, cq_new, cq_unk>>

(* Fault: a patch is applied transformed but stored as it came.            *)
MergedAsItCame(f) ==
    CASE f.ins_type = "NEW" -> [NewData(val[dst], f.data, cq_unk) EXCEPT !.data = f.data]
      [] f.ins_type = "UNK" -> [NewData(val[dst], f.data, cq_new) EXCEPT !.data = f.data]
      [] f.ins_type = "STD" -> [doc |-> val[dst], data |-> <<>>, cq |-> <<>>]

Merged(f) ==
    CASE f.ins_type = "NEW" -> NewData(val[dst], f.data, cq_unk)
      [] f.ins_type = "UNK" -> NewData(val[dst], f.data, cq_new)
      [] f.ins_type = "STD" -> [doc |-> val[dst], data |-> <<>>, cq |-> <<>>]

(* From first to the last patch: OtMerger.new_patch, unk_patch or          *)
(* std_patch, whose result replaces the operations of the patch.           *)
MergePatch ==
    /\ pc = "merge"
    /\ LET f == patches[dst][idx]
           r == Merged(f)
       IN  /\ val' = [val EXCEPT ![dst] = r.doc]
           /\ patches' = [patches EXCEPT
                             ![dst][idx] = [@ EXCEPT !.data = r.data, !.ins_type = "STD"]]
           /\ IF idx = Len(patches[dst])
              THEN /\ pc' = "send" /\ todo' = Tail(todo)
                   /\ ClearMessage /\ ClearMerge
              ELSE /\ idx' = idx + 1
                   /\ cq_new' = CASE f.ins_type = "NEW" -> cq_new \o r.data
                                  [] f.ins_type = "UNK" -> r.cq
                                  [] f.ins_type = "STD" -> cq_new
                   /\ cq_unk' = CASE f.ins_type = "NEW" -> r.cq
                                  [] f.ins_type = "UNK" -> cq_unk \o r.data
                                  [] f.ins_type = "STD" -> cq_unk
                   /\ UNCHANGED <<pc, todo, msgVars, ifi, first>>
    /\ UNCHANGED <<vector_clock, sent, modifications, dbVars, src>>

-----------------------------------------------------------------------------

Run == \/ GetChanges \/ EndSend \/ DropChanges \/ RejectChanges \/ AcceptChanges
       \/ ReadPatch \/ EndRead \/ UndoPatch \/ MergePatch

Next ==
    \/ \E d \in Dev : Edit(d) \/ Bind(d) \/ SendChanges(d)
    \/ \E d, e \in Dev : Connect(d, e)
    \/ Tick
    \/ Run

Spec == Init /\ [][Next]_vars

(* The thread goes on until it is idle, and the application calls          *)
(* send_changes of a Db whose items are modified (Test/test_ot.ts does so  *)
(* for every Db; no code of src/ts calls it by itself).                    *)
Fairness == WF_vars(Run) /\ \A d \in Dev : WF_vars(SendChanges(d))

FairSpec == Spec /\ Fairness

-----------------------------------------------------------------------------
(* Properties.                                                             *)

Stored(e, d) == IF e = d THEN Loc ELSE e        \* the name of e at d
GloId(p, d) == <<ToGlo(p.dev, d), p.num>>

Idle == pc = "idle"

(* Types of the state of every Db and of the thread. *)
TypeOK ==
    /\ patches \in [Dev -> Seq(Patch)]
    /\ vector_clock \in [Dev -> Clock]
    /\ sent \in [Dev -> [Dev -> Clock]]
    /\ modifications \in [Dev -> Seq(Op)]
    /\ val \in [Dev -> Doc]
    /\ bound \in [Dev -> BOOLEAN]
    /\ connections \in [Dev -> Seq(Dev)]
    /\ modified_items \in [Dev -> Nat]
    /\ now \in Nat
    /\ pc \in {"idle", "send", "deliver", "read", "undo", "merge"}
    /\ src \in Ids /\ todo \in Seq(Dev)
    /\ base \in Clock /\ msg \in SUBSET Patch
    /\ ifi \in Nat /\ first \in Nat /\ idx \in Nat
    /\ cq_new \in Seq(Op) /\ cq_unk \in Seq(Op)

(* vector_clock says exactly which patches are in the log (DbItem.ts:345   *)
(* "coordinates of known patches"): from every device the patches 1 to     *)
(* its number, each once. Every use of find_patch_index relies on it.      *)
Matches(log, clock) ==
    /\ \A i \in 1 .. Len(log) : log[i].num <= clock[log[i].dev]
    /\ \A x \in Ids : \A n \in 1 .. clock[x] :
          \E i \in 1 .. Len(log) : log[i].dev = x /\ log[i].num = n
    /\ \A i, j \in 1 .. Len(log) : Same(log[i], log[j]) => i = j

ClockMatchesPatches ==
    \A d \in Dev : Matches(patches[d], vector_clock[d])

(* A log is in the order of Patch.sup at all times: a patch made locally   *)
(* may be pushed at the end, and the scan of app_changes from the end      *)
(* finds the only place where a received patch belongs.                    *)
Sorted(log, cur) ==
    \A i, j \in 1 .. Len(log) : i < j => Sup(log[j], log[i], cur)

PatchesSorted == \A d \in Dev : Sorted(patches[d], d)

(* Two devices that hold the same two patches hold them in the same order, *)
(* whatever the order they learnt them in and the names they store them    *)
(* under: this is what lets every device merge in the same order.          *)
SameOrder ==
    \A d, e \in Dev :
        \A i1, i2 \in 1 .. Len(patches[d]) : \A j1, j2 \in 1 .. Len(patches[e]) :
            /\ GloId(patches[d][i1], d) = GloId(patches[e][j1], e)
            /\ GloId(patches[d][i2], d) = GloId(patches[e][j2], e)
            => (i1 < i2 <=> j1 < j2)

(* What a message is based on is known to its receiver, so that app_changes *)
(* does not reach its "TODO assumed_to_be_known" exception.                *)
BaseIsKnown ==
    pc = "deliver" /\ bound[dst] => BaseKnown(FrozenClock(dst))

(* A connection that the loop of send_changes has served leads to a device *)
(* that holds everything the sender holds, its own patches and the others. *)
ServedAreUpToDate ==
    pc = "send" =>
        \A k \in 1 .. Len(connections[src]) - Len(todo) :
            LET e == connections[src][k]
            IN  ClockLeq(ReadClock(vector_clock[src], src, e), vector_clock[e])

(* A Db whose modified_items is empty has no modification left to send:    *)
(* all its patches are known wherever it is connected to, even those that  *)
(* were made while it was receiving.                                       *)
NothingForgotten ==
    \A d \in Dev : Idle /\ modified_items[d] = 0 =>
        /\ modifications[d] = <<>>
        /\ \A e \in Range(connections[d]) :
              vector_clock[e][Stored(d, e)] = vector_clock[d][Loc]

(* A step never removes a patch from a log and never swaps two of them.    *)
Kept(old, new) ==
    \A i, j \in 1 .. Len(old) :
        i <= j => \E k, l \in 1 .. Len(new) :
            k <= l /\ Same(old[i], new[k]) /\ Same(old[j], new[l])

HistoryKept == [][\A d \in Dev : Kept(patches[d], patches'[d])]_vars

(* The group does what ReplicatedLog promises, with the global names of    *)
(* the devices: every step of every Db leaves all the logs as they are, or *)
(* adds one patch to one log, the next of its author, where all the other  *)
(* logs have it.                                                           *)
Logs == [d \in Dev |-> [i \in 1 .. Len(patches[d]) |-> GloId(patches[d][i], d)]]
Promise == INSTANCE ReplicatedLog WITH log <- Logs
ImplementsReplicatedLog == Promise!Spec

(* The marks read by the merge are right: a patch merged as unknown to the *)
(* sender is not held by the sender (DbItem.ts:156 "mark unk patches or    *)
(* merges (i.e. stuff not known by the sender)").                          *)
UnkIsUnknown ==
    pc = "merge" => \A i \in idx .. Len(patches[dst]) :
        LET f == patches[dst][i]
        IN  f.ins_type = "UNK" =>
                f.num > vector_clock[src][ReadDev(f.dev, dst, src)]

(* Every patch reaches every device. *)
PatchReachesAll ==
    \A d, e \in Dev : \A n \in 1 .. MaxPatches :
        vector_clock[d][Loc] >= n ~> vector_clock[e][Stored(d, e)] >= n

=============================================================================
