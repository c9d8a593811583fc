------------------------------ MODULE DbProofs ------------------------------
(***************************************************************************)
(* Theorems about Db, for any number of devices, any connections, any      *)
(* clocks and any type of variable.                                        *)
(***************************************************************************)
EXTENDS Db, SequenceTheorems, WellFoundedInduction, TLAPS

-----------------------------------------------------------------------------
(* The helpers of DbItem: types, which patches the new log holds, and in   *)
(* which order.                                                            *)

(* Two copies of one patch: all that orders it is the same.                *)
Agree(p, q) ==
    /\ p.dev = q.dev /\ p.num = q.num
    /\ p.causal_num = q.causal_num /\ p.date = q.date

(* The two ways the code changes a log. It rewrites patches in place:      *)
SameKeys(old, new) ==
    /\ Len(new) = Len(old)
    /\ \A i \in 1 .. Len(old) : Agree(new[i], old[i])

(* or it puts patch n at place k:                                          *)
Added(old, new, n, k) ==
    /\ k \in 1 .. Len(old) + 1
    /\ Len(new) = Len(old) + 1
    /\ Agree(new[k], n)
    /\ \A i \in 1 .. Len(old) :
          Agree(IF i < k THEN new[i] ELSE new[i + 1], old[i])

-----------------------------------------------------------------------------

(* Min of a set of natural numbers that is not empty is its least element. *)
LEMMA MinIsLeast ==
    ASSUME NEW S \in SUBSET Nat, S # {}
    PROVE  Min(S) \in S /\ \A y \in S : Min(S) <= y
<1>1. \E x \in S : \A y \in S : ~ (<<y, x>> \in OpToRel(<, Nat))
  BY NatLessThanWellFounded, WFMin
<1>2. ASSUME NEW x \in S, NEW y \in S, <<y, x>> \notin OpToRel(<, Nat)
      PROVE  x <= y
  <2>1. ~ (y < x)
    BY <1>2 DEF OpToRel
  <2>2. QED
    BY <2>1
<1>3. QED
  BY <1>1, <1>2 DEF Min

(* A function on 1 .. n is a sequence of length n.                         *)
LEMMA FunctionIsSeq ==
    ASSUME NEW S, NEW n \in Nat, NEW f \in [1 .. n -> S]
    PROVE  f \in Seq(S) /\ Len(f) = n
<1>1. f \in Seq(S)
  BY SeqDef
<1>2. DOMAIN f = 1 .. Len(f) /\ Len(f) \in Nat
  BY <1>1, LenProperties
<1>3. QED
  BY <1>1, <1>2

(* SelfInc gives a clock again.                                            *)
LEMMA SelfIncType ==
    ASSUME NEW c \in Clock, NEW x \in Ids
    PROVE  SelfInc(c, x) \in Clock
BY DEF SelfInc, Clock

(* UpdatePatch gives a clock again.                                        *)
LEMMA UpdatePatchType ==
    ASSUME NEW c \in Clock, NEW x \in Ids, NEW n \in Nat
    PROVE  UpdatePatch(c, x, n) \in Clock
BY DEF UpdatePatch, Clock

(* A name read by cur from src is a name that cur stores.                  *)
LEMMA ReadDevType ==
    ASSUME NEW s \in Dev, NEW c \in Dev, NEW x \in Ids
    PROVE  ReadDev(x, s, c) \in Ids
BY DEF ReadDev, ToGlo, Ids

(* A clock read by cur is a clock.                                         *)
LEMMA ReadClockType ==
    ASSUME NEW s \in Dev, NEW c \in Dev, NEW v \in Clock
    PROVE  ReadClock(v, s, c) \in Clock
BY ReadDevType DEF ReadClock, Clock

-----------------------------------------------------------------------------
(* freeze_last_mod.                                                        *)

(* The patch made of the pending modifications is a patch.                 *)
LEMMA LastPatchType ==
    ASSUME NEW d \in Dev, NEW date \in Int,
           patches[d] \in Seq(Patch), vector_clock[d] \in Clock,
           modifications[d] \in Seq(Op)
    PROVE  LastPatch(d, date) \in Patch
<1>1. vector_clock[d][Loc] + 1 \in Nat \ {0}
  BY DEF Clock, Ids
<1>2. ASSUME patches[d] # <<>>
      PROVE  patches[d][Len(patches[d])].causal_num + 1 \in Nat
  <2>1. Len(patches[d]) \in 1 .. Len(patches[d])
    BY <1>2, EmptySeq
  <2>2. PICK p \in Patch : p = patches[d][Len(patches[d])]
    BY <2>1, ElementOfSeq
  <2>3. QED
    BY <2>2 DEF Patch
<1>3. QED
  BY <1>1, <1>2 DEF LastPatch, Patch, Ids, InsType

(* Freezing leaves the log as it is or adds one patch at its end; the      *)
(* clock follows.                                                          *)
LEMMA FrozenIs ==
    ASSUME NEW d \in Dev, NEW date \in Int,
           patches[d] \in Seq(Patch), vector_clock[d] \in Clock,
           modifications[d] \in Seq(Op)
    PROVE  /\ FrozenPatches(d, date) \in Seq(Patch)
           /\ FrozenClock(d) \in Clock
           /\ \/ /\ FrozenPatches(d, date) = patches[d]
                 /\ FrozenClock(d) = vector_clock[d]
              \/ /\ Added(patches[d], FrozenPatches(d, date),
                          LastPatch(d, date), Len(patches[d]) + 1)
                 /\ FrozenClock(d) = SelfInc(vector_clock[d], Loc)
<1>1. CASE modifications[d] = <<>>
  BY <1>1 DEF FrozenPatches, FrozenClock
<1>2. CASE modifications[d] # <<>>
  <2> DEFINE log == patches[d]
             n   == LastPatch(d, date)
  <2>1. n \in Patch
    BY LastPatchType
  <2>2. /\ Append(log, n) \in Seq(Patch)
        /\ Len(Append(log, n)) = Len(log) + 1
        /\ Append(log, n)[Len(log) + 1] = n
        /\ \A i \in 1 .. Len(log) : Append(log, n)[i] = log[i]
    <3> HIDE DEF n
    <3> QED BY <2>1
  <2>3. Len(log) \in Nat
    BY LenProperties
  <2>4. FrozenPatches(d, date) = Append(log, n)
    BY <1>2 DEF FrozenPatches
  <2>5. Added(log, Append(log, n), n, Len(log) + 1)
    <3> HIDE DEF n
    <3> QED BY <2>2, <2>3 DEF Added, Agree
  <2>6. FrozenClock(d) = SelfInc(vector_clock[d], Loc)
    BY <1>2 DEF FrozenClock
  <2>7. FrozenClock(d) \in Clock
    BY <2>6, SelfIncType DEF Ids
  <2>8. QED
    BY <2>2, <2>4, <2>5, <2>6, <2>7
<1>3. QED
  BY <1>1, <1>2

-----------------------------------------------------------------------------
(* app_changes.                                                            *)

(* MarkUnk changes marks only.                                             *)
LEMMA MarkUnkIs ==
    ASSUME NEW log \in Seq(Patch), NEW c, NEW b
    PROVE  MarkUnk(log, c, b) \in Seq(Patch) /\ SameKeys(log, MarkUnk(log, c, b))
<1>1. Len(log) \in Nat /\ \A i \in 1 .. Len(log) : log[i] \in Patch
  BY LenProperties, ElementOfSeq
<1>2. \A p \in Patch : /\ [p EXCEPT !.ins_type = "UNK"] \in Patch
                       /\ Agree([p EXCEPT !.ins_type = "UNK"], p)
  BY DEF Patch, InsType, Agree
<1>3. \A p \in Patch : Agree(p, p)
  BY DEF Agree
<1>4. MarkUnk(log, c, b) \in [1 .. Len(log) -> Patch]
  BY <1>1, <1>2 DEF MarkUnk
<1>5. \A i \in 1 .. Len(log) : Agree(MarkUnk(log, c, b)[i], log[i])
  BY <1>1, <1>2, <1>3 DEF MarkUnk
<1>6. QED
  BY <1>1, <1>4, <1>5, FunctionIsSeq DEF SameKeys

(* The first patch that is marked has a place, or NoIndex.                 *)
LEMMA FirstUnkType ==
    ASSUME NEW log \in Seq(Patch), NEW c, NEW b
    PROVE  FirstUnk(log, c, b) \in Nat
<1>1. Len(log) \in Nat
  BY LenProperties
<1>2. {i \in 1 .. Len(log) : IsUnk(log[i], c, b)} \cup {NoIndex} \in SUBSET Nat
  BY <1>1 DEF NoIndex
<1>3. QED
  BY <1>2, MinIsLeast DEF FirstUnk

(* MarkStd changes marks only.                                             *)
LEMMA MarkStdIs ==
    ASSUME NEW log \in Seq(Patch), NEW p
    PROVE  MarkStd(log, p) \in Seq(Patch) /\ SameKeys(log, MarkStd(log, p))
<1>1. Len(log) \in Nat /\ \A i \in 1 .. Len(log) : log[i] \in Patch
  BY LenProperties, ElementOfSeq
<1>2. \A q \in Patch : /\ [q EXCEPT !.ins_type = "STD"] \in Patch
                       /\ Agree([q EXCEPT !.ins_type = "STD"], q)
  BY DEF Patch, InsType, Agree
<1>3. \A q \in Patch : Agree(q, q)
  BY DEF Agree
<1>4. MarkStd(log, p) \in [1 .. Len(log) -> Patch]
  BY <1>1, <1>2 DEF MarkStd
<1>5. \A i \in 1 .. Len(log) : Agree(MarkStd(log, p)[i], log[i])
  BY <1>1, <1>2, <1>3 DEF MarkStd
<1>6. QED
  BY <1>1, <1>4, <1>5, FunctionIsSeq DEF SameKeys

(* A patch has a place in a log: every patch after it is greater and the   *)
(* one before it, if any, is not.                                          *)
LEMMA InsertionIndexIs ==
    ASSUME NEW log \in Seq(Patch), NEW n \in Patch, NEW cur \in Dev
    PROVE  LET k == InsertionIndex(log, n, cur)
           IN  /\ k \in 1 .. Len(log) + 1
               /\ \A i \in k .. Len(log) : Sup(log[i], n, cur)
               /\ k > 1 => ~ Sup(log[k - 1], n, cur)
<1> DEFINE S == {k \in 1 .. Len(log) + 1 : \A i \in k .. Len(log) : Sup(log[i], n, cur)}
           m == InsertionIndex(log, n, cur)
<1>1. Len(log) \in Nat
  BY LenProperties
<1>2. Len(log) + 1 \in S
  BY <1>1
<1>3. S \in SUBSET Nat
  BY <1>1
<1>4. m \in S /\ \A k \in S : m <= k
  BY <1>2, <1>3, MinIsLeast DEF InsertionIndex
<1>5. ASSUME m > 1, Sup(log[m - 1], n, cur)
      PROVE  FALSE
  <2>1. m - 1 \in 1 .. Len(log) + 1
    BY <1>1, <1>4, <1>5
  <2>2. \A i \in m - 1 .. Len(log) : i = m - 1 \/ i \in m .. Len(log)
    BY <1>1, <1>4
  <2>3. m - 1 \in S
    BY <2>1, <2>2, <1>4, <1>5
  <2>4. QED
    BY <2>1, <2>3, <1>4
<1>6. QED
  BY <1>4, <1>5

(* InsertPatch adds the patch where it is told.                            *)
LEMMA InsertPatchIs ==
    ASSUME NEW log \in Seq(Patch), NEW n \in Patch, NEW k \in 1 .. Len(log) + 1
    PROVE  /\ InsertPatch(log, n, k) \in Seq(Patch)
           /\ Added(log, InsertPatch(log, n, k), n, k)
<1>1. Len(log) \in Nat /\ \A i \in 1 .. Len(log) : log[i] \in Patch
  BY LenProperties, ElementOfSeq
<1>2. InsertPatch(log, n, k) \in [1 .. Len(log) + 1 -> Patch]
  BY <1>1 DEF InsertPatch
<1>3. /\ InsertPatch(log, n, k) \in Seq(Patch)
      /\ Len(InsertPatch(log, n, k)) = Len(log) + 1
  BY <1>1, <1>2, FunctionIsSeq
<1>4. \A i \in 1 .. Len(log) :
         (IF i < k THEN InsertPatch(log, n, k)[i]
                   ELSE InsertPatch(log, n, k)[i + 1]) = log[i]
  BY <1>1 DEF InsertPatch
<1>5. InsertPatch(log, n, k)[k] = n
  BY <1>1 DEF InsertPatch
<1>6. QED
  BY <1>3, <1>4, <1>5 DEF Added, Agree

(* The merge starts at a place of the log, or after its end.               *)
LEMMA FirstToMergeType ==
    ASSUME NEW log \in Seq(Patch), NEW from \in Nat
    PROVE  FirstToMerge(log, from) \in Nat \ {0}
<1> DEFINE S == {i \in 1 .. Len(log) : i >= from /\ log[i].ins_type # "STD"}
                \cup {Len(log) + 1}
<1>1. Len(log) \in Nat
  BY LenProperties
<1>2. S \in SUBSET Nat /\ S # {} /\ 0 \notin S
  BY <1>1
<1>3. FirstToMerge(log, from) = Min(S)
  BY DEF FirstToMerge
<1> HIDE DEF S
<1>4. QED
  BY <1>2, <1>3, MinIsLeast

-----------------------------------------------------------------------------
(* The types of Db.                                                        *)

(* The only thing asked of the variable: its operations stay in Op and its *)
(* values in Doc.                                                          *)
DocClosed ==
    /\ Doc0 \in Doc
    /\ \A doc \in Doc :
          /\ \A r \in LocalOps(doc) : r.doc \in Doc /\ r.data \in Seq(Op)
          /\ \A data \in Seq(Op) : UndoData(doc, data) \in Doc
          /\ \A data, cq \in Seq(Op) :
                /\ NewData(doc, data, cq).doc \in Doc
                /\ NewData(doc, data, cq).data \in Seq(Op)
                /\ NewData(doc, data, cq).cq \in Seq(Op)

(* Where the thread is, what it has in hand exists: the sender, the        *)
(* destination, and the patch of the loop index.                           *)
Thread ==
    /\ pc # "idle" => src \in Dev
    /\ pc \in {"deliver", "read", "undo", "merge"} => todo # <<>>
    /\ pc \in {"undo", "merge"} => first # 0 /\ idx \in 1 .. Len(patches[dst])

TypeInv == TypeOK /\ Thread

-----------------------------------------------------------------------------
(* Type correctness.                                                       *)

LEMMA InitType ==
    ASSUME DocClosed, NEW bs, NEW conns \in [Dev -> Seq(Dev)], InitGroup(bs, conns)
    PROVE  TypeInv
<1>1. ZeroClock \in Clock
  BY DEF ZeroClock, Clock
<1>2. <<>> \in Seq(Patch) /\ <<>> \in Seq(Op) /\ <<>> \in Seq(Dev)
  BY EmptySeq
<1>3. Doc0 \in Doc
  BY DEF DocClosed
<1>4. patches \in [Dev -> Seq(Patch)] /\ modifications \in [Dev -> Seq(Op)]
  BY <1>2 DEF InitGroup
<1>5. vector_clock \in [Dev -> Clock] /\ sent \in [Dev -> [Dev -> Clock]]
  BY <1>1 DEF InitGroup
<1>6. /\ bound \in [Dev -> BOOLEAN] /\ connections \in [Dev -> Seq(Dev)]
      /\ modified_items \in [Dev -> Nat] /\ val \in [Dev -> Doc]
  BY <1>3 DEF InitGroup
<1>7. /\ src \in Ids /\ todo \in Seq(Dev) /\ base \in Clock /\ msg \in SUBSET Patch
      /\ now \in Nat /\ ifi \in Nat /\ first \in Nat /\ idx \in Nat
      /\ cq_new \in Seq(Op) /\ cq_unk \in Seq(Op)
  BY <1>1, <1>2 DEF InitGroup, Ids, NoIndex
<1>8. pc = "idle"
  BY DEF InitGroup
<1>9. QED
  BY <1>4, <1>5, <1>6, <1>7, <1>8 DEF TypeInv, TypeOK, Thread

(* The destination is a device and what is left to serve is a sequence.    *)
LEMMA TodoType ==
    ASSUME TypeOK, todo # <<>>
    PROVE  dst \in Dev /\ Tail(todo) \in Seq(Dev)
BY HeadTailProperties DEF TypeOK, dst

LEMMA EditType ==
    ASSUME DocClosed, TypeInv, NEW d \in Dev, Edit(d) PROVE TypeInv'
<1>1. PICK r \in LocalOps(val[d]) :
          /\ val' = [val EXCEPT ![d] = r.doc]
          /\ modifications' = [modifications EXCEPT ![d] = @ \o r.data]
  BY DEF Edit
<1>2. r.doc \in Doc /\ r.data \in Seq(Op)
  BY DEF DocClosed, TypeInv, TypeOK
<1>3. modifications[d] \o r.data \in Seq(Op)
  BY <1>2, ConcatProperties DEF TypeInv, TypeOK
<1>4. modifications' \in [Dev -> Seq(Op)] /\ val' \in [Dev -> Doc]
  BY <1>1, <1>2, <1>3 DEF TypeInv, TypeOK
<1>5. modified_items' \in [Dev -> Nat]
  BY DEF Edit, TypeInv, TypeOK
<1>6. QED
  BY <1>4, <1>5 DEF TypeInv, TypeOK, Thread, Edit, dst, msgVars, mergeVars

LEMMA BindType ==
    ASSUME TypeInv, NEW d \in Dev, Bind(d) PROVE TypeInv'
BY DEF TypeInv, TypeOK, Thread, Bind, dst, itemVars, msgVars, mergeVars

LEMMA ConnectType ==
    ASSUME TypeInv, NEW d \in Dev, NEW e \in Dev, Connect(d, e) PROVE TypeInv'
<1>1. Append(connections[d], e) \in Seq(Dev)
  BY DEF TypeInv, TypeOK
<1>2. connections' \in [Dev -> Seq(Dev)]
  BY <1>1 DEF TypeInv, TypeOK, Connect
<1>3. QED
  BY <1>2 DEF TypeInv, TypeOK, Thread, Connect, dst, itemVars, msgVars, mergeVars

LEMMA TickType == ASSUME TypeInv, Tick PROVE TypeInv'
BY DEF TypeInv, TypeOK, Thread, Tick, dst, itemVars, msgVars, mergeVars

LEMMA SendChangesType ==
    ASSUME TypeInv, NEW d \in Dev, SendChanges(d) PROVE TypeInv'
BY DEF TypeInv, TypeOK, Thread, SendChanges, dst, itemVars, dbVars, msgVars,
       mergeVars, Ids

LEMMA EndSendType == ASSUME TypeInv, EndSend PROVE TypeInv'
BY DEF TypeInv, TypeOK, Thread, EndSend, dst, itemVars, msgVars, mergeVars, Ids

LEMMA DropChangesType == ASSUME TypeInv, DropChanges PROVE TypeInv'
<1>1. ZeroClock \in Clock
  BY DEF ZeroClock, Clock
<1>2. Tail(todo) \in Seq(Dev)
  BY TodoType DEF TypeInv, Thread, DropChanges
<1>3. QED
  BY <1>1, <1>2 DEF TypeInv, TypeOK, Thread, DropChanges, dst, itemVars, dbVars,
                    mergeVars, ClearMessage

(* The date a device reads is a number.                                    *)
LEMMA DateType == ASSUME TypeOK, NEW d \in Dev PROVE Date(d) \in Int
BY SkewAssumption DEF TypeOK, Date

(* Freezing keeps the types.                                               *)
LEMMA FreezeType ==
    ASSUME TypeOK, NEW d \in Dev, Freeze(d)
    PROVE  /\ FrozenPatches(d, Date(d)) \in Seq(Patch)
           /\ vector_clock' \in [Dev -> Clock]
           /\ modifications' \in [Dev -> Seq(Op)]
<1>1. FrozenPatches(d, Date(d)) \in Seq(Patch) /\ FrozenClock(d) \in Clock
  BY DateType, FrozenIs DEF TypeOK
<1>2. <<>> \in Seq(Op)
  BY EmptySeq
<1>3. QED
  BY <1>1, <1>2 DEF TypeOK, Freeze

(* What get_changes puts in a message are patches.                         *)
LEMMA UnsentType ==
    ASSUME NEW log \in Seq(Patch), NEW c, NEW k
    PROVE  Unsent(log, c, k) \in SUBSET Patch
BY ElementOfSeq DEF Unsent

LEMMA GetChangesType == ASSUME TypeInv, GetChanges PROVE TypeInv'
<1> DEFINE log == FrozenPatches(src, Date(src))
           out == Unsent(log, vector_clock'[src], sent[src][dst])
<1>1. src \in Dev /\ dst \in Dev /\ Tail(todo) \in Seq(Dev) /\ todo # <<>>
  BY TodoType DEF GetChanges, TypeInv, Thread
<1>2. Freeze(src)
  BY DEF GetChanges
<1>3. /\ log \in Seq(Patch) /\ vector_clock' \in [Dev -> Clock]
      /\ modifications' \in [Dev -> Seq(Op)]
  BY <1>1, <1>2, FreezeType DEF TypeInv
<1>4. patches' \in [Dev -> Seq(Patch)] /\ patches'[src] = log
  BY <1>1, <1>3 DEF GetChanges, TypeInv, TypeOK
<1>5. /\ val' \in [Dev -> Doc] /\ UNCHANGED dbVars /\ src' \in Dev
      /\ UNCHANGED mergeVars
  BY <1>1 DEF GetChanges, TypeInv, TypeOK
<1>6. CASE out = {} /\ todo' = Tail(todo) /\ UNCHANGED <<pc, sent, msgVars>>
  BY <1>1, <1>3, <1>4, <1>5, <1>6
  DEF TypeInv, TypeOK, Thread, GetChanges, dbVars, msgVars, mergeVars, Ids
<1>7. CASE /\ out # {}
           /\ sent' = [sent EXCEPT ![src][dst] = vector_clock'[src]]
           /\ base' = sent[src][dst] /\ msg' = out
           /\ pc' = "deliver"
           /\ UNCHANGED todo
  <2>1. sent' \in [Dev -> [Dev -> Clock]] /\ base' \in Clock
    BY <1>1, <1>3, <1>7 DEF TypeInv, TypeOK
  <2>2. msg' \in SUBSET Patch
    BY <1>3, <1>7, UnsentType
  <2>3. QED
    BY <1>1, <1>3, <1>4, <1>5, <1>7, <2>1, <2>2
    DEF TypeInv, TypeOK, Thread, dbVars, mergeVars, Ids
<1>8. QED
  BY <1>4, <1>6, <1>7 DEF GetChanges

LEMMA RejectChangesType == ASSUME TypeInv, RejectChanges PROVE TypeInv'
<1>1. dst \in Dev
  BY TodoType DEF RejectChanges, TypeInv, Thread
<1>2. /\ FrozenPatches(dst, Date(dst)) \in Seq(Patch)
      /\ vector_clock' \in [Dev -> Clock] /\ modifications' \in [Dev -> Seq(Op)]
  BY <1>1, FreezeType DEF RejectChanges, TypeInv
<1>3. patches' \in [Dev -> Seq(Patch)]
  BY <1>1, <1>2 DEF RejectChanges, TypeInv, TypeOK
<1>4. ZeroClock \in Clock /\ <<>> \in Seq(Dev)
  BY EmptySeq DEF ZeroClock, Clock
<1>5. QED
  BY <1>2, <1>3, <1>4
  DEF TypeInv, TypeOK, Thread, RejectChanges, ClearMessage, dbVars, mergeVars, Ids

LEMMA AcceptChangesType == ASSUME TypeInv, AcceptChanges PROVE TypeInv'
<1> DEFINE log   == FrozenPatches(dst, Date(dst))
           known == ReadClock(base, src, dst)
<1>1. dst \in Dev /\ src \in Dev /\ todo # <<>>
  BY TodoType DEF AcceptChanges, TypeInv, Thread
<1>2. /\ log \in Seq(Patch) /\ vector_clock' \in [Dev -> Clock]
      /\ modifications' \in [Dev -> Seq(Op)]
  BY <1>1, FreezeType DEF AcceptChanges, TypeInv
<1>3. /\ MarkUnk(log, vector_clock'[dst], known) \in Seq(Patch)
      /\ FirstUnk(log, vector_clock'[dst], known) \in Nat
  BY <1>2, MarkUnkIs, FirstUnkType
<1>4. patches' \in [Dev -> Seq(Patch)] /\ ifi' \in Nat
  BY <1>1, <1>3 DEF AcceptChanges, TypeInv, TypeOK
<1>5. QED
  BY <1>1, <1>2, <1>4
  DEF TypeInv, TypeOK, Thread, AcceptChanges, dbVars, msgVars

(* A patch that is received is a patch.                                    *)
LEMMA ReceivedType ==
    ASSUME src \in Dev, dst \in Dev, NEW p \in Patch
    PROVE  /\ Received(p) \in Patch
           /\ Received(p).dev = ReadDev(p.dev, src, dst)
           /\ Received(p).num = p.num
<1>1. ReadDev(p.dev, src, dst) \in Ids
  BY ReadDevType DEF Patch
<1>2. QED
  BY <1>1 DEF Received, Patch, InsType

LEMMA ReadPatchType == ASSUME TypeInv, ReadPatch PROVE TypeInv'
<1>1. dst \in Dev /\ src \in Dev /\ todo # <<>>
  BY TodoType DEF ReadPatch, TypeInv, Thread
<1>2. PICK p \in msg : Read(p)
  BY DEF ReadPatch
<1> DEFINE n == Received(p)
           k == InsertionIndex(patches[dst], n, dst)
<1>0. \/ patches' = [patches EXCEPT ![dst] = MarkStd(@, n)] /\ UNCHANGED <<vector_clock, ifi>>
      \/ /\ vector_clock' = [vector_clock EXCEPT ![dst] = UpdatePatch(@, n.dev, n.num)]
         /\ patches' = [patches EXCEPT ![dst] = InsertPatch(@, n, k)]
         /\ ifi' = IF ifi > k THEN k ELSE ifi
  BY <1>2 DEF Read
<1>3. p \in Patch /\ n \in Patch /\ n.dev \in Ids /\ n.num \in Nat
  BY <1>1, <1>2, ReceivedType DEF TypeInv, TypeOK, Patch
<1>4. patches[dst] \in Seq(Patch)
  BY <1>1 DEF TypeInv, TypeOK
<1> HIDE DEF n
<1>5. /\ UpdatePatch(sent[dst][src], n.dev, n.num) \in Clock
      /\ UpdatePatch(vector_clock[dst], n.dev, n.num) \in Clock
  BY <1>1, <1>3, UpdatePatchType DEF TypeInv, TypeOK
<1>6. k \in 1 .. Len(patches[dst]) + 1 /\ k \in Nat
  BY <1>1, <1>3, <1>4, InsertionIndexIs, LenProperties
<1>7. /\ MarkStd(patches[dst], n) \in Seq(Patch)
      /\ InsertPatch(patches[dst], n, k) \in Seq(Patch)
  BY <1>3, <1>4, <1>6, MarkStdIs, InsertPatchIs
<1> HIDE DEF k
<1>8. sent' \in [Dev -> [Dev -> Clock]]
  BY <1>1, <1>2, <1>5 DEF Read, n, TypeInv, TypeOK
<1>9. /\ patches' \in [Dev -> Seq(Patch)] /\ vector_clock' \in [Dev -> Clock]
      /\ ifi' \in Nat
  <2>1. patches' \in [Dev -> Seq(Patch)]
    BY <1>0, <1>1, <1>7 DEF TypeInv, TypeOK
  <2>2. vector_clock' \in [Dev -> Clock]
    BY <1>0, <1>1, <1>5 DEF TypeInv, TypeOK
  <2>3. ifi' \in Nat
    BY <1>0, <1>6 DEF TypeInv, TypeOK
  <2>4. QED
    BY <2>1, <2>2, <2>3
<1>10. msg' \in SUBSET Patch
  BY <1>2 DEF Read, TypeInv, TypeOK
<1>11. /\ pc = "read" /\ dst' = dst
       /\ UNCHANGED <<modifications, val, dbVars, pc, src, todo, base, first, idx, cq_new, cq_unk>>
  BY <1>2 DEF ReadPatch, Read, dst
<1>12. Thread'
  BY <1>1, <1>11 DEF Thread
<1>13. TypeOK'
  BY <1>8, <1>9, <1>10, <1>11 DEF TypeInv, TypeOK, dbVars
<1>14. QED
  BY <1>12, <1>13 DEF TypeInv

LEMMA EndReadType == ASSUME TypeInv, EndRead PROVE TypeInv'
<1> DEFINE log == patches[dst]
<1>1. dst \in Dev /\ src \in Dev /\ todo # <<>> /\ Tail(todo) \in Seq(Dev)
  BY TodoType DEF EndRead, TypeInv, Thread
<1>2. log \in Seq(Patch) /\ Len(log) \in Nat
  BY <1>1, LenProperties DEF TypeInv, TypeOK
<1>0. UNCHANGED <<itemVars, dbVars, src>>
  BY DEF EndRead
<1>3. CASE /\ \E i \in 1 .. Len(log) : log[i].ins_type = "NEW"
           /\ pc' = "undo"
           /\ first' = FirstToMerge(log, ifi)
           /\ idx' = Len(log)
           /\ UNCHANGED <<todo, msgVars, ifi, cq_new, cq_unk>>
  <2>1. first' \in Nat /\ first' # 0
    BY <1>2, <1>3, FirstToMergeType DEF TypeInv, TypeOK
  <2>2. idx' \in 1 .. Len(patches'[dst'])
    BY <1>0, <1>2, <1>3 DEF EndRead, itemVars, dst
  <2>3. Thread'
    BY <1>0, <1>1, <1>3, <2>1, <2>2 DEF Thread
  <2>4. TypeOK'
    BY <1>0, <1>2, <1>3, <2>1 DEF TypeInv, TypeOK, itemVars, dbVars, msgVars
  <2>5. QED
    BY <2>3, <2>4 DEF TypeInv
<1>4. CASE /\ pc' = "send" /\ todo' = Tail(todo)
           /\ ClearMessage /\ ClearMerge
  <2>1. ZeroClock \in Clock /\ <<>> \in Seq(Op)
    BY EmptySeq DEF ZeroClock, Clock
  <2>2. /\ base' \in Clock /\ msg' \in SUBSET Patch
        /\ ifi' \in Nat /\ first' \in Nat /\ idx' \in Nat
        /\ cq_new' \in Seq(Op) /\ cq_unk' \in Seq(Op)
    BY <1>4, <2>1 DEF ClearMessage, ClearMerge, NoIndex
  <2>3. Thread'
    BY <1>0, <1>1, <1>4 DEF Thread
  <2>4. TypeOK'
    BY <1>0, <1>1, <1>4, <2>2 DEF TypeInv, TypeOK, itemVars, dbVars
  <2>5. QED
    BY <2>3, <2>4 DEF TypeInv
<1>5. QED
  BY <1>3, <1>4 DEF EndRead

LEMMA UndoPatchType == ASSUME DocClosed, TypeInv, UndoPatch PROVE TypeInv'
<1> DEFINE f == patches[dst][idx]
<1>1. /\ dst \in Dev /\ src \in Dev /\ todo # <<>>
      /\ idx \in 1 .. Len(patches[dst]) /\ first # 0
  BY TodoType DEF UndoPatch, TypeInv, Thread
<1>2. patches[dst] \in Seq(Patch) /\ Len(patches[dst]) \in Nat
  BY <1>1, LenProperties DEF TypeInv, TypeOK
<1>3. f \in Patch
  BY <1>1, <1>2, ElementOfSeq
<1>4. UndoData(val[dst], f.data) \in Doc
  BY <1>1, <1>3 DEF DocClosed, TypeInv, TypeOK, Patch
<1>5. val' \in [Dev -> Doc]
  BY <1>1, <1>4 DEF UndoPatch, TypeInv, TypeOK
<1>6. /\ idx' \in 1 .. Len(patches[dst]) /\ idx' \in Nat
      /\ pc' \in {"undo", "merge"}
  <2>1. \/ idx = first /\ pc' = "merge" /\ idx' = idx
        \/ idx > first /\ idx' = idx - 1 /\ pc' = "undo"
    BY DEF UndoPatch
  <2>2. first \in Nat /\ idx \in Nat
    BY DEF TypeInv, TypeOK
  <2>3. QED
    BY <1>1, <1>2, <2>1, <2>2
<1>7. QED
  BY <1>1, <1>5, <1>6
  DEF TypeInv, TypeOK, Thread, UndoPatch, dbVars, msgVars, dst

(* What the merge of a patch gives, whatever its mark.                     *)
LEMMA MergedType ==
    ASSUME DocClosed, TypeInv, dst \in Dev, NEW f \in Patch
    PROVE  /\ Merged(f).doc \in Doc
           /\ Merged(f).data \in Seq(Op)
           /\ Merged(f).cq \in Seq(Op)
<1>1. /\ val[dst] \in Doc /\ f.data \in Seq(Op) /\ <<>> \in Seq(Op)
      /\ cq_new \in Seq(Op) /\ cq_unk \in Seq(Op)
  BY EmptySeq DEF TypeInv, TypeOK, Patch
<1>2. CASE f.ins_type = "NEW"
  BY <1>1, <1>2 DEF Merged, DocClosed
<1>3. CASE f.ins_type = "UNK"
  BY <1>1, <1>3 DEF Merged, DocClosed
<1>4. CASE f.ins_type = "STD"
  BY <1>1, <1>4 DEF Merged
<1>5. QED
  BY <1>2, <1>3, <1>4 DEF Patch, InsType

(* The place of the log that a merge rewrites.                             *)
LEMMA MergeAt ==
    ASSUME DocClosed, TypeInv, MergePatch
    PROVE  /\ dst \in Dev
           /\ patches[dst] \in Seq(Patch)
           /\ idx \in 1 .. Len(patches[dst])
           /\ \E f \in Patch :
                 /\ Agree(f, patches[dst][idx])
                 /\ patches' = [patches EXCEPT ![dst] = [@ EXCEPT ![idx] = f]]
<1> DEFINE f == patches[dst][idx]
           g == [f EXCEPT !.data = Merged(f).data, !.ins_type = "STD"]
<1>1. dst \in Dev /\ idx \in 1 .. Len(patches[dst])
  BY TodoType DEF MergePatch, TypeInv, Thread
<1>2. patches[dst] \in Seq(Patch)
  BY <1>1 DEF TypeInv, TypeOK
<1>3. f \in Patch
  BY <1>1, <1>2, ElementOfSeq
<1>4. Merged(f).data \in Seq(Op)
  BY <1>1, <1>3, MergedType
<1>5. g \in Patch /\ Agree(g, f)
  <2> DEFINE h == f
             m == Merged(f).data
  <2> HIDE DEF m, f
  <2> QED BY <1>3, <1>4 DEF Patch, InsType, Agree, m
<1>6. patches' = [patches EXCEPT ![dst][idx] = g]
  BY DEF MergePatch
<1>7. patches' = [patches EXCEPT ![dst] = [@ EXCEPT ![idx] = g]]
  BY <1>6
<1>8. QED
  BY <1>1, <1>2, <1>5, <1>7

LEMMA MergePatchType == ASSUME DocClosed, TypeInv, MergePatch PROVE TypeInv'
<1> DEFINE f == patches[dst][idx]
           r == Merged(f)
<1>1. /\ dst \in Dev /\ src \in Dev /\ todo # <<>> /\ Tail(todo) \in Seq(Dev)
      /\ idx \in 1 .. Len(patches[dst]) /\ first # 0
  BY TodoType DEF MergePatch, TypeInv, Thread
<1>2. patches[dst] \in Seq(Patch) /\ Len(patches[dst]) \in Nat
  BY <1>1, LenProperties DEF TypeInv, TypeOK
<1>3. f \in Patch
  BY <1>1, <1>2, ElementOfSeq
<1>4. r.doc \in Doc /\ r.data \in Seq(Op) /\ r.cq \in Seq(Op)
  BY <1>1, <1>3, MergedType
<1>5. val' \in [Dev -> Doc]
  <2>1. val' = [val EXCEPT ![dst] = r.doc]
    BY DEF MergePatch
  <2> HIDE DEF r
  <2>2. QED
    BY <1>1, <1>4, <2>1 DEF TypeInv, TypeOK
<1>6. /\ patches' \in [Dev -> Seq(Patch)]
      /\ Len(patches'[dst]) = Len(patches[dst])
  <2>1. PICK g \in Patch : patches' = [patches EXCEPT ![dst] = [@ EXCEPT ![idx] = g]]
    BY MergeAt
  <2>2. /\ [patches[dst] EXCEPT ![idx] = g] \in Seq(Patch)
        /\ Len([patches[dst] EXCEPT ![idx] = g]) = Len(patches[dst])
    BY <1>1, <1>2, ExceptSeq
  <2>3. QED
    BY <1>1, <2>1, <2>2 DEF TypeInv, TypeOK
<1>0. UNCHANGED <<vector_clock, sent, modifications, dbVars, src>>
  BY DEF MergePatch
<1> HIDE DEF f, r
<1>7. CASE idx = Len(patches[dst])
  <2>1. pc' = "send" /\ todo' = Tail(todo) /\ ClearMessage /\ ClearMerge
    BY <1>7 DEF MergePatch
  <2>2. ZeroClock \in Clock /\ <<>> \in Seq(Op)
    BY EmptySeq DEF ZeroClock, Clock
  <2>3. TypeOK'
    <3>1. /\ base' \in Clock /\ msg' \in SUBSET Patch
          /\ ifi' \in Nat /\ first' \in Nat /\ idx' \in Nat
          /\ cq_new' \in Seq(Op) /\ cq_unk' \in Seq(Op)
      BY <2>1, <2>2 DEF ClearMessage, ClearMerge, NoIndex
    <3>2. QED
      BY <1>0, <1>1, <1>5, <1>6, <2>1, <3>1 DEF TypeInv, TypeOK, dbVars
  <2>4. Thread'
    BY <1>0, <1>1, <2>1 DEF Thread
  <2>5. QED
    BY <2>3, <2>4 DEF TypeInv
<1>8. CASE idx # Len(patches[dst])
  <2>1. /\ idx' = idx + 1
        /\ cq_new' = CASE f.ins_type = "NEW" -> cq_new \o r.data
                       [] f.ins_type = "UNK" -> r.cq
                       [] f.ins_type = "STD" -> cq_new
        /\ cq_unk' = CASE f.ins_type = "NEW" -> r.cq
                       [] f.ins_type = "UNK" -> cq_unk \o r.data
                       [] f.ins_type = "STD" -> cq_unk
        /\ UNCHANGED <<pc, todo, msgVars, ifi, first>>
    BY <1>8 DEF MergePatch, f, r
  <2>2. f.ins_type \in {"NEW", "UNK", "STD"}
    BY <1>3 DEF Patch, InsType
  <2>3. /\ cq_new \o r.data \in Seq(Op) /\ cq_unk \o r.data \in Seq(Op)
        /\ cq_new \in Seq(Op) /\ cq_unk \in Seq(Op)
    BY <1>4, ConcatProperties DEF TypeInv, TypeOK
  <2>4. cq_new' \in Seq(Op) /\ cq_unk' \in Seq(Op)
    BY <1>4, <2>1, <2>2, <2>3
  <2>5. idx' \in 1 .. Len(patches'[dst]) /\ idx' \in Nat
    BY <1>1, <1>2, <1>6, <1>8, <2>1
  <2>6. QED
    <3>1. pc' = "merge" /\ dst' = dst
      BY <2>1 DEF MergePatch, dst
    <3>2. QED
      BY <1>0, <1>1, <1>5, <1>6, <2>1, <2>4, <2>5, <3>1
      DEF TypeInv, TypeOK, Thread, dbVars, msgVars
<1>9. QED
  BY <1>7, <1>8

LEMMA NextType == ASSUME DocClosed, TypeInv, [Next]_vars PROVE TypeInv'
<1>1. CASE \E d \in Dev : Edit(d) \/ Bind(d) \/ SendChanges(d)
  BY <1>1, EditType, BindType, SendChangesType
<1>2. CASE \E d, e \in Dev : Connect(d, e)
  BY <1>2, ConnectType
<1>3. CASE Tick
  BY <1>3, TickType
<1>4. CASE Run
  BY <1>4, GetChangesType, EndSendType, DropChangesType, RejectChangesType,
     AcceptChangesType, ReadPatchType, EndReadType, UndoPatchType, MergePatchType
  DEF Run
<1>5. CASE UNCHANGED vars
  BY <1>5 DEF TypeInv, TypeOK, Thread, vars, itemVars, dbVars, msgVars, mergeVars, dst
<1>6. QED
  BY <1>1, <1>2, <1>3, <1>4, <1>5 DEF Next

(* TypeInv is inductive: what the thread holds always exists.              *)
THEOREM TypeInvariant == ASSUME DocClosed PROVE Spec => []TypeInv
<1>1. Init => TypeInv
  BY InitType, GroupAssumption DEF Init
<1>2. TypeInv /\ [Next]_vars => TypeInv'
  BY NextType
<1>3. QED
  BY <1>1, <1>2, PTL DEF Spec

(* Every variable of every Db, and of a send_changes in progress, keeps    *)
(* its type: in particular the indices of the loops of app_changes are     *)
(* those of a patch whenever they are read.                                *)
THEOREM TypeCorrect == ASSUME DocClosed PROVE Spec => []TypeOK
<1>1. TypeInv => TypeOK
  BY DEF TypeInv
<1>2. QED
  BY <1>1, TypeInvariant, PTL

-----------------------------------------------------------------------------
(* What a step does to a log: it leaves the patches where they are, or it  *)
(* adds one.                                                               *)

LEMMA SameKeysKept ==
    ASSUME NEW old \in Seq(Patch), NEW new, SameKeys(old, new)
    PROVE  Kept(old, new)
<1>1. Len(old) \in Nat
  BY LenProperties
<1>2. QED
  BY <1>1 DEF Kept, SameKeys, Agree, Same

LEMMA AddedKept ==
    ASSUME NEW old \in Seq(Patch), NEW new, NEW n, NEW k, Added(old, new, n, k)
    PROVE  Kept(old, new)
<1> DEFINE at(i) == IF i < k THEN i ELSE i + 1
<1>1. Len(old) \in Nat /\ k \in Nat
  BY LenProperties DEF Added
<1>2. \A i \in 1 .. Len(old) : at(i) \in 1 .. Len(new) /\ Agree(new[at(i)], old[i])
  BY <1>1 DEF Added
<1>3. \A i, j \in 1 .. Len(old) : i <= j => at(i) <= at(j)
  BY <1>1
<1>4. ASSUME NEW i \in 1 .. Len(old), NEW j \in 1 .. Len(old), i <= j
      PROVE  /\ at(i) <= at(j) /\ at(i) \in 1 .. Len(new) /\ at(j) \in 1 .. Len(new)
             /\ Same(old[i], new[at(i)]) /\ Same(old[j], new[at(j)])
  BY <1>2, <1>3, <1>4 DEF Agree, Same
<1> HIDE DEF at
<1>5. QED
  BY <1>4 DEF Kept

LEMMA SameKeysRefl ==
    ASSUME NEW log \in Seq(Patch) PROVE SameKeys(log, log)
BY DEF SameKeys, Agree

(* The log of a device that receives nothing and sends nothing.            *)
LEMMA LogUnchanged ==
    ASSUME TypeOK, UNCHANGED patches, NEW d \in Dev
    PROVE  SameKeys(patches[d], patches'[d])
BY SameKeysRefl DEF TypeOK

LEMMA FreezeLog ==
    ASSUME TypeOK, NEW d \in Dev
    PROVE  \/ SameKeys(patches[d], FrozenPatches(d, Date(d)))
           \/ Added(patches[d], FrozenPatches(d, Date(d)), LastPatch(d, Date(d)),
                    Len(patches[d]) + 1)
BY DateType, FrozenIs, SameKeysRefl DEF TypeOK

(* The changes of marks that follow a freeze do not matter.                *)
LEMMA AddedThenMarked ==
    ASSUME NEW old, NEW mid, NEW new, NEW n, NEW k, Len(old) \in Nat,
           Added(old, mid, n, k), SameKeys(mid, new)
    PROVE  Added(old, new, n, k)
<1>1. \A i \in 1 .. Len(old) + 1 : Agree(new[i], mid[i])
  BY DEF Added, SameKeys
<1>2. QED
  BY <1>1 DEF Added, SameKeys, Agree

LEMMA SameKeysTransitive ==
    ASSUME NEW old, NEW mid, NEW new, SameKeys(old, mid), SameKeys(mid, new)
    PROVE  SameKeys(old, new)
BY DEF SameKeys, Agree

LEMMA LogStep ==
    ASSUME DocClosed, TypeInv, [Next]_vars, NEW d \in Dev
    PROVE  SameKeys(patches[d], patches'[d]) \/ \E n, k : Added(patches[d], patches'[d], n, k)
<1>1. patches \in [Dev -> Seq(Patch)] /\ patches[d] \in Seq(Patch) /\ TypeOK
  BY DEF TypeInv, TypeOK
<1>2. CASE UNCHANGED patches
  BY <1>1, <1>2, LogUnchanged
<1>3. CASE GetChanges
  <2>1. patches' = [patches EXCEPT ![src] = FrozenPatches(src, Date(src))]
    BY <1>3 DEF GetChanges
  <2>2. QED
    BY <1>1, <2>1, FreezeLog, SameKeysRefl
<1>4. CASE RejectChanges
  <2>1. patches' = [patches EXCEPT ![dst] = FrozenPatches(dst, Date(dst))]
    BY <1>4 DEF RejectChanges
  <2>2. QED
    BY <1>1, <2>1, FreezeLog, SameKeysRefl
<1>5. CASE AcceptChanges
  <2> DEFINE log == FrozenPatches(dst, Date(dst))
             new == MarkUnk(log, vector_clock'[dst], ReadClock(base, src, dst))
  <2>1. patches' = [patches EXCEPT ![dst] = new] /\ dst \in Dev
    BY <1>5, TodoType DEF AcceptChanges, TypeInv, Thread
  <2>2. log \in Seq(Patch)
    BY <1>1, <1>5, <2>1, FreezeType DEF AcceptChanges
  <2>3. SameKeys(log, new)
    BY <2>2, MarkUnkIs
  <2>4. \/ SameKeys(patches[dst], log)
        \/ Added(patches[dst], log, LastPatch(dst, Date(dst)), Len(patches[dst]) + 1)
    BY <1>1, <2>1, FreezeLog
  <2>5. Len(patches[dst]) \in Nat
    BY <1>1, <2>1, LenProperties
  <2> HIDE DEF new, log
  <2>6. \/ SameKeys(patches[dst], new)
        \/ Added(patches[dst], new, LastPatch(dst, Date(dst)), Len(patches[dst]) + 1)
    BY <2>3, <2>4, <2>5, AddedThenMarked, SameKeysTransitive
  <2>7. QED
    BY <1>1, <2>1, <2>6, SameKeysRefl
<1>6. CASE ReadPatch
  <2>1. dst \in Dev /\ src \in Dev
    BY <1>6, TodoType DEF ReadPatch, TypeInv, Thread
  <2>2. PICK p \in msg : Read(p)
    BY <1>6 DEF ReadPatch
  <2> DEFINE n == Received(p)
             k == InsertionIndex(patches[dst], n, dst)
  <2>3. n \in Patch /\ patches[dst] \in Seq(Patch)
    BY <1>1, <2>1, ReceivedType DEF TypeOK
  <2> HIDE DEF n
  <2>4. k \in 1 .. Len(patches[dst]) + 1
    BY <2>1, <2>3, InsertionIndexIs
  <2> HIDE DEF k
  <2>5. /\ SameKeys(patches[dst], MarkStd(patches[dst], n))
        /\ Added(patches[dst], InsertPatch(patches[dst], n, k), n, k)
    BY <2>3, <2>4, MarkStdIs, InsertPatchIs
  <2>6. \/ patches' = [patches EXCEPT ![dst] = MarkStd(@, n)]
        \/ patches' = [patches EXCEPT ![dst] = InsertPatch(@, n, k)]
    BY <2>2 DEF Read, n, k
  <2>7. QED
    BY <1>1, <2>1, <2>5, <2>6, SameKeysRefl
<1>7. CASE MergePatch
  <2>1. PICK f \in Patch :
          /\ Agree(f, patches[dst][idx])
          /\ patches' = [patches EXCEPT ![dst] = [@ EXCEPT ![idx] = f]]
    BY <1>7, MergeAt
  <2>2. dst \in Dev /\ patches[dst] \in Seq(Patch) /\ idx \in 1 .. Len(patches[dst])
    BY <1>7, MergeAt
  <2>3. SameKeys(patches[dst], [patches[dst] EXCEPT ![idx] = f])
    BY <2>1, <2>2, ExceptSeq DEF SameKeys, Agree
  <2>4. QED
    BY <1>1, <2>1, <2>2, <2>3, SameKeysRefl
<1>8. [Next]_vars => \/ UNCHANGED patches \/ GetChanges \/ RejectChanges
                     \/ AcceptChanges \/ ReadPatch \/ MergePatch
  BY DEF Next, Run, Edit, Bind, SendChanges, Connect, Tick, EndSend, DropChanges,
         EndRead, UndoPatch, vars, itemVars
<1>9. QED
  BY <1>2, <1>3, <1>4, <1>5, <1>6, <1>7, <1>8

(* No step of any Db removes a patch from a log or swaps two of them:      *)
(* whatever freeze_last_mod, app_changes and the merge do, what was before *)
(* a patch stays before it.                                                *)
THEOREM HistoryIsKept == ASSUME DocClosed PROVE Spec => HistoryKept
<1>1. ASSUME TypeInv, [Next]_vars
      PROVE  \A d \in Dev : Kept(patches[d], patches'[d])
  <2>1. \A d \in Dev : patches[d] \in Seq(Patch)
    BY <1>1 DEF TypeInv, TypeOK
  <2>2. QED
    BY <1>1, <2>1, LogStep, SameKeysKept, AddedKept
<1>2. TypeInv /\ [Next]_vars => [\A d \in Dev : Kept(patches[d], patches'[d])]_vars
  BY <1>1
<1>3. QED
  BY <1>2, TypeInvariant, PTL DEF Spec, HistoryKept

-----------------------------------------------------------------------------
(* The clock of every Db says exactly which patches its log holds.         *)
(*                                                                         *)
(* A patch that a device makes takes the number after its clock. A patch   *)
(* that it receives does too, because of what a message is: for every      *)
(* device it holds the patches from the first one that the receiver lacks, *)
(* without a gap, and app_changes reads them in the order of their         *)
(* numbers. That a message has this form is the invariant Message; it      *)
(* comes from ClockMatchesPatches at the sender and from the test of what  *)
(* is assumed to be known at the receiver.                                 *)


(* The message holds, for the device of p, the patches after lo up to p.   *)
FromNext(lo, p) ==
    \A n \in lo + 1 .. p.num : \E q \in msg : q.dev = p.dev /\ q.num = n

(* No Db stores anything under its own global name, and the patches left   *)
(* to read follow what the receiver holds.                                 *)
Message ==
    /\ \A d \in Dev : vector_clock[d][d] = 0
    /\ pc \in {"deliver", "read"} =>
          /\ \A p \in msg : p.dev # src
          /\ \A p, q \in msg : Same(p, q) => p = q
    /\ pc = "deliver" => \A p \in msg : FromNext(base[p.dev], p)
    /\ pc = "read" => \A p \in msg :
          FromNext(vector_clock[dst][ReadDev(p.dev, src, dst)], p)

ClockInv == TypeInv /\ ClockMatchesPatches /\ Message

-----------------------------------------------------------------------------
(* Names.                                                                  *)

LEMMA LocIsNotADevice == \A d \in Dev : d # Loc
BY DevAssumption DEF Loc

(* Two devices are not mixed up by a reader, and nothing is read under the *)
(* reader's own global name.                                               *)
LEMMA ReadDevInjective ==
    ASSUME NEW s \in Dev, NEW c \in Dev,
           NEW x \in Ids, NEW y \in Ids, x # s, y # s,
           ReadDev(x, s, c) = ReadDev(y, s, c)
    PROVE  x = y
BY LocIsNotADevice DEF ReadDev, ToGlo, Ids

LEMMA ReadDevNotOwn ==
    ASSUME NEW s \in Dev, NEW c \in Dev, NEW x \in Ids
    PROVE  ReadDev(x, s, c) # c
BY LocIsNotADevice DEF ReadDev, ToGlo, Ids

(* Reading a name back gives the name.                                     *)
LEMMA ReadDevBack ==
    ASSUME NEW s \in Dev, NEW c \in Dev, NEW x \in Ids, x # s
    PROVE  ReadDev(ReadDev(x, s, c), c, s) = x
BY LocIsNotADevice DEF ReadDev, ToGlo, Ids

(* What a clock of the sender says of a device, at its name there, is what *)
(* the clock read by the receiver says at the name it has here.            *)
LEMMA ReadClockAt ==
    ASSUME NEW s \in Dev, NEW c \in Dev, NEW x \in Ids, x # s, NEW v \in Clock
    PROVE  ReadClock(v, s, c)[ReadDev(x, s, c)] = v[x]
BY ReadDevType, ReadDevNotOwn, ReadDevBack DEF ReadClock

-----------------------------------------------------------------------------
(* Logs and clocks.                                                        *)

LEMMA SameKeysMatches ==
    ASSUME NEW old \in Seq(Patch), NEW new, NEW c \in Clock,
           SameKeys(old, new), Matches(old, c)
    PROVE  Matches(new, c)
BY DEF Matches, SameKeys, Agree, Same

LEMMA AddedMatches ==
    ASSUME NEW old \in Seq(Patch), NEW new \in Seq(Patch), NEW c \in Clock,
           NEW n \in Patch, NEW k, Added(old, new, n, k),
           Matches(old, c), n.num = c[n.dev] + 1
    PROVE  Matches(new, SelfInc(c, n.dev))
<1> DEFINE at(i) == IF i < k THEN i ELSE i + 1
           m == SelfInc(c, n.dev)
<1>1. Len(old) \in Nat /\ k \in 1 .. Len(old) + 1 /\ Len(new) = Len(old) + 1
  BY LenProperties DEF Added
<1>2. \A i \in 1 .. Len(old) : at(i) \in 1 .. Len(new) /\ Agree(new[at(i)], old[i])
  BY <1>1 DEF Added
<1>3. \A j \in 1 .. Len(new) : j = k \/ \E i \in 1 .. Len(old) : j = at(i)
  <2> TAKE j \in 1 .. Len(new)
  <2>1. CASE j < k
    BY <1>1, <2>1
  <2>2. CASE j > k
    <3>1. j - 1 \in 1 .. Len(old) /\ j = at(j - 1)
      BY <1>1, <2>2
    <3>2. QED
      BY <3>1
  <2>3. QED
    BY <1>1, <2>1, <2>2
<1>4. n.dev \in Ids /\ n.num \in Nat /\ Agree(new[k], n)
  BY DEF Patch, Added
<1>5. \A x \in Ids : m[x] = IF x = n.dev THEN c[x] + 1 ELSE c[x]
  BY DEF SelfInc, Clock, Patch
<1>6. \A x \in Ids : c[x] \in Nat
  BY DEF Clock
<1>7. \A i \in 1 .. Len(old) : old[i].dev \in Ids /\ old[i].num \in Nat
  <2>1. \A i \in 1 .. Len(old) : old[i] \in Patch
    BY ElementOfSeq
  <2>2. QED
    BY <2>1 DEF Patch
<1> HIDE DEF at, m
<1>8. \A j \in 1 .. Len(new) : new[j].num <= m[new[j].dev]
  <2> TAKE j \in 1 .. Len(new)
  <2>1. CASE j = k
    BY <1>4, <1>5, <2>1 DEF Agree
  <2>2. CASE \E i \in 1 .. Len(old) : j = at(i)
    <3>1. PICK i \in 1 .. Len(old) : j = at(i)
      BY <2>2
    <3>2. new[j].num = old[i].num /\ new[j].dev = old[i].dev
      BY <1>2, <3>1 DEF Agree
    <3>3. old[i].num <= c[old[i].dev]
      BY DEF Matches
    <3>4. QED
      BY <1>5, <1>6, <1>7, <3>2, <3>3
  <2>3. QED
    BY <1>3, <2>1, <2>2
<1>9. ASSUME NEW x \in Ids, NEW a \in 1 .. m[x]
      PROVE  \E j \in 1 .. Len(new) : new[j].dev = x /\ new[j].num = a
  <2>1. CASE a \in 1 .. c[x]
    <3>1. PICK i \in 1 .. Len(old) : old[i].dev = x /\ old[i].num = a
      BY <2>1 DEF Matches
    <3>2. QED
      BY <1>2, <3>1 DEF Agree
  <2>2. CASE a \notin 1 .. c[x]
    <3>1. x = n.dev /\ a = n.num
      BY <1>5, <1>6, <1>9, <2>2
    <3>2. k \in 1 .. Len(new)
      BY <1>1
    <3>3. QED
      BY <1>4, <3>1, <3>2 DEF Agree
  <2>3. QED
    BY <2>1, <2>2
<1>10. \A i \in 1 .. Len(old) : ~ Same(old[i], n)
  BY <1>4, <1>6, <1>7 DEF Matches, Same
<1>11. ASSUME NEW i \in 1 .. Len(new), NEW j \in 1 .. Len(new), Same(new[i], new[j])
       PROVE  i = j
  <2>1. CASE i = k
    BY <1>2, <1>3, <1>4, <1>10, <1>11, <2>1 DEF Agree, Same
  <2>2. CASE j = k
    BY <1>2, <1>3, <1>4, <1>10, <1>11, <2>2 DEF Agree, Same
  <2>3. CASE i # k /\ j # k
    <3>1. PICK a \in 1 .. Len(old) : i = at(a)
      BY <1>3, <2>3
    <3>2. PICK b \in 1 .. Len(old) : j = at(b)
      BY <1>3, <2>3
    <3>3. Same(old[a], old[b])
      BY <1>2, <1>11, <3>1, <3>2 DEF Agree, Same
    <3>4. a = b
      BY <3>3 DEF Matches
    <3>5. QED
      BY <3>1, <3>2, <3>4
  <2>4. QED
    BY <2>1, <2>2, <2>3
<1>12. QED
  BY <1>8, <1>9, <1>11 DEF Matches, m

(* Freezing keeps a log and its clock together, and writes nothing under   *)
(* the own global name.                                                    *)
LEMMA FreezeMatches ==
    ASSUME ClockInv, NEW d \in Dev, Freeze(d)
    PROVE  /\ FrozenPatches(d, Date(d)) \in Seq(Patch)
           /\ Matches(FrozenPatches(d, Date(d)), vector_clock'[d])
           /\ vector_clock' \in [Dev -> Clock]
           /\ \A e \in Dev : e # d => vector_clock'[e] = vector_clock[e]
           /\ \A e \in Dev : vector_clock'[e][e] = 0
           /\ ClockLeq(vector_clock[d], vector_clock'[d])
<1> DEFINE log == FrozenPatches(d, Date(d))
           c == vector_clock[d]
           n == LastPatch(d, Date(d))
<1>1. /\ TypeOK /\ Date(d) \in Int /\ patches[d] \in Seq(Patch) /\ c \in Clock
      /\ modifications[d] \in Seq(Op) /\ Matches(patches[d], c) /\ c[d] = 0
  BY DateType DEF ClockInv, TypeInv, TypeOK, ClockMatchesPatches, Message
<1>2. /\ log \in Seq(Patch)
      /\ \/ log = patches[d] /\ FrozenClock(d) = c
         \/ /\ Added(patches[d], log, n, Len(patches[d]) + 1)
            /\ FrozenClock(d) = SelfInc(c, Loc)
  BY <1>1, FrozenIs
<1>3. n \in Patch /\ n.dev = Loc /\ n.num = c[Loc] + 1
  BY <1>1, LastPatchType DEF LastPatch
<1>4. vector_clock' = [vector_clock EXCEPT ![d] = FrozenClock(d)]
  BY DEF Freeze
<1>5. vector_clock'[d] = FrozenClock(d)
  BY <1>1, <1>4 DEF TypeOK
<1>6. vector_clock' \in [Dev -> Clock]
  BY <1>1, FreezeType
<1> HIDE DEF n, log
<1>7. Matches(log, FrozenClock(d))
  BY <1>1, <1>2, <1>3, AddedMatches
<1>8. FrozenClock(d)[d] = 0 /\ ClockLeq(c, FrozenClock(d))
  BY <1>1, <1>2, LocIsNotADevice DEF SelfInc, Clock, Ids, ClockLeq
<1>9. QED
  BY <1>1, <1>2, <1>4, <1>5, <1>6, <1>7, <1>8 DEF log, TypeOK, ClockInv, Message

-----------------------------------------------------------------------------
(* Messages.                                                               *)

(* What get_changes takes from a log that matches its clock has no gap.    *)
LEMMA UnsentHasNoGap ==
    ASSUME NEW log \in Seq(Patch), NEW c \in Clock, NEW known \in Clock,
           Matches(log, c), NEW p \in Unsent(log, c, known),
           NEW a \in known[p.dev] + 1 .. p.num
    PROVE  \E q \in Unsent(log, c, known) : q.dev = p.dev /\ q.num = a
<1>1. PICK i \in 1 .. Len(log) :
          p = log[i] /\ p.num \in known[p.dev] + 1 .. c[p.dev]
  BY DEF Unsent
<1>2. p \in Patch
  BY <1>1, ElementOfSeq
<1>3. /\ p.dev \in Ids /\ known[p.dev] \in Nat /\ c[p.dev] \in Nat /\ p.num \in Nat
  BY <1>2 DEF Patch, Clock
<1>4. a \in 1 .. c[p.dev] /\ a \in known[p.dev] + 1 .. c[p.dev]
  <2>1. a \in Int /\ known[p.dev] + 1 <= a /\ a <= p.num
    BY <1>3
  <2>2. p.num <= c[p.dev]
    BY <1>1, <1>3
  <2>3. QED
    BY <1>3, <2>1, <2>2
<1>5. PICK j \in 1 .. Len(log) : log[j].dev = p.dev /\ log[j].num = a
  BY <1>3, <1>4 DEF Matches
<1>6. log[j] \in Unsent(log, c, known)
  BY <1>4, <1>5 DEF Unsent
<1>7. QED
  BY <1>5, <1>6

(* It holds every patch once, and no patch stored under a name for which   *)
(* the clock is 0.                                                         *)
LEMMA UnsentOnce ==
    ASSUME NEW log \in Seq(Patch), NEW c \in Clock, NEW known, Matches(log, c)
    PROVE  /\ \A p, q \in Unsent(log, c, known) : Same(p, q) => p = q
           /\ \A p \in Unsent(log, c, known) : c[p.dev] # 0
<1>1. ASSUME NEW p \in Unsent(log, c, known), NEW q \in Unsent(log, c, known),
             Same(p, q)
      PROVE  p = q
  BY <1>1 DEF Unsent, Matches
<1>2. ASSUME NEW p \in Unsent(log, c, known)
      PROVE  c[p.dev] # 0
  <2>1. PICK i \in 1 .. Len(log) : p = log[i]
    BY DEF Unsent
  <2>2. log[i] \in Patch /\ log[i].num <= c[log[i].dev]
    BY ElementOfSeq DEF Matches
  <2>3. QED
    BY <2>1, <2>2 DEF Patch, Clock
<1>3. QED
  BY <1>1, <1>2

-----------------------------------------------------------------------------
(* The steps.                                                              *)

(* The names of what the invariant reads; most steps leave it alone.       *)
LEMMA ClockUnchanged ==
    ASSUME ClockInv, UNCHANGED <<patches, vector_clock>>,
           \/ UNCHANGED <<msg, base, src, todo, pc>>
           \/ pc' \notin {"deliver", "read"}
    PROVE  ClockMatchesPatches' /\ Message'
<1>1. ClockMatchesPatches' /\ \A d \in Dev : vector_clock'[d][d] = 0
  BY DEF ClockInv, ClockMatchesPatches, Message, Matches
<1>2. CASE pc' \notin {"deliver", "read"}
  BY <1>1, <1>2 DEF Message
<1>3. CASE UNCHANGED <<msg, base, src, todo, pc>>
  BY <1>1, <1>3 DEF ClockInv, Message, FromNext, dst
<1>4. QED
  BY <1>2, <1>3

(* A step that changes the log and the clock of one device.                *)
LEMMA OneLogChanges ==
    ASSUME ClockInv, NEW d \in Dev, NEW log,
           patches' = [patches EXCEPT ![d] = log],
           Matches(log, vector_clock'[d]),
           \A e \in Dev : e # d => vector_clock'[e] = vector_clock[e]
    PROVE  ClockMatchesPatches'
<1>1. ASSUME NEW e \in Dev
      PROVE  Matches(patches'[e], vector_clock'[e])
  <2>1. patches \in [Dev -> Seq(Patch)] /\ Matches(patches[e], vector_clock[e])
    BY DEF ClockInv, TypeInv, TypeOK, ClockMatchesPatches
  <2>2. QED
    BY <2>1
<1>2. QED
  BY <1>1 DEF ClockMatchesPatches, Matches

LEMMA GetChangesClock ==
    ASSUME ClockInv, GetChanges PROVE ClockMatchesPatches' /\ Message'
<1> DEFINE log == FrozenPatches(src, Date(src))
           c   == vector_clock'[src]
           out == Unsent(log, c, sent[src][dst])
<1>1. /\ src \in Dev /\ dst \in Dev /\ Freeze(src) /\ todo # <<>>
      /\ patches \in [Dev -> Seq(Patch)] /\ sent[src][dst] \in Clock
  <2>1. TypeInv /\ pc = "send" /\ Freeze(src) /\ todo # <<>>
    BY DEF GetChanges, ClockInv
  <2>2. dst \in Dev /\ src \in Dev
    BY <2>1, TodoType DEF TypeInv, Thread
  <2>3. QED
    BY <2>1, <2>2 DEF TypeInv, TypeOK
<1>2. /\ log \in Seq(Patch) /\ Matches(log, c) /\ vector_clock' \in [Dev -> Clock]
      /\ \A e \in Dev : e # src => vector_clock'[e] = vector_clock[e]
      /\ \A e \in Dev : vector_clock'[e][e] = 0
  BY <1>1, FreezeMatches
<1>3. patches' = [patches EXCEPT ![src] = log]
  BY DEF GetChanges
<1>4. patches'[src] = log
  BY <1>1, <1>3
<1> HIDE DEF log
<1>5. ClockMatchesPatches'
  BY <1>1, <1>2, <1>3, OneLogChanges
<1>6. CASE UNCHANGED pc
  <2>1. pc' = "send"
    BY <1>6 DEF GetChanges
  <2>2. QED
    BY <1>2, <1>5, <2>1 DEF Message
<1>7. CASE base' = sent[src][dst] /\ msg' = out /\ pc' = "deliver"
  <2>1. /\ \A p, q \in out : Same(p, q) => p = q
        /\ \A p \in out : c[p.dev] # 0
    BY <1>1, <1>2, UnsentOnce
  <2>2. \A p \in out : p.dev # src
    BY <1>1, <1>2, <2>1
  <2>3. \A p \in out : \A a \in sent[src][dst][p.dev] + 1 .. p.num :
            \E q \in out : q.dev = p.dev /\ q.num = a
    BY <1>1, <1>2, UnsentHasNoGap
  <2>4. src' = src
    BY DEF GetChanges
  <2> HIDE DEF out
  <2>5. QED
    BY <1>2, <1>5, <1>7, <2>1, <2>2, <2>3, <2>4 DEF Message, FromNext
<1>8. QED
  BY <1>4, <1>5, <1>6, <1>7 DEF GetChanges, log

LEMMA RejectChangesClock ==
    ASSUME ClockInv, RejectChanges PROVE ClockMatchesPatches' /\ Message'
<1> DEFINE log == FrozenPatches(dst, Date(dst))
<1>1. dst \in Dev /\ Freeze(dst) /\ patches \in [Dev -> Seq(Patch)]
  BY TodoType DEF RejectChanges, ClockInv, TypeInv, TypeOK, Thread
<1>2. /\ Matches(log, vector_clock'[dst])
      /\ \A e \in Dev : e # dst => vector_clock'[e] = vector_clock[e]
      /\ \A e \in Dev : vector_clock'[e][e] = 0
  BY <1>1, FreezeMatches
<1>3. patches' = [patches EXCEPT ![dst] = log] /\ pc' = "idle"
  BY DEF RejectChanges
<1> HIDE DEF log
<1>4. ClockMatchesPatches'
  BY <1>1, <1>2, <1>3, OneLogChanges
<1>5. QED
  BY <1>2, <1>3, <1>4 DEF Message

LEMMA AcceptChangesClock ==
    ASSUME ClockInv, AcceptChanges PROVE ClockMatchesPatches' /\ Message'
<1> DEFINE log   == FrozenPatches(dst, Date(dst))
           known == ReadClock(base, src, dst)
           new   == MarkUnk(log, vector_clock'[dst], known)
<1>1. /\ dst \in Dev /\ src \in Dev /\ Freeze(dst)
      /\ patches \in [Dev -> Seq(Patch)] /\ base \in Clock
      /\ msg \in SUBSET Patch
  BY TodoType DEF AcceptChanges, ClockInv, TypeInv, TypeOK, Thread
<1>2. /\ log \in Seq(Patch) /\ Matches(log, vector_clock'[dst])
      /\ vector_clock' \in [Dev -> Clock]
      /\ \A e \in Dev : e # dst => vector_clock'[e] = vector_clock[e]
      /\ \A e \in Dev : vector_clock'[e][e] = 0
  BY <1>1, FreezeMatches
<1>3. Matches(new, vector_clock'[dst])
  BY <1>1, <1>2, MarkUnkIs, SameKeysMatches
<1>4. patches' = [patches EXCEPT ![dst] = new]
  BY DEF AcceptChanges
<1>5. ClockLeq(known, vector_clock'[dst])
  BY DEF AcceptChanges, BaseKnown
<1>6. pc = "deliver" /\ pc' = "read" /\ UNCHANGED <<msg, src, todo>>
  BY DEF AcceptChanges, msgVars
<1> HIDE DEF log, new
<1>7. ClockMatchesPatches'
  BY <1>1, <1>2, <1>3, <1>4, OneLogChanges
<1>8. ASSUME NEW p \in msg
      PROVE  base[p.dev] <= vector_clock'[dst][ReadDev(p.dev, src, dst)]
  <2>1. p.dev \in Ids /\ p.dev # src
    BY <1>1, <1>6 DEF Patch, ClockInv, Message
  <2>2. known[ReadDev(p.dev, src, dst)] = base[p.dev]
    BY <1>1, <2>1, ReadClockAt
  <2>3. QED
    BY <1>1, <1>5, <2>1, <2>2, ReadDevType DEF ClockLeq
<1>9. ASSUME NEW p \in msg,
             NEW a \in vector_clock'[dst][ReadDev(p.dev, src, dst)] + 1 .. p.num
      PROVE  \E q \in msg : q.dev = p.dev /\ q.num = a
  <2>1. /\ vector_clock'[dst][ReadDev(p.dev, src, dst)] \in Nat
        /\ base[p.dev] \in Nat /\ p.num \in Nat
    BY <1>1, <1>2, ReadDevType DEF Patch, Clock
  <2>2. a \in base[p.dev] + 1 .. p.num
    BY <1>8, <2>1
  <2>3. QED
    BY <1>6, <2>2 DEF ClockInv, Message, FromNext
<1>10. Message'
  BY <1>2, <1>6, <1>9 DEF ClockInv, Message, FromNext, dst
<1>11. QED
  BY <1>7, <1>10

(* The patch that is read, if the receiver lacks it, is the next one of    *)
(* its device: the code does not test it (UpdatePatch refuses any other,   *)
(* without a word, and the patch would be in the log all the same).        *)
LEMMA ReadIsNext ==
    ASSUME ClockInv, pc = "read", NEW p \in msg, Read(p),
           ~ Contains(vector_clock[dst], Received(p).dev, Received(p).num)
    PROVE  Received(p).num = vector_clock[dst][Received(p).dev] + 1
<1> DEFINE x == ReadDev(p.dev, src, dst)
           v == vector_clock[dst][x]
<1>1. dst \in Dev /\ src \in Dev /\ p \in Patch /\ vector_clock[dst] \in Clock
  BY TodoType DEF ClockInv, TypeInv, TypeOK, Thread
<1>2. Received(p).dev = x /\ Received(p).num = p.num
  BY <1>1, ReceivedType
<1>3. x \in Ids /\ v \in Nat /\ p.num \in Nat
  BY <1>1, ReadDevType DEF Patch, Clock
<1> HIDE DEF x
<1>4. v + 1 \in v + 1 .. p.num
  BY <1>2, <1>3 DEF Contains
<1>5. PICK q \in msg : q.dev = p.dev /\ q.num = v + 1
  BY <1>4 DEF ClockInv, Message, FromNext, x
<1>6. p.num <= q.num
  BY <1>5 DEF Read
<1>7. QED
  BY <1>2, <1>3, <1>4, <1>5, <1>6

LEMMA ReadPatchClock ==
    ASSUME ClockInv, ReadPatch PROVE ClockMatchesPatches' /\ Message'
<1>1. pc = "read" /\ UNCHANGED <<pc, src, todo>>
  BY DEF ReadPatch
<1>2. PICK p \in msg : Read(p)
  BY DEF ReadPatch
<1> DEFINE n == Received(p)
           k == InsertionIndex(patches[dst], n, dst)
           c == vector_clock[dst]
<1>3. /\ dst \in Dev /\ src \in Dev /\ msg \in SUBSET Patch
      /\ patches \in [Dev -> Seq(Patch)] /\ vector_clock \in [Dev -> Clock]
      /\ Matches(patches[dst], c)
  BY <1>1, TodoType
  DEF ClockInv, TypeInv, TypeOK, Thread, ClockMatchesPatches
<1>4. /\ n \in Patch /\ n.dev = ReadDev(p.dev, src, dst) /\ n.num = p.num
      /\ n.dev \in Ids /\ n.dev # dst /\ n.num \in Nat
  <2>1. p \in Patch
    BY <1>3
  <2>2. n \in Patch /\ n.dev = ReadDev(p.dev, src, dst) /\ n.num = p.num
    BY <1>3, <2>1, ReceivedType
  <2>3. p.dev \in Ids /\ p.num \in Nat
    BY <2>1 DEF Patch
  <2>4. QED
    BY <1>3, <2>2, <2>3, ReadDevType, ReadDevNotOwn
<1>5. patches[dst] \in Seq(Patch) /\ c \in Clock
  BY <1>3
<1>6. \A q \in msg : q.dev \in Ids /\ q.dev # src /\ q.num \in Nat
  BY <1>1, <1>3 DEF Patch, ClockInv, Message
<1>7. msg' = msg \ {p}
  BY <1>2 DEF Read
<1> HIDE DEF n
<1>8. k \in 1 .. Len(patches[dst]) + 1
  BY <1>3, <1>4, <1>5, InsertionIndexIs
<1> HIDE DEF k
<1>9. ASSUME ~ Contains(c, n.dev, n.num)
      PROVE  n.num = c[n.dev] + 1
  BY <1>1, <1>2, <1>9, ReadIsNext DEF n
<1>10. \/ /\ Contains(c, n.dev, n.num)
          /\ patches' = [patches EXCEPT ![dst] = MarkStd(patches[dst], n)]
          /\ UNCHANGED vector_clock
       \/ /\ n.num = c[n.dev] + 1
          /\ patches' = [patches EXCEPT ![dst] = InsertPatch(patches[dst], n, k)]
          /\ vector_clock' = [vector_clock EXCEPT ![dst] = SelfInc(c, n.dev)]
  <2>1. UpdatePatch(c, n.dev, c[n.dev] + 1) = SelfInc(c, n.dev)
    BY <1>4, <1>5 DEF UpdatePatch, SelfInc, Clock
  <2>2. QED
    BY <1>2, <1>9, <2>1 DEF Read, n, k
<1>11. CASE /\ Contains(c, n.dev, n.num)
            /\ patches' = [patches EXCEPT ![dst] = MarkStd(patches[dst], n)]
            /\ UNCHANGED vector_clock
  <2>1. Matches(MarkStd(patches[dst], n), c)
    BY <1>3, <1>5, MarkStdIs, SameKeysMatches
  <2>2. ClockMatchesPatches'
    BY <1>3, <1>11, <2>1, OneLogChanges
  <2>3. ASSUME NEW q \in msg',
               NEW a \in c[ReadDev(q.dev, src, dst)] + 1 .. q.num
        PROVE  \E r \in msg' : r.dev = q.dev /\ r.num = a
    <3>1. PICK r \in msg : r.dev = q.dev /\ r.num = a
      BY <1>1, <1>7, <2>3 DEF ClockInv, Message, FromNext
    <3>2. r # p
      <4>1. SUFFICES ASSUME r = p PROVE FALSE
        OBVIOUS
      <4>2. a = n.num /\ ReadDev(q.dev, src, dst) = n.dev
        BY <1>4, <3>1, <4>1
      <4>3. c[n.dev] \in Nat /\ n.num <= c[n.dev]
        BY <1>4, <1>5, <1>11 DEF Contains, Clock
      <4>4. QED
        BY <1>4, <2>3, <4>2, <4>3
    <3>3. QED
      BY <1>7, <3>1, <3>2
  <2>4. Message'
    BY <1>1, <1>7, <1>11, <2>3 DEF ClockInv, Message, FromNext, dst
  <2>5. QED
    BY <2>2, <2>4
<1>12. CASE /\ n.num = c[n.dev] + 1
            /\ patches' = [patches EXCEPT ![dst] = InsertPatch(patches[dst], n, k)]
            /\ vector_clock' = [vector_clock EXCEPT ![dst] = SelfInc(c, n.dev)]
  <2>1. Matches(InsertPatch(patches[dst], n, k), SelfInc(c, n.dev))
    BY <1>3, <1>4, <1>5, <1>8, <1>12, InsertPatchIs, AddedMatches
  <2>2. vector_clock'[dst] = SelfInc(c, n.dev)
    BY <1>3, <1>12
  <2>3. ClockMatchesPatches'
    BY <1>3, <1>12, <2>1, <2>2, OneLogChanges
  <2>4. \A x \in Ids : SelfInc(c, n.dev)[x] = IF x = n.dev THEN c[x] + 1 ELSE c[x]
    BY <1>4, <1>5 DEF SelfInc, Clock
  <2>5. \A e \in Dev : vector_clock'[e][e] = 0
    BY <1>3, <1>4, <1>12, <2>2, <2>4 DEF ClockInv, Message, Ids
  <2>6. ASSUME NEW q \in msg',
               NEW a \in SelfInc(c, n.dev)[ReadDev(q.dev, src, dst)] + 1 .. q.num
        PROVE  \E r \in msg' : r.dev = q.dev /\ r.num = a
    <3> DEFINE y == ReadDev(q.dev, src, dst)
    <3>1. /\ q \in msg /\ q.dev \in Ids /\ q.num \in Nat /\ y \in Ids
          /\ c[y] \in Nat
      BY <1>3, <1>5, <1>6, <1>7, ReadDevType DEF Clock
    <3> HIDE DEF y
    <3>2. a \in c[y] + 1 .. q.num
      BY <2>4, <2>6, <3>1 DEF y
    <3>3. PICK r \in msg : r.dev = q.dev /\ r.num = a
      BY <1>1, <3>1, <3>2 DEF ClockInv, Message, FromNext, y
    <3>4. r # p
      <4>1. SUFFICES ASSUME r = p PROVE FALSE
        OBVIOUS
      <4>2. y = n.dev /\ a = c[y] + 1
        BY <1>4, <1>12, <3>3, <4>1 DEF y
      <4>3. SelfInc(c, n.dev)[y] = c[y] + 1
        BY <2>4, <3>1, <4>2
      <4>4. QED
        BY <2>6, <3>1, <4>2, <4>3 DEF y
    <3>5. QED
      BY <1>7, <3>3, <3>4
  <2>7. Message'
    BY <1>1, <1>7, <2>2, <2>5, <2>6 DEF ClockInv, Message, FromNext, dst
  <2>8. QED
    BY <2>3, <2>7
<1>13. QED
  BY <1>10, <1>11, <1>12

LEMMA MergePatchClock ==
    ASSUME DocClosed, ClockInv, MergePatch PROVE ClockMatchesPatches' /\ Message'
<1>1. TypeInv /\ UNCHANGED vector_clock /\ pc' \in {"send", "merge"}
  BY DEF ClockInv, MergePatch
<1>2. PICK f \in Patch :
          /\ Agree(f, patches[dst][idx])
          /\ patches' = [patches EXCEPT ![dst] = [@ EXCEPT ![idx] = f]]
  BY <1>1, MergeAt
<1>3. dst \in Dev /\ patches[dst] \in Seq(Patch) /\ idx \in 1 .. Len(patches[dst])
  BY <1>1, MergeAt
<1>4. SameKeys(patches[dst], [patches[dst] EXCEPT ![idx] = f])
  BY <1>2, <1>3, ExceptSeq DEF SameKeys, Agree
<1>5. Matches(patches[dst], vector_clock[dst]) /\ vector_clock[dst] \in Clock
  BY <1>3 DEF ClockInv, ClockMatchesPatches, TypeInv, TypeOK
<1>6. Matches([patches[dst] EXCEPT ![idx] = f], vector_clock'[dst])
  BY <1>1, <1>3, <1>4, <1>5, SameKeysMatches
<1>7. ClockMatchesPatches'
  BY <1>1, <1>2, <1>3, <1>6, OneLogChanges
<1>8. QED
  BY <1>1, <1>7 DEF ClockInv, Message

LEMMA NextClock ==
    ASSUME DocClosed, ClockInv, [Next]_vars PROVE ClockMatchesPatches' /\ Message'
<1>1. CASE /\ UNCHANGED <<patches, vector_clock>>
           /\ \/ UNCHANGED <<msg, base, src, todo, pc>>
              \/ pc' \notin {"deliver", "read"}
  BY <1>1, ClockUnchanged
<1>2. CASE GetChanges \/ RejectChanges \/ AcceptChanges \/ ReadPatch \/ MergePatch
  BY <1>2, GetChangesClock, RejectChangesClock, AcceptChangesClock,
     ReadPatchClock, MergePatchClock
<1>3. CASE \E d \in Dev : Edit(d) \/ Bind(d) \/ SendChanges(d)
  BY <1>1, <1>3 DEF Edit, Bind, SendChanges, itemVars, msgVars
<1>4. CASE \E d, e \in Dev : Connect(d, e)
  BY <1>1, <1>4 DEF Connect, itemVars, msgVars
<1>5. CASE Tick \/ EndSend \/ DropChanges \/ EndRead \/ UndoPatch
  BY <1>1, <1>5 DEF Tick, EndSend, DropChanges, EndRead, UndoPatch, itemVars, msgVars
<1>6. CASE UNCHANGED vars
  BY <1>1, <1>6 DEF vars, itemVars, msgVars
<1>7. QED
  BY <1>2, <1>3, <1>4, <1>5, <1>6 DEF Next, Run

LEMMA InitClock ==
    ASSUME DocClosed, NEW bs, NEW conns \in [Dev -> Seq(Dev)], InitGroup(bs, conns)
    PROVE  ClockInv
<1>1. \A d \in Dev : patches[d] = <<>> /\ vector_clock[d] = ZeroClock
  <2>1. /\ patches = [d \in Dev |-> <<>>]
        /\ vector_clock = [d \in Dev |-> ZeroClock]
    BY DEF InitGroup
  <2>2. QED
    BY <2>1
<1>2. pc = "idle"
  BY DEF InitGroup
<1>3. \A d \in Dev : vector_clock[d][d] = 0
  <2>1. \A d \in Dev : ZeroClock[d] = 0
    BY DEF ZeroClock, Ids
  <2>2. QED
    BY <1>1, <2>1
<1>4. Matches(<<>>, ZeroClock)
  BY DEF Matches, ZeroClock
<1>5. ClockMatchesPatches /\ Message
  BY <1>1, <1>2, <1>3, <1>4 DEF ClockMatchesPatches, Message
<1>6. QED
  BY <1>5, InitType DEF ClockInv

(* ClockInv is inductive.                                                  *)
THEOREM ClockInvariant == ASSUME DocClosed PROVE Spec => []ClockInv
<1>1. Init => ClockInv
  BY InitClock, GroupAssumption DEF Init
<1>2. ClockInv /\ [Next]_vars => ClockInv'
  BY NextType, NextClock DEF ClockInv
<1>3. QED
  BY <1>1, <1>2, PTL DEF Spec

(* At all times, in the middle of app_changes too, the clock of a Db says  *)
(* exactly which patches its log holds: from every device the patches 1 to *)
(* its number, each once. Nothing that is received is lost or doubled.     *)
THEOREM ClockIsRight == ASSUME DocClosed PROVE Spec => []ClockMatchesPatches
<1>1. ClockInv => ClockMatchesPatches
  BY DEF ClockInv
<1>2. QED
  BY <1>1, ClockInvariant, PTL

-----------------------------------------------------------------------------
(***************************************************************************)
(* All devices put the patches in one same order.                          *)
(*                                                                         *)
(* Two facts carry each other. Every copy of a patch, in a log or in a     *)
(* message, agrees with the one in the log of the device that made it      *)
(* (AllOrigin); and logs are sorted by Patch.sup (PatchesSorted). Sup is a *)
(* strict order, total on patches that differ in causal number, date or    *)
(* device. A device never makes two patches with one causal number, as its *)
(* own log is sorted, so by AllOrigin a received patch never ties with     *)
(* another one and app_changes finds its only place.                       *)
(***************************************************************************)

(* The log of the author of p holds p.                                     *)
CopyIn(p, log) ==
    \E j \in 1 .. Len(log) :
        /\ log[j].dev = Loc /\ log[j].num = p.num
        /\ log[j].causal_num = p.causal_num /\ log[j].date = p.date

(* p, under the names of d, is a copy of a patch of the log of its author. *)
Origin(p, d) == CopyIn(p, patches[ToGlo(p.dev, d)])

AllOrigin ==
    /\ \A d \in Dev : \A i \in 1 .. Len(patches[d]) : Origin(patches[d][i], d)
    /\ pc \in {"deliver", "read"} => \A p \in msg : Origin(p, src)

OrderInv == ClockInv /\ PatchesSorted /\ AllOrigin

-----------------------------------------------------------------------------
(* Patch.sup is a strict order.                                            *)

LEMMA ToGloType ==
    ASSUME NEW d \in Dev, NEW x \in Ids
    PROVE  ToGlo(x, d) \in Dev /\ ToGlo(x, d) \in Nat
BY DevAssumption DEF ToGlo, Ids

LEMMA PatchKey ==
    ASSUME NEW p \in Patch, NEW d \in Dev
    PROVE  /\ p.dev \in Ids /\ p.num \in Nat \ {0}
           /\ p.causal_num \in Int /\ p.date \in Int /\ ToGlo(p.dev, d) \in Int
BY ToGloType DEF Patch

LEMMA SupAsymmetric ==
    ASSUME NEW d \in Dev, NEW p \in Patch, NEW q \in Patch, Sup(p, q, d)
    PROVE  ~ Sup(q, p, d)
BY PatchKey DEF Sup

LEMMA SupTransitive ==
    ASSUME NEW d \in Dev, NEW p \in Patch, NEW q \in Patch, NEW r \in Patch,
           Sup(p, q, d), Sup(q, r, d)
    PROVE  Sup(p, r, d)
BY PatchKey DEF Sup

(* Two patches tie only if they have one causal number, date and device.   *)
LEMMA SupTotal ==
    ASSUME NEW d \in Dev, NEW p \in Patch, NEW q \in Patch,
           ~ Sup(p, q, d), ~ Sup(q, p, d)
    PROVE  /\ p.causal_num = q.causal_num /\ p.date = q.date
           /\ ToGlo(p.dev, d) = ToGlo(q.dev, d)
BY PatchKey DEF Sup

(* What orders two patches is what copies of them agree on.                *)
LEMMA SupOfCopies ==
    ASSUME NEW d, NEW p, NEW q, NEW a, NEW b, Agree(a, p), Agree(b, q)
    PROVE  Sup(a, b, d) <=> Sup(p, q, d)
BY DEF Sup, Agree

-----------------------------------------------------------------------------
(* Sorted logs.                                                            *)

LEMMA SameKeysSorted ==
    ASSUME NEW d \in Dev, NEW old, NEW new, Len(old) \in Nat,
           SameKeys(old, new), Sorted(old, d)
    PROVE  Sorted(new, d)
<1>1. ASSUME NEW i \in 1 .. Len(new), NEW j \in 1 .. Len(new), i < j
      PROVE  Sup(new[j], new[i], d)
  <2>1. /\ i \in 1 .. Len(old) /\ j \in 1 .. Len(old)
        /\ Agree(new[i], old[i]) /\ Agree(new[j], old[j])
    BY DEF SameKeys
  <2>2. Sup(old[j], old[i], d)
    BY <1>1, <2>1 DEF Sorted
  <2>3. QED
    BY <2>1, <2>2, SupOfCopies
<1>2. QED
  BY <1>1 DEF Sorted

(* A log stays sorted if what is added is above what is before it and      *)
(* below what is after it.                                                 *)
LEMMA AddedSorted ==
    ASSUME NEW d \in Dev, NEW old, NEW new, NEW n, NEW k, Len(old) \in Nat,
           Added(old, new, n, k), Sorted(old, d),
           \A i \in 1 .. Len(old) : i < k => Sup(n, old[i], d),
           \A i \in 1 .. Len(old) : i >= k => Sup(old[i], n, d)
    PROVE  Sorted(new, d)
<1> DEFINE back(i) == IF i < k THEN i ELSE i - 1
<1>1. k \in 1 .. Len(old) + 1 /\ Len(new) = Len(old) + 1 /\ Agree(new[k], n)
  BY DEF Added
<1>2. ASSUME NEW i \in 1 .. Len(new), i # k
      PROVE  back(i) \in 1 .. Len(old) /\ Agree(new[i], old[back(i)])
  <2>1. CASE i < k
    <3>1. i \in 1 .. Len(old)
      BY <1>1, <2>1
    <3>2. QED
      BY <2>1, <3>1 DEF Added
  <2>2. CASE i > k
    <3>1. i - 1 \in 1 .. Len(old) /\ ~ (i - 1 < k) /\ (i - 1) + 1 = i /\ ~ (i < k)
      BY <1>1, <2>2
    <3>2. Agree(new[(i - 1) + 1], old[i - 1])
      BY <3>1 DEF Added
    <3>3. QED
      BY <3>1, <3>2
  <2>3. QED
    BY <1>1, <1>2, <2>1, <2>2
<1>3. ASSUME NEW i \in 1 .. Len(new), NEW j \in 1 .. Len(new), i < j
      PROVE  Sup(new[j], new[i], d)
  <2>1. CASE i # k /\ j # k
    <3>1. /\ back(i) \in 1 .. Len(old) /\ Agree(new[i], old[back(i)])
          /\ back(j) \in 1 .. Len(old) /\ Agree(new[j], old[back(j)])
      BY <1>2, <2>1
    <3>2. back(i) < back(j)
      BY <1>1, <1>3, <2>1
    <3> HIDE DEF back
    <3>3. Sup(old[back(j)], old[back(i)], d)
      BY <3>1, <3>2 DEF Sorted
    <3>4. QED
      BY <3>1, <3>3, SupOfCopies
  <2>2. CASE i = k
    <3>1. back(j) \in 1 .. Len(old) /\ Agree(new[j], old[back(j)]) /\ j # k
      BY <1>1, <1>2, <1>3, <2>2
    <3>2. back(j) >= k
      BY <1>1, <1>3, <2>2
    <3> HIDE DEF back
    <3>3. Sup(old[back(j)], n, d)
      BY <3>1, <3>2
    <3>4. QED
      BY <1>1, <2>2, <3>1, <3>3, SupOfCopies
  <2>3. CASE j = k
    <3>1. back(i) \in 1 .. Len(old) /\ Agree(new[i], old[back(i)])
      BY <1>1, <1>2, <1>3, <2>3
    <3>2. back(i) < k
      BY <1>1, <1>3, <2>3
    <3> HIDE DEF back
    <3>3. Sup(n, old[back(i)], d)
      BY <3>1, <3>2
    <3>4. QED
      BY <1>1, <2>3, <3>1, <3>3, SupOfCopies
  <2>4. QED
    BY <2>1, <2>2, <2>3
<1>4. QED
  BY <1>3 DEF Sorted

(* A patch that is made locally is above all the others.                   *)
LEMMA LastPatchIsLast ==
    ASSUME TypeOK, NEW d \in Dev, Sorted(patches[d], d),
           NEW i \in 1 .. Len(patches[d])
    PROVE  Sup(LastPatch(d, Date(d)), patches[d][i], d)
<1> DEFINE log == patches[d]
           n   == LastPatch(d, Date(d))
           l   == log[Len(log)]
<1>1. log \in Seq(Patch) /\ Len(log) \in 1 .. Len(log) /\ log # <<>>
  BY LenProperties, EmptySeq DEF TypeOK
<1>2. l \in Patch /\ log[i] \in Patch
  BY <1>1, ElementOfSeq
<1>3. n.causal_num = l.causal_num + 1
  BY <1>1 DEF LastPatch
<1>4. i = Len(log) \/ Sup(l, log[i], d)
  BY <1>1 DEF Sorted
<1>5. /\ l.causal_num \in Nat /\ log[i].causal_num \in Nat
      /\ l.causal_num >= log[i].causal_num
  BY <1>2, <1>4 DEF Patch, Sup
<1> HIDE DEF l, n
<1>6. n.causal_num > log[i].causal_num
  BY <1>3, <1>5
<1>7. QED
  BY <1>6 DEF Sup, n

-----------------------------------------------------------------------------
(* Copies.                                                                 *)

(* The patches that a device made are in its log once.                     *)
LEMMA CopiesAgree ==
    ASSUME ClockInv, NEW d \in Dev, NEW e \in Dev, NEW p \in Patch, NEW q \in Patch,
           Origin(p, d), Origin(q, e),
           ToGlo(p.dev, d) = ToGlo(q.dev, e), p.num = q.num
    PROVE  p.causal_num = q.causal_num /\ p.date = q.date
<1> DEFINE g == ToGlo(p.dev, d)
<1>1. g \in Dev
  BY ToGloType DEF Patch
<1> HIDE DEF g
<1>2. CopyIn(p, patches[g]) /\ CopyIn(q, patches[g])
  BY DEF Origin, g
<1>3. PICK j \in 1 .. Len(patches[g]) :
         /\ patches[g][j].dev = Loc /\ patches[g][j].num = p.num
         /\ patches[g][j].causal_num = p.causal_num /\ patches[g][j].date = p.date
  BY <1>2 DEF CopyIn
<1>4. PICK k \in 1 .. Len(patches[g]) :
         /\ patches[g][k].dev = Loc /\ patches[g][k].num = q.num
         /\ patches[g][k].causal_num = q.causal_num /\ patches[g][k].date = q.date
  BY <1>2 DEF CopyIn
<1>5. j = k
  BY <1>1, <1>3, <1>4 DEF ClockInv, ClockMatchesPatches, Matches, Same
<1>6. QED
  BY <1>3, <1>4, <1>5

(* Patches of one device that tie are one patch: the log of that device is *)
(* sorted.                                                                 *)
LEMMA TieIsSame ==
    ASSUME PatchesSorted, NEW d \in Dev, NEW p \in Patch, NEW q \in Patch,
           Origin(p, d), Origin(q, d), ToGlo(p.dev, d) = ToGlo(q.dev, d),
           p.causal_num = q.causal_num, p.date = q.date, TypeOK
    PROVE  p.num = q.num
<1> DEFINE g == ToGlo(p.dev, d)
<1>1. g \in Dev /\ g \in Nat
  BY ToGloType DEF Patch
<1> HIDE DEF g
<1>2. CopyIn(p, patches[g]) /\ CopyIn(q, patches[g])
  BY DEF Origin, g
<1>3. PICK j \in 1 .. Len(patches[g]) :
         /\ patches[g][j].dev = Loc /\ patches[g][j].num = p.num
         /\ patches[g][j].causal_num = p.causal_num /\ patches[g][j].date = p.date
  BY <1>2 DEF CopyIn
<1>4. PICK k \in 1 .. Len(patches[g]) :
         /\ patches[g][k].dev = Loc /\ patches[g][k].num = q.num
         /\ patches[g][k].causal_num = q.causal_num /\ patches[g][k].date = q.date
  BY <1>2 DEF CopyIn
<1>5. p.causal_num \in Int /\ p.date \in Int
  BY PatchKey
<1>6. /\ ~ Sup(patches[g][j], patches[g][k], g)
      /\ ~ Sup(patches[g][k], patches[g][j], g)
  BY <1>1, <1>3, <1>4, <1>5 DEF Sup, ToGlo
<1>7. Sorted(patches[g], g)
  BY <1>1 DEF PatchesSorted
<1>8. ~ (j < k) /\ ~ (k < j)
  BY <1>6, <1>7 DEF Sorted
<1>9. j = k
  BY <1>8
<1>10. QED
  BY <1>3, <1>4, <1>9

(* A copy stays a copy whatever a step does to the log of the author.      *)
LEMMA CopyStays ==
    ASSUME NEW p, NEW old \in Seq(Patch), NEW new, CopyIn(p, old),
           SameKeys(old, new) \/ \E n, k : Added(old, new, n, k)
    PROVE  CopyIn(p, new)
<1>1. Len(old) \in Nat
  BY LenProperties
<1>2. PICK j \in 1 .. Len(old) :
         /\ old[j].dev = Loc /\ old[j].num = p.num
         /\ old[j].causal_num = p.causal_num /\ old[j].date = p.date
  BY DEF CopyIn
<1>3. CASE SameKeys(old, new)
  <2>1. j \in 1 .. Len(new) /\ Agree(new[j], old[j])
    BY <1>3 DEF SameKeys
  <2>2. QED
    BY <1>2, <2>1 DEF CopyIn, Agree
<1>4. CASE \E n, k : Added(old, new, n, k)
  <2>1. PICK n, k : Added(old, new, n, k)
    BY <1>4
  <2>2. PICK i \in 1 .. Len(new) : Agree(new[i], old[j])
    <3>1. CASE j < k
      <4>1. j \in 1 .. Len(new) /\ Agree(new[j], old[j])
        BY <1>1, <2>1, <3>1 DEF Added
      <4>2. QED
        BY <4>1
    <3>2. CASE ~ (j < k)
      <4>1. j + 1 \in 1 .. Len(new) /\ Agree(new[j + 1], old[j])
        BY <1>1, <2>1, <3>2 DEF Added
      <4>2. QED
        BY <4>1
    <3>3. QED
      BY <3>1, <3>2
  <2>3. QED
    BY <1>2, <2>2 DEF CopyIn, Agree
<1>5. QED
  BY <1>3, <1>4

(* Copies of copies.                                                       *)
LEMMA CopyOfAgreeing ==
    ASSUME NEW p, NEW q, NEW log, Agree(q, p), CopyIn(p, log)
    PROVE  CopyIn(q, log) /\ q.dev = p.dev
BY DEF CopyIn, Agree

-----------------------------------------------------------------------------
(* What a step does to the log of d, with what the order needs to know of  *)
(* a patch that is added.                                                  *)
Grows(d) ==
    \/ SameKeys(patches[d], patches'[d])
    \/ \E n \in Patch, k \in Nat :
          /\ Added(patches[d], patches'[d], n, k)
          /\ CopyIn(n, patches'[ToGlo(n.dev, d)])
          /\ \A i \in 1 .. Len(patches[d]) : i < k => Sup(n, patches[d][i], d)
          /\ \A i \in 1 .. Len(patches[d]) : i >= k => Sup(patches[d][i], n, d)

LEMMA GrowsSorted ==
    ASSUME TypeOK, PatchesSorted, \A d \in Dev : Grows(d)
    PROVE  PatchesSorted'
<1>1. ASSUME NEW d \in Dev PROVE Sorted(patches'[d], d)
  <2>1. Sorted(patches[d], d) /\ Len(patches[d]) \in Nat
    BY LenProperties DEF TypeOK, PatchesSorted
  <2>2. CASE SameKeys(patches[d], patches'[d])
    BY <2>1, <2>2, SameKeysSorted
  <2>3. CASE ~ SameKeys(patches[d], patches'[d])
    <3>1. PICK n \in Patch, k \in Nat :
             /\ Added(patches[d], patches'[d], n, k)
             /\ \A i \in 1 .. Len(patches[d]) : i < k => Sup(n, patches[d][i], d)
             /\ \A i \in 1 .. Len(patches[d]) : i >= k => Sup(patches[d][i], n, d)
      BY <2>3 DEF Grows
    <3>2. QED
      BY <2>1, <3>1, AddedSorted
  <2>4. QED
    BY <2>2, <2>3
<1>2. QED
  BY <1>1 DEF PatchesSorted, Sorted, Sup, ToGlo

(* Copies of the logs stay copies, and what is added is one.               *)
LEMMA GrowsCopies ==
    ASSUME TypeOK, AllOrigin, \A d \in Dev : Grows(d)
    PROVE  \A d \in Dev : \A i \in 1 .. Len(patches'[d]) :
              CopyIn(patches'[d][i], patches'[ToGlo(patches'[d][i].dev, d)])
<1>1. ASSUME NEW g \in Dev, NEW p, CopyIn(p, patches[g])
      PROVE  CopyIn(p, patches'[g])
  BY <1>1, CopyStays DEF TypeOK, Grows
<1>2. ASSUME NEW d \in Dev, NEW j \in 1 .. Len(patches[d]), NEW q,
             Agree(q, patches[d][j])
      PROVE  CopyIn(q, patches'[ToGlo(q.dev, d)])
  <2>1. CopyIn(patches[d][j], patches[ToGlo(patches[d][j].dev, d)])
    BY DEF AllOrigin, Origin
  <2>2. patches[d][j] \in Patch
    BY ElementOfSeq DEF TypeOK
  <2>3. ToGlo(patches[d][j].dev, d) \in Dev
    BY <2>2, ToGloType DEF Patch
  <2>4. CopyIn(patches[d][j], patches'[ToGlo(patches[d][j].dev, d)])
    BY <1>1, <2>1, <2>3
  <2>5. QED
    BY <1>2, <2>4, CopyOfAgreeing
<1>3. ASSUME NEW d \in Dev, NEW i \in 1 .. Len(patches'[d])
      PROVE  CopyIn(patches'[d][i], patches'[ToGlo(patches'[d][i].dev, d)])
  <2>1. CASE SameKeys(patches[d], patches'[d])
    <3>1. i \in 1 .. Len(patches[d]) /\ Agree(patches'[d][i], patches[d][i])
      BY <2>1 DEF SameKeys
    <3>2. QED
      BY <1>2, <3>1
  <2>2. CASE ~ SameKeys(patches[d], patches'[d])
    <3>1. PICK n \in Patch, k \in Nat :
             /\ Added(patches[d], patches'[d], n, k)
             /\ CopyIn(n, patches'[ToGlo(n.dev, d)])
      BY <2>2 DEF Grows
    <3>2. Len(patches[d]) \in Nat
      BY LenProperties DEF TypeOK
    <3>3. CASE i = k
      <4>1. Agree(patches'[d][i], n)
        BY <3>1, <3>3 DEF Added
      <4>2. QED
        BY <3>1, <4>1, CopyOfAgreeing
    <3>4. CASE i < k
      <4>1. i \in 1 .. Len(patches[d]) /\ Agree(patches'[d][i], patches[d][i])
        BY <3>1, <3>2, <3>4 DEF Added
      <4>2. QED
        BY <1>2, <4>1
    <3>5. CASE i > k
      <4>1. /\ i - 1 \in 1 .. Len(patches[d]) /\ ~ (i - 1 < k)
            /\ (i - 1) + 1 = i
        BY <3>1, <3>2, <3>5 DEF Added
      <4>2. Agree(patches'[d][(i - 1) + 1], patches[d][i - 1])
        BY <3>1, <4>1 DEF Added
      <4>3. Agree(patches'[d][i], patches[d][i - 1])
        BY <4>1, <4>2
      <4>4. QED
        BY <1>2, <4>1, <4>3
    <3>6. QED
      BY <3>3, <3>4, <3>5
  <2>3. QED
    BY <2>1, <2>2
<1>4. QED
  BY <1>3

-----------------------------------------------------------------------------
(* The steps.                                                              *)

LEMMA NothingGrows ==
    ASSUME TypeOK, NEW d \in Dev, patches'[d] = patches[d] PROVE Grows(d)
BY SameKeysRefl DEF Grows, TypeOK

(* freeze_last_mod, and what rewrites marks after it.                      *)
LEMMA FrozenGrows ==
    ASSUME TypeOK, PatchesSorted, NEW d \in Dev,
           SameKeys(FrozenPatches(d, Date(d)), patches'[d])
    PROVE  Grows(d)
<1> DEFINE mid == FrozenPatches(d, Date(d))
           n   == LastPatch(d, Date(d))
           k   == Len(patches[d]) + 1
<1>1. Len(patches[d]) \in Nat /\ Sorted(patches[d], d)
  BY LenProperties DEF TypeOK, PatchesSorted
<1>2. SameKeys(patches[d], mid) \/ Added(patches[d], mid, n, k)
  BY FreezeLog
<1>3. n \in Patch /\ n.dev = Loc
  BY DateType, LastPatchType DEF TypeOK, LastPatch
<1>4. \A i \in 1 .. Len(patches[d]) : Sup(n, patches[d][i], d)
  BY <1>1, LastPatchIsLast
<1> HIDE DEF n, mid
<1>5. CASE SameKeys(patches[d], mid)
  <2>1. SameKeys(patches[d], patches'[d])
    BY <1>5, SameKeysTransitive DEF mid
  <2>2. QED
    BY <2>1 DEF Grows
<1>6. CASE Added(patches[d], mid, n, k)
  <2>1. Added(patches[d], patches'[d], n, k)
    BY <1>1, <1>6, AddedThenMarked DEF mid
  <2>2. ToGlo(n.dev, d) = d
    BY <1>3 DEF ToGlo
  <2>3. k \in 1 .. Len(patches'[d]) /\ Agree(patches'[d][k], n)
    BY <1>1, <2>1 DEF Added
  <2>4. CopyIn(n, patches'[d])
    BY <1>3, <2>3 DEF CopyIn, Agree
  <2>5. k \in Nat /\ \A i \in 1 .. Len(patches[d]) : ~ (i >= k)
    BY <1>1
  <2>6. QED
    BY <1>3, <1>4, <2>1, <2>2, <2>4, <2>5 DEF Grows
<1>7. QED
  BY <1>2, <1>5, <1>6

LEMMA SendGrows ==
    ASSUME OrderInv, GetChanges \/ RejectChanges \/ AcceptChanges, NEW d \in Dev
    PROVE  Grows(d)
<1> DEFINE log(e) == FrozenPatches(e, Date(e))
<1>1. TypeOK /\ PatchesSorted /\ patches \in [Dev -> Seq(Patch)]
  BY DEF OrderInv, ClockInv, TypeInv, TypeOK
<1>2. PICK e \in Dev :
         /\ Freeze(e)
         /\ \/ patches' = [patches EXCEPT ![e] = log(e)]
            \/ \E c, b : patches' = [patches EXCEPT ![e] = MarkUnk(log(e), c, b)]
  <2>1. CASE GetChanges
    BY <2>1 DEF GetChanges, OrderInv, ClockInv, TypeInv, Thread
  <2>2. CASE RejectChanges
    <3>1. dst \in Dev
      BY <2>2, TodoType DEF RejectChanges, OrderInv, ClockInv, TypeInv, Thread
    <3>2. Freeze(dst) /\ patches' = [patches EXCEPT ![dst] = log(dst)]
      BY <2>2 DEF RejectChanges
    <3>3. QED
      BY <3>1, <3>2
  <2>3. CASE AcceptChanges
    <3>1. dst \in Dev
      BY <2>3, TodoType DEF AcceptChanges, OrderInv, ClockInv, TypeInv, Thread
    <3>2. /\ Freeze(dst)
          /\ patches' = [patches EXCEPT ![dst] =
                MarkUnk(log(dst), vector_clock'[dst], ReadClock(base, src, dst))]
      BY <2>3 DEF AcceptChanges
    <3>3. QED
      BY <3>1, <3>2
  <2>4. QED
    BY <2>1, <2>2, <2>3
<1>3. log(e) \in Seq(Patch)
  BY <1>1, <1>2, FreezeType
<1>4. CASE d = e
  <2> HIDE DEF log
  <2>1. CASE patches' = [patches EXCEPT ![e] = log(e)]
    <3>1. patches'[d] = log(d) /\ log(d) \in Seq(Patch)
      BY <1>1, <1>3, <1>4, <2>1
    <3>2. SameKeys(log(d), patches'[d])
      BY <3>1, SameKeysRefl
    <3>3. QED
      BY <1>1, <3>2, FrozenGrows DEF log
  <2>2. CASE \E c, b : patches' = [patches EXCEPT ![e] = MarkUnk(log(e), c, b)]
    <3>1. PICK c, b : patches' = [patches EXCEPT ![e] = MarkUnk(log(e), c, b)]
      BY <2>2
    <3>2. patches'[d] = MarkUnk(log(d), c, b) /\ log(d) \in Seq(Patch)
      BY <1>1, <1>3, <1>4, <3>1
    <3>3. SameKeys(log(d), patches'[d])
      BY <3>2, MarkUnkIs
    <3>4. QED
      BY <1>1, <3>3, FrozenGrows DEF log
  <2>3. QED
    BY <1>2, <2>1, <2>2
<1>5. CASE d # e
  BY <1>1, <1>2, <1>5, NothingGrows
<1>6. QED
  BY <1>4, <1>5

(* What is received has its origin at its author under the names of the    *)
(* receiver too.                                                           *)
LEMMA ReceivedOrigin ==
    ASSUME src \in Dev, dst \in Dev, NEW p \in Patch, Origin(p, src)
    PROVE  Origin(Received(p), dst)
<1>1. ToGlo(ReadDev(p.dev, src, dst), dst) = ToGlo(p.dev, src)
  BY LocIsNotADevice, ToGloType DEF ReadDev, ToGlo, Patch
<1>2. /\ Received(p).dev = ReadDev(p.dev, src, dst) /\ Received(p).num = p.num
      /\ Received(p).causal_num = p.causal_num /\ Received(p).date = p.date
  BY DEF Received, Patch
<1> HIDE DEF Received
<1>3. QED
  BY <1>1, <1>2 DEF Origin, CopyIn

LEMMA NamesDiffer ==
    ASSUME NEW d \in Dev, NEW x \in Ids, NEW y \in Ids, x # d, y # d,
           ToGlo(x, d) = ToGlo(y, d)
    PROVE  x = y
BY DEF ToGlo

(* The scan of app_changes finds a place with everything before it below   *)
(* the patch.                                                              *)
LEMMA ReadGrows ==
    ASSUME OrderInv, ReadPatch, NEW d \in Dev
    PROVE  Grows(d)
<1>1. PICK p \in msg : Read(p)
  BY DEF ReadPatch
<1> DEFINE n   == Received(p)
           k   == InsertionIndex(patches[dst], n, dst)
           log == patches[dst]
<1>2. /\ dst \in Dev /\ src \in Dev /\ TypeOK /\ PatchesSorted /\ pc = "read"
      /\ patches \in [Dev -> Seq(Patch)] /\ log \in Seq(Patch) /\ Len(log) \in Nat
  BY TodoType, LenProperties
  DEF ReadPatch, OrderInv, ClockInv, TypeInv, TypeOK, Thread
<1>3. p \in Patch /\ Origin(p, src)
  BY <1>2 DEF OrderInv, AllOrigin, TypeOK
<1>4. n \in Patch /\ Origin(n, dst) /\ n.dev \in Ids /\ n.dev # dst
  BY <1>2, <1>3, ReceivedType, ReceivedOrigin, ReadDevType, ReadDevNotOwn, PatchKey
<1> HIDE DEF n
<1>5. \/ patches' = [patches EXCEPT ![dst] = MarkStd(log, n)]
      \/ /\ ~ Contains(vector_clock[dst], n.dev, n.num)
         /\ patches' = [patches EXCEPT ![dst] = InsertPatch(log, n, k)]
  BY <1>1 DEF Read, n
<1>6. /\ k \in 1 .. Len(log) + 1
      /\ \A i \in k .. Len(log) : Sup(log[i], n, dst)
      /\ k > 1 => ~ Sup(log[k - 1], n, dst)
  BY <1>2, <1>4, InsertionIndexIs
<1> HIDE DEF k
<1>7. CASE d # dst
  BY <1>2, <1>5, <1>7, NothingGrows
<1>8. CASE d = dst /\ patches' = [patches EXCEPT ![dst] = MarkStd(log, n)]
  BY <1>2, <1>8, MarkStdIs DEF Grows
<1>9. CASE /\ d = dst
           /\ ~ Contains(vector_clock[dst], n.dev, n.num)
           /\ patches' = [patches EXCEPT ![dst] = InsertPatch(log, n, k)]
  <2>1. Added(log, patches'[dst], n, k)
    BY <1>2, <1>4, <1>6, <1>9, InsertPatchIs
  <2>2. \A e \in Dev : \/ SameKeys(patches[e], patches'[e])
                        \/ \E m, j : Added(patches[e], patches'[e], m, j)
    <3> TAKE e \in Dev
    <3>1. CASE e = dst
      BY <2>1, <3>1
    <3>2. CASE e # dst
      BY <1>2, <1>9, <3>2, SameKeysRefl
    <3>3. QED
      BY <3>1, <3>2
  <2>3. CopyIn(n, patches'[ToGlo(n.dev, dst)])
    <3>1. ToGlo(n.dev, dst) \in Dev
      BY <1>2, <1>4, ToGloType
    <3>2. CopyIn(n, patches[ToGlo(n.dev, dst)])
      BY <1>4 DEF Origin
    <3>3. QED
      BY <1>2, <2>2, <3>1, <3>2, CopyStays
  <2>4. ASSUME NEW i \in 1 .. Len(log), i = k - 1
        PROVE  Sup(n, log[i], dst)
    <3> DEFINE q == log[i]
    <3>1. q \in Patch /\ Origin(q, dst) /\ q.dev \in Ids
      BY <1>2, ElementOfSeq, PatchKey DEF OrderInv, AllOrigin
    <3>2. q.num <= vector_clock[dst][q.dev] /\ vector_clock[dst][dst] = 0
      BY <1>2 DEF OrderInv, ClockInv, ClockMatchesPatches, Matches, Message
    <3>3. q.dev # dst
      <4>1. PICK num \in Nat \ {0} : q.num = num
        BY <3>1, <1>2, PatchKey
      <4>2. QED
        BY <3>2, <4>1
    <3>4. ~ Sup(q, n, dst)
      BY <1>2, <1>6, <2>4
    <3> HIDE DEF q
    <3>5. SUFFICES ASSUME ~ Sup(n, q, dst) PROVE FALSE
      BY DEF q
    <3>6. /\ n.causal_num = q.causal_num /\ n.date = q.date
          /\ ToGlo(n.dev, dst) = ToGlo(q.dev, dst)
      BY <1>2, <1>4, <3>1, <3>4, <3>5, SupTotal
    <3>7. n.num = q.num
      BY <1>2, <1>4, <3>1, <3>6, TieIsSame
    <3>8. n.dev = q.dev
      BY <1>2, <1>4, <3>1, <3>3, <3>6, NamesDiffer
    <3>9. QED
      BY <1>9, <3>2, <3>7, <3>8 DEF Contains
  <2>5. ASSUME NEW i \in 1 .. Len(log), i < k
        PROVE  Sup(n, log[i], dst)
    <3>1. k - 1 \in 1 .. Len(log)
      BY <1>2, <1>6, <2>5
    <3>2. Sup(n, log[k - 1], dst)
      BY <2>4, <3>1
    <3>3. i = k - 1 \/ Sup(log[k - 1], log[i], dst)
      BY <1>2, <1>6, <2>5, <3>1 DEF PatchesSorted, Sorted
    <3>4. log[i] \in Patch /\ log[k - 1] \in Patch
      BY <1>2, <3>1, ElementOfSeq
    <3>5. QED
      BY <1>2, <1>4, <3>2, <3>3, <3>4, SupTransitive
  <2>6. ASSUME NEW i \in 1 .. Len(log), i >= k
        PROVE  Sup(log[i], n, dst)
    BY <1>2, <1>6, <2>6
  <2>7. k \in Nat
    BY <1>2, <1>6
  <2>8. QED
    BY <1>4, <1>9, <2>1, <2>3, <2>5, <2>6, <2>7 DEF Grows
<1>10. QED
  BY <1>5, <1>7, <1>8, <1>9

LEMMA StepGrows ==
    ASSUME DocClosed, OrderInv, [Next]_vars
    PROVE  \A d \in Dev : Grows(d)
<1>1. TypeInv /\ TypeOK
  BY DEF OrderInv, ClockInv, TypeInv
<1>2. CASE UNCHANGED patches
  BY <1>1, <1>2, NothingGrows
<1>3. CASE GetChanges \/ RejectChanges \/ AcceptChanges
  BY <1>3, SendGrows
<1>4. CASE ReadPatch
  BY <1>4, ReadGrows
<1>5. CASE MergePatch
  <2>1. PICK f \in Patch :
          /\ Agree(f, patches[dst][idx])
          /\ patches' = [patches EXCEPT ![dst] = [@ EXCEPT ![idx] = f]]
    BY <1>1, <1>5, MergeAt
  <2>2. dst \in Dev /\ patches[dst] \in Seq(Patch) /\ idx \in 1 .. Len(patches[dst])
    BY <1>1, <1>5, MergeAt
  <2>3. SameKeys(patches[dst], [patches[dst] EXCEPT ![idx] = f])
    BY <2>1, <2>2, ExceptSeq DEF SameKeys, Agree
  <2>4. ASSUME NEW d \in Dev PROVE SameKeys(patches[d], patches'[d])
    BY <1>1, <2>1, <2>2, <2>3, SameKeysRefl DEF TypeOK
  <2>5. QED
    BY <2>4 DEF Grows
<1>6. [Next]_vars => \/ UNCHANGED patches \/ GetChanges \/ RejectChanges
                     \/ AcceptChanges \/ ReadPatch \/ MergePatch
  BY DEF Next, Run, Edit, Bind, SendChanges, Connect, Tick, EndSend, DropChanges,
         EndRead, UndoPatch, vars, itemVars
<1>7. QED
  BY <1>2, <1>3, <1>4, <1>5, <1>6

(* The patches of a message are copies, in whatever place the thread is.   *)
LEMMA MessageCopies ==
    ASSUME DocClosed, OrderInv, [Next]_vars, pc' \in {"deliver", "read"},
           NEW p \in msg'
    PROVE  CopyIn(p, patches'[ToGlo(p.dev, src')])
<1>1. /\ TypeOK /\ AllOrigin /\ \A d \in Dev : Grows(d)
      /\ pc # "idle" => src \in Dev
  BY StepGrows DEF OrderInv, ClockInv, TypeInv, Thread
<1>2. CASE GetChanges
  <2>1. /\ src' = src /\ src \in Dev
        /\ pc' = "deliver" =>
              p \in Unsent(patches'[src], vector_clock'[src], sent[src][dst])
    BY <1>1, <1>2 DEF GetChanges
  <2>2. pc' = "deliver"
    BY <1>2 DEF GetChanges
  <2>3. PICK i \in 1 .. Len(patches'[src]) : p = patches'[src][i]
    BY <2>1, <2>2 DEF Unsent
  <2>4. QED
    BY <1>1, <2>1, <2>3, GrowsCopies
<1>3. CASE pc \in {"deliver", "read"} /\ msg' \subseteq msg /\ src' = src
  <2>1. src \in Dev /\ p \in Patch /\ CopyIn(p, patches[ToGlo(p.dev, src)])
    BY <1>1, <1>3 DEF AllOrigin, Origin, TypeOK
  <2>2. ToGlo(p.dev, src) \in Dev
    BY <2>1, ToGloType, PatchKey
  <2>3. CopyIn(p, patches'[ToGlo(p.dev, src)])
    BY <1>1, <2>1, <2>2, CopyStays DEF TypeOK, Grows
  <2>4. QED
    BY <1>3, <2>3
<1>4. ASSUME ~ GetChanges
      PROVE  pc \in {"deliver", "read"} /\ msg' \subseteq msg /\ src' = src
  <2>1. CASE ReadPatch
    <3>1. PICK q \in msg : Read(q)
      BY <2>1 DEF ReadPatch
    <3>2. msg' = msg \ {q}
      BY <3>1 DEF Read
    <3>3. QED
      BY <2>1, <3>2 DEF ReadPatch
  <2>2. CASE AcceptChanges
    BY <2>2 DEF AcceptChanges, msgVars
  <2>3. CASE DropChanges \/ RejectChanges \/ EndSend \/ EndRead \/ UndoPatch \/ MergePatch
    <3>1. CASE DropChanges \/ RejectChanges \/ EndSend
      BY <3>1 DEF DropChanges, RejectChanges, EndSend
    <3>2. CASE EndRead
      BY <3>2 DEF EndRead
    <3>3. CASE UndoPatch
      BY <3>3 DEF UndoPatch
    <3>4. CASE MergePatch
      BY <3>4 DEF MergePatch
    <3>5. QED
      BY <2>3, <3>1, <3>2, <3>3, <3>4
  <2>4. CASE \E d \in Dev : Edit(d) \/ Bind(d) \/ SendChanges(d)
    BY <2>4 DEF Edit, Bind, SendChanges
  <2>5. CASE \E d, e \in Dev : Connect(d, e)
    BY <2>5 DEF Connect
  <2>6. CASE Tick
    BY <2>6 DEF Tick, msgVars
  <2>7. CASE UNCHANGED vars
    BY <2>7 DEF vars, msgVars
  <2>8. QED
    BY <1>4, <2>1, <2>2, <2>3, <2>4, <2>5, <2>6, <2>7 DEF Next, Run
<1>5. QED
  BY <1>2, <1>3, <1>4

-----------------------------------------------------------------------------
(* The theorems.                                                           *)

(* OrderInv is inductive: the logs are sorted, and every patch in a log or *)
(* in a message is a copy of one in the log of the device that made it.    *)
THEOREM OrderInvariant == ASSUME DocClosed PROVE Spec => []OrderInv
<1>1. Init => OrderInv
  <2>1. ASSUME Init PROVE PatchesSorted /\ AllOrigin
    <3>1. patches = [d \in Dev |-> <<>>] /\ pc = "idle"
      BY <2>1 DEF Init, InitGroup
    <3>2. ASSUME NEW d \in Dev PROVE 1 .. Len(patches[d]) = {}
      <4>1. patches[d] = <<>>
        BY <3>1
      <4>2. Len(patches[d]) = 0
        BY <4>1
      <4>3. QED
        BY <4>2
    <3>3. QED
      BY <3>1, <3>2 DEF PatchesSorted, Sorted, AllOrigin
  <2>2. Init => ClockInv
    BY InitClock, GroupAssumption DEF Init
  <2>3. QED
    BY <2>1, <2>2 DEF OrderInv
<1>2. OrderInv /\ [Next]_vars => OrderInv'
  <2>1. ASSUME OrderInv, [Next]_vars PROVE OrderInv'
    <3>1. ClockInv'
      BY <2>1, NextType, NextClock DEF OrderInv, ClockInv
    <3>2. TypeOK /\ PatchesSorted /\ AllOrigin /\ \A d \in Dev : Grows(d)
      BY <2>1, StepGrows DEF OrderInv, ClockInv, TypeInv
    <3>3. PatchesSorted'
      BY <3>2, GrowsSorted
    <3>4. \A d \in Dev : \A i \in 1 .. Len(patches'[d]) :
             CopyIn(patches'[d][i], patches'[ToGlo(patches'[d][i].dev, d)])
      BY <3>2, GrowsCopies
    <3>5. pc' \in {"deliver", "read"} =>
             \A p \in msg' : CopyIn(p, patches'[ToGlo(p.dev, src')])
      BY <2>1, MessageCopies
    <3>6. AllOrigin'
      BY <3>4, <3>5 DEF AllOrigin, Origin, CopyIn, ToGlo
    <3>7. QED
      BY <3>1, <3>3, <3>6 DEF OrderInv
  <2>2. QED
    BY <2>1
<1>3. QED
  BY <1>1, <1>2, PTL DEF Spec

(* The log of every Db is in the order of Patch.sup at all times, in the   *)
(* middle of app_changes too: pushing a patch that is made locally at the  *)
(* end, and putting one that is received where the scan from the end       *)
(* stops, both keep the order, whatever the clocks of the devices show.    *)
THEOREM LogsAreSorted == ASSUME DocClosed PROVE Spec => []PatchesSorted
<1>1. OrderInv => PatchesSorted
  BY DEF OrderInv
<1>2. QED
  BY <1>1, OrderInvariant, PTL

(* Two names of one patch hold the same causal number, date and author.    *)
LEMMA NamesAgree ==
    ASSUME OrderInv, NEW d \in Dev, NEW e \in Dev,
           NEW i \in 1 .. Len(patches[d]), NEW j \in 1 .. Len(patches[e]),
           GloId(patches[d][i], d) = GloId(patches[e][j], e)
    PROVE  /\ patches[d][i].causal_num = patches[e][j].causal_num
           /\ patches[d][i].date = patches[e][j].date
           /\ ToGlo(patches[d][i].dev, d) = ToGlo(patches[e][j].dev, e)
<1>1. patches[d][i] \in Patch /\ patches[e][j] \in Patch
  BY ElementOfSeq DEF OrderInv, ClockInv, TypeInv, TypeOK
<1>2. Origin(patches[d][i], d) /\ Origin(patches[e][j], e)
  BY DEF OrderInv, AllOrigin
<1>3. /\ ToGlo(patches[d][i].dev, d) = ToGlo(patches[e][j].dev, e)
      /\ patches[d][i].num = patches[e][j].num
  BY DEF GloId
<1>4. ClockInv
  BY DEF OrderInv
<1>5. QED
  BY <1>1, <1>2, <1>3, <1>4, CopiesAgree

(* A patch before another one in one log is before it in every log that    *)
(* holds both.                                                             *)
LEMMA OrderCarries ==
    ASSUME OrderInv, NEW d \in Dev, NEW e \in Dev,
           NEW i1 \in 1 .. Len(patches[d]), NEW i2 \in 1 .. Len(patches[d]),
           NEW j1 \in 1 .. Len(patches[e]), NEW j2 \in 1 .. Len(patches[e]),
           GloId(patches[d][i1], d) = GloId(patches[e][j1], e),
           GloId(patches[d][i2], d) = GloId(patches[e][j2], e),
           i1 < i2
    PROVE  j1 < j2
<1> DEFINE p1 == patches[d][i1]
           p2 == patches[d][i2]
           q1 == patches[e][j1]
           q2 == patches[e][j2]
<1>1. p1 \in Patch /\ p2 \in Patch /\ q1 \in Patch /\ q2 \in Patch
  BY ElementOfSeq DEF OrderInv, ClockInv, TypeInv, TypeOK
<1>2. Sup(p2, p1, d)
  BY DEF OrderInv, PatchesSorted, Sorted
<1>3. /\ p1.causal_num = q1.causal_num /\ p1.date = q1.date
      /\ ToGlo(p1.dev, d) = ToGlo(q1.dev, e)
  BY NamesAgree
<1>4. /\ p2.causal_num = q2.causal_num /\ p2.date = q2.date
      /\ ToGlo(p2.dev, d) = ToGlo(q2.dev, e)
  BY NamesAgree
<1>5. j2 < j1 => Sup(q1, q2, e)
  BY DEF OrderInv, PatchesSorted, Sorted
<1> HIDE DEF p1, p2, q1, q2
<1>6. Sup(q2, q1, e)
  BY <1>2, <1>3, <1>4 DEF Sup
<1>7. ~ Sup(q1, q2, e)
  BY <1>1, <1>6, SupAsymmetric
<1>8. ~ Sup(q1, q1, e)
  BY <1>1, SupAsymmetric
<1>9. j1 # j2
  BY <1>6, <1>8 DEF q1, q2
<1>10. QED
  BY <1>5, <1>7, <1>9

(* Two devices that hold the same two patches hold them in the same order, *)
(* whatever each of them learnt first, through which devices, and under    *)
(* which names it stores them.                                             *)
THEOREM OrderIsShared == ASSUME DocClosed PROVE Spec => []SameOrder
<1>1. OrderInv => SameOrder
  <2>1. SUFFICES ASSUME OrderInv, NEW d \in Dev, NEW e \in Dev,
                        NEW i1 \in 1 .. Len(patches[d]), NEW i2 \in 1 .. Len(patches[d]),
                        NEW j1 \in 1 .. Len(patches[e]), NEW j2 \in 1 .. Len(patches[e]),
                        GloId(patches[d][i1], d) = GloId(patches[e][j1], e),
                        GloId(patches[d][i2], d) = GloId(patches[e][j2], e)
                 PROVE  i1 < i2 <=> j1 < j2
    BY DEF SameOrder
  <2>2. i1 < i2 => j1 < j2
    BY <2>1, OrderCarries
  <2>3. j1 < j2 => i1 < i2
    BY <2>1, OrderCarries
  <2>4. QED
    BY <2>2, <2>3
<1>2. QED
  BY <1>1, OrderInvariant, PTL

-----------------------------------------------------------------------------
(* ReplicatedLog, which names patches by their global names.               *)

LEMMA LogsAre ==
    ASSUME NEW d \in Dev, NEW n \in Nat, Len(patches[d]) = n
    PROVE  /\ Len(Logs[d]) = n
           /\ \A i \in 1 .. n : Logs[d][i] = GloId(patches[d][i], d)
BY DEF Logs

LEMMA LogsAreNext ==
    ASSUME NEW d \in Dev, NEW n \in Nat, Len(patches'[d]) = n
    PROVE  /\ Len(Logs'[d]) = n
           /\ \A i \in 1 .. n : Logs'[d][i] = GloId(patches'[d][i], d)
BY DEF Logs

(* The log of d holds a patch that d knows under the name x if the clock   *)
(* says so.                                                                *)
LEMMA HeldIs ==
    ASSUME ClockInv, NEW d \in Dev, NEW x \in Ids, x # d, NEW m \in Nat
    PROVE  <<ToGlo(x, d), m>> \in Promise!Held(d) <=> m \in 1 .. vector_clock[d][x]
<1> DEFINE l == patches[d]
<1>1. /\ l \in Seq(Patch) /\ Len(l) \in Nat /\ vector_clock[d] \in Clock
      /\ vector_clock[d][d] = 0 /\ Matches(l, vector_clock[d])
  BY LenProperties DEF ClockInv, TypeInv, TypeOK, ClockMatchesPatches, Message
<1>2. <<ToGlo(x, d), m>> \in Promise!Held(d) <=>
          \E i \in 1 .. Len(l) : ToGlo(l[i].dev, d) = ToGlo(x, d) /\ l[i].num = m
  BY <1>1, LogsAre DEF Promise!Held, GloId
<1>3. ASSUME NEW i \in 1 .. Len(l), ToGlo(l[i].dev, d) = ToGlo(x, d), l[i].num = m
      PROVE  m \in 1 .. vector_clock[d][x]
  <2>1. l[i] \in Patch /\ l[i].dev \in Ids /\ l[i].num \in Nat \ {0}
    BY <1>1, PatchKey, ElementOfSeq
  <2>2. l[i].num <= vector_clock[d][l[i].dev]
    BY <1>1 DEF Matches
  <2>3. l[i].dev # d
    BY <1>1, <2>1, <2>2
  <2>4. l[i].dev = x
    BY <1>3, <2>1, <2>3, NamesDiffer
  <2>5. vector_clock[d][x] \in Nat
    BY <1>1 DEF Clock
  <2>6. QED
    BY <1>3, <2>1, <2>2, <2>4, <2>5
<1>4. ASSUME m \in 1 .. vector_clock[d][x]
      PROVE  \E i \in 1 .. Len(l) : ToGlo(l[i].dev, d) = ToGlo(x, d) /\ l[i].num = m
  BY <1>1, <1>4 DEF Matches
<1>5. QED
  BY <1>2, <1>3, <1>4

LEMMA NextIs ==
    ASSUME ClockInv, NEW d \in Dev, NEW n \in Patch, n.dev # d,
           n.num = vector_clock[d][n.dev] + 1
    PROVE  Promise!IsNext(d, GloId(n, d))
<1>1. n.dev \in Ids /\ n.num \in Nat \ {0} /\ vector_clock[d][n.dev] \in Nat
  BY PatchKey DEF ClockInv, TypeInv, TypeOK, Clock
<1>2. GloId(n, d) \notin Promise!Held(d)
  BY <1>1, HeldIs DEF GloId
<1>3. n.num = 1 \/ <<ToGlo(n.dev, d), n.num - 1>> \in Promise!Held(d)
  <2>1. CASE n.num # 1
    <3>1. n.num - 1 \in 1 .. vector_clock[d][n.dev] /\ n.num - 1 \in Nat
      BY <1>1, <2>1
    <3>2. QED
      BY <1>1, <3>1, HeldIs
  <2>2. QED
    BY <2>1
<1>4. QED
  BY <1>2, <1>3 DEF Promise!IsNext, GloId

(* What a step that does not add a patch does to the log of d.             *)
LEMMA LogsStay ==
    ASSUME NEW d \in Dev, patches[d] \in Seq(Patch), SameKeys(patches[d], patches'[d])
    PROVE  Logs'[d] = Logs[d]
<1>1. Len(patches[d]) \in Nat /\ Len(patches'[d]) = Len(patches[d])
  BY LenProperties DEF SameKeys
<1>2. \A i \in 1 .. Len(patches[d]) : GloId(patches'[d][i], d) = GloId(patches[d][i], d)
  BY DEF SameKeys, Agree, GloId
<1>3. QED
  BY <1>1, <1>2 DEF Logs

LEMMA LogsPut ==
    ASSUME NEW d \in Dev, patches[d] \in Seq(Patch),
           NEW n, NEW k, Added(patches[d], patches'[d], n, k)
    PROVE  Logs'[d] = Promise!Put(Logs[d], GloId(n, d), k)
<1> DEFINE m == Len(patches[d])
<1>1. m \in Nat /\ m + 1 \in Nat /\ Len(patches'[d]) = m + 1 /\ k \in 1 .. m + 1
  BY LenProperties DEF Added
<1>2. ASSUME NEW i \in 1 .. m + 1
      PROVE  GloId(patches'[d][i], d) = IF i < k THEN Logs[d][i]
                                        ELSE IF i = k THEN GloId(n, d) ELSE Logs[d][i - 1]
  <2>1. CASE i < k
    <3>1. i \in 1 .. m /\ Agree(patches'[d][i], patches[d][i])
      BY <1>1, <2>1 DEF Added
    <3>2. QED
      BY <1>1, <2>1, <3>1, LogsAre DEF Agree, GloId
  <2>2. CASE i = k
    BY <1>1, <2>2 DEF Added, Agree, GloId
  <2>3. CASE i > k
    <3>1. i - 1 \in 1 .. m /\ ~ (i - 1 < k) /\ (i - 1) + 1 = i
      BY <1>1, <2>3
    <3>2. Agree(patches'[d][(i - 1) + 1], patches[d][i - 1])
      BY <3>1 DEF Added
    <3>3. Logs[d][i - 1] = GloId(patches[d][i - 1], d)
      BY <1>1, <3>1, LogsAre
    <3>4. QED
      BY <1>1, <2>3, <3>1, <3>2, <3>3 DEF Agree, GloId
  <2>4. QED
    BY <1>1, <2>1, <2>2, <2>3
<1>3. Logs'[d] = [i \in 1 .. m + 1 |-> GloId(patches'[d][i], d)]
  BY <1>1 DEF Logs
<1>4. Len(Logs[d]) = m
  BY <1>1, LogsAre
<1>5. QED
  BY <1>2, <1>3, <1>4 DEF Promise!Put


LEMMA LogsType ==
    ASSUME NEW d \in Dev, patches[d] \in Seq(Patch)
    PROVE  Logs[d] \in Seq(Dev \X Nat)
<1>1. Len(patches[d]) \in Nat
  BY LenProperties
<1>2. ASSUME NEW i \in 1 .. Len(patches[d]) PROVE GloId(patches[d][i], d) \in Dev \X Nat
  <2>1. patches[d][i] \in Patch
    BY ElementOfSeq
  <2>2. QED
    BY <2>1, PatchKey, ToGloType DEF GloId
<1>3. Logs[d] = [i \in 1 .. Len(patches[d]) |-> GloId(patches[d][i], d)]
  BY DEF Logs
<1>4. QED
  BY <1>1, <1>2, <1>3, IsASeq

(* A patch put at the end is appended.                                     *)
LEMMA PutLast ==
    ASSUME NEW d \in Dev, patches[d] \in Seq(Patch), NEW p \in Dev \X Nat
    PROVE  Promise!Put(Logs[d], p, Len(patches[d]) + 1) = Append(Logs[d], p)
<1> DEFINE l == Logs[d]
           m == Len(patches[d])
<1>1. m \in Nat /\ l \in Seq(Dev \X Nat) /\ Len(l) = m
  BY LenProperties, LogsType, LogsAre
<1> HIDE DEF l, m
<1>2. /\ Append(l, p) \in Seq(Dev \X Nat) /\ Len(Append(l, p)) = m + 1
      /\ \A i \in 1 .. m : Append(l, p)[i] = l[i]
      /\ Append(l, p)[m + 1] = p
  BY <1>1, AppendProperties
<1>3. Append(l, p) = [i \in 1 .. m + 1 |-> Append(l, p)[i]]
  BY <1>1, <1>2, LenProperties
<1>4. \A i \in 1 .. m + 1 : Append(l, p)[i] = IF i < m + 1 THEN l[i]
                                             ELSE IF i = m + 1 THEN p ELSE l[i - 1]
  BY <1>1, <1>2
<1>5. QED
  BY <1>1, <1>3, <1>4 DEF Promise!Put, l, m

(* A device that freezes its modifications makes its next patch.           *)
LEMMA MakeStep ==
    ASSUME OrderInv, NEW s \in Dev,
           patches' = [patches EXCEPT ![s] = patches'[s]],
           Added(patches[s], patches'[s], LastPatch(s, Date(s)), Len(patches[s]) + 1),
           modifications[s] # <<>>
    PROVE  Promise!Make(s)
<1> DEFINE n == LastPatch(s, Date(s))
           c == vector_clock[s]
           l == patches[s]
<1>1. /\ ClockInv /\ TypeOK /\ l \in Seq(Patch) /\ c \in Clock /\ Date(s) \in Int
      /\ modifications[s] \in Seq(Op)
      /\ c[s] = 0 /\ Loc \in Ids /\ Loc # s /\ c[Loc] \in Nat
  <2>1. ClockInv /\ TypeOK /\ Message
    BY DEF OrderInv, ClockInv, TypeInv
  <2>2. l \in Seq(Patch) /\ c \in Clock /\ modifications[s] \in Seq(Op)
    BY <2>1 DEF TypeOK
  <2>3. Date(s) \in Int
    BY <2>1, DateType
  <2>4. c[s] = 0
    BY <2>1 DEF Message
  <2>5. Loc \in Ids /\ Loc # s
    BY LocIsNotADevice DEF Ids
  <2>6. QED
    BY <2>1, <2>2, <2>3, <2>4, <2>5 DEF Clock
<1>2. n \in Patch /\ n.dev = Loc /\ n.num = c[Loc] + 1
  BY <1>1, LastPatchType DEF LastPatch
<1> HIDE DEF n
<1>3. GloId(n, s) = <<s, n.num>> /\ n.num \in Nat /\ GloId(n, s) \in Dev \X Nat
  BY <1>1, <1>2 DEF GloId, ToGlo
<1>4. Promise!IsNext(s, <<s, n.num>>)
  BY <1>1, <1>2, <1>3, NextIs
<1>5. n.num \in {1} \cup {p[2] + 1 : p \in Promise!Held(s)}
  <2>1. CASE n.num # 1
    <3>1. <<s, n.num - 1>> \in Promise!Held(s)
      BY <1>4, <2>1 DEF Promise!IsNext
    <3>2. <<s, n.num - 1>>[2] + 1 = n.num
      BY <1>3
    <3>3. QED
      BY <3>1, <3>2
  <2>2. QED
    BY <2>1
<1>6. ASSUME NEW e \in Dev, <<s, n.num>> \in Promise!Held(e) PROVE FALSE
  <2>1. patches[e] \in Seq(Patch) /\ Len(patches[e]) \in Nat
    BY <1>1, LenProperties DEF TypeOK
  <2>2. PICK i \in 1 .. Len(patches[e]) : GloId(patches[e][i], e) = <<s, n.num>>
    BY <1>6, <2>1, LogsAre DEF Promise!Held
  <2>3. ToGlo(patches[e][i].dev, e) = s /\ patches[e][i].num = n.num
    BY <2>2 DEF GloId
  <2>4. Origin(patches[e][i], e)
    BY DEF OrderInv, AllOrigin
  <2>5. PICK j \in 1 .. Len(l) : l[j].dev = Loc /\ l[j].num = n.num
    BY <2>3, <2>4 DEF Origin, CopyIn
  <2>6. l[j].num <= c[l[j].dev]
    BY <1>1 DEF ClockInv, ClockMatchesPatches, Matches
  <2>7. QED
    BY <1>1, <1>2, <2>5, <2>6
<1>7. Logs'[s] = Append(Logs[s], <<s, n.num>>)
  <2>1. Added(l, patches'[s], n, Len(l) + 1)
    BY DEF n
  <2>2. Logs'[s] = Promise!Put(Logs[s], GloId(n, s), Len(l) + 1)
    BY <1>1, <2>1, LogsPut
  <2>3. Promise!Put(Logs[s], GloId(n, s), Len(l) + 1) = Append(Logs[s], GloId(n, s))
    BY <1>1, <1>3, PutLast
  <2>4. QED
    BY <1>3, <2>2, <2>3
<1>8. ASSUME NEW e \in Dev, e # s PROVE Logs'[e] = Logs[e]
  BY <1>1, <1>8 DEF Logs, TypeOK
<1>9. Logs' = [Logs EXCEPT ![s] = Append(@, <<s, n.num>>)]
  <2>1. Logs \in [Dev -> Range(Logs)] /\ Logs' = [e \in Dev |-> Logs'[e]]
    BY DEF Logs, Range
  <2>2. QED
    BY <1>7, <1>8, <2>1
<1>10. QED
  BY <1>4, <1>5, <1>6, <1>9 DEF Promise!Make

(* A step of the other kind leaves all logs as they are.                   *)
LEMMA StutterStep ==
    ASSUME TypeOK, patches' \in [Dev -> Seq(Patch)],
           \A d \in Dev : SameKeys(patches[d], patches'[d])
    PROVE  Logs' = Logs
<1>1. \A d \in Dev : Logs'[d] = Logs[d]
  BY LogsStay DEF TypeOK
<1>2. Logs = [d \in Dev |-> Logs[d]] /\ Logs' = [d \in Dev |-> Logs'[d]]
  BY DEF Logs
<1>3. QED
  BY <1>1, <1>2

(* What freeze_last_mod does, in whatever handler calls it.                *)
LEMMA FreezeImplements ==
    ASSUME OrderInv, TypeOK', NEW s \in Dev, NEW new,
           patches' = [patches EXCEPT ![s] = new],
           SameKeys(FrozenPatches(s, Date(s)), new)
    PROVE  Promise!Make(s) \/ Logs' = Logs
<1> DEFINE log == FrozenPatches(s, Date(s))
<1>1. TypeOK /\ patches \in [Dev -> Seq(Patch)] /\ patches[s] \in Seq(Patch)
  BY DEF OrderInv, ClockInv, TypeInv, TypeOK
<1>2. patches' \in [Dev -> Seq(Patch)] /\ patches'[s] = new
  BY <1>1 DEF TypeOK
<1>3. \A d \in Dev : d # s => SameKeys(patches[d], patches'[d])
  BY <1>1, SameKeysRefl
<1>4. CASE log = patches[s]
  <2>1. SameKeys(patches[s], patches'[s])
    BY <1>2, <1>4
  <2>2. QED
    BY <1>1, <1>2, <1>3, <2>1, StutterStep
<1>5. CASE Added(patches[s], log, LastPatch(s, Date(s)), Len(patches[s]) + 1) /\ log # patches[s]
  <2>1. Len(patches[s]) \in Nat
    BY <1>1, LenProperties
  <2>2. modifications[s] # <<>>
    BY <1>5 DEF FrozenPatches
  <2>3. Added(patches[s], patches'[s], LastPatch(s, Date(s)), Len(patches[s]) + 1)
    BY <1>2, <1>5, <2>1, AddedThenMarked
  <2>4. QED
    BY <1>2, <2>2, <2>3, MakeStep
<1>6. vector_clock[s] \in Clock /\ modifications[s] \in Seq(Op) /\ Date(s) \in Int
  BY <1>1, DateType DEF TypeOK
<1>7. QED
  BY <1>1, <1>4, <1>5, <1>6, FrozenIs

LEMMA OneOrderHolds ==
    ASSUME TypeOK', SameOrder'
    PROVE  Promise!OneOrder'
<1>1. ASSUME NEW d \in Dev
      PROVE  /\ Len(Logs'[d]) = Len(patches'[d])
             /\ \A i \in 1 .. Len(patches'[d]) : Logs'[d][i] = GloId(patches'[d][i], d)
  <2>1. Len(patches'[d]) \in Nat
    BY LenProperties DEF TypeOK
  <2>2. QED
    BY <2>1, LogsAreNext
<1>2. ASSUME NEW d \in Dev, NEW e \in Dev,
             NEW i1 \in 1 .. Len(patches'[d]), NEW i2 \in 1 .. Len(patches'[d]),
             NEW j1 \in 1 .. Len(patches'[e]), NEW j2 \in 1 .. Len(patches'[e]),
             Logs'[d][i1] = Logs'[e][j1], Logs'[d][i2] = Logs'[e][j2]
      PROVE  i1 < i2 <=> j1 < j2
  <2>1. /\ GloId(patches'[d][i1], d) = GloId(patches'[e][j1], e)
        /\ GloId(patches'[d][i2], d) = GloId(patches'[e][j2], e)
    BY <1>1, <1>2
  <2>2. \A f, g \in Dev : \A k1, k2 \in 1 .. Len(patches'[f]) :
           \A l1, l2 \in 1 .. Len(patches'[g]) :
              /\ GloId(patches'[f][k1], f) = GloId(patches'[g][l1], g)
              /\ GloId(patches'[f][k2], f) = GloId(patches'[g][l2], g)
              => (k1 < k2 <=> l1 < l2)
    BY DEF SameOrder, GloId, ToGlo
  <2> HIDE DEF GloId
  <2>3. QED
    BY <1>2, <2>1, <2>2
<1>3. QED
  BY <1>1, <1>2 DEF Promise!OneOrder

(* A patch that is read and not known is learnt: it is the next one of its *)
(* author, whose log has it.                                               *)
LEMMA ReadImplements ==
    ASSUME OrderInv, TypeOK', SameOrder', ReadPatch
    PROVE  (\E d, a \in Dev : Promise!Learn(d, a)) \/ Logs' = Logs
<1>1. PICK p \in msg : Read(p)
  BY DEF ReadPatch
<1> DEFINE n == Received(p)
           k == InsertionIndex(patches[dst], n, dst)
           a == ToGlo(n.dev, dst)
<1>2. /\ dst \in Dev /\ src \in Dev /\ TypeOK /\ ClockInv /\ pc = "read"
      /\ patches \in [Dev -> Seq(Patch)] /\ patches[dst] \in Seq(Patch)
      /\ Len(patches[dst]) \in Nat /\ patches' \in [Dev -> Seq(Patch)]
  BY TodoType, LenProperties
  DEF ReadPatch, OrderInv, ClockInv, TypeInv, TypeOK, Thread
<1>3. p \in Patch /\ Origin(p, src)
  BY <1>2 DEF OrderInv, AllOrigin, TypeOK
<1>4. n \in Patch /\ Origin(n, dst) /\ n.dev \in Ids /\ n.dev # dst
  BY <1>2, <1>3, ReceivedType, ReceivedOrigin, ReadDevType, ReadDevNotOwn, PatchKey
<1>5. k \in 1 .. Len(patches[dst]) + 1
  BY <1>2, <1>4, InsertionIndexIs
<1>6. CASE Contains(vector_clock[dst], n.dev, n.num)
  <2>1. patches' = [patches EXCEPT ![dst] = MarkStd(@, n)]
    BY <1>1, <1>6 DEF Read
  <2>2. SameKeys(patches[dst], MarkStd(patches[dst], n))
    BY <1>2, <1>4, MarkStdIs
  <2> HIDE DEF n
  <2>3. \A d \in Dev : SameKeys(patches[d], patches'[d])
    BY <1>2, <2>1, <2>2, SameKeysRefl
  <2>4. QED
    BY <1>2, <2>3, StutterStep
<1>7. CASE ~ Contains(vector_clock[dst], n.dev, n.num)
  <2>1. patches' = [patches EXCEPT ![dst] = InsertPatch(@, n, k)]
    BY <1>1, <1>7 DEF Read
  <2>2. n.num = vector_clock[dst][n.dev] + 1
    BY <1>1, <1>2, <1>7, ReadIsNext
  <2>3. Added(patches[dst], InsertPatch(patches[dst], n, k), n, k)
    BY <1>2, <1>4, <1>5, InsertPatchIs
  <2> HIDE DEF n, k
  <2>4. Added(patches[dst], patches'[dst], n, k)
    BY <1>2, <2>1, <2>3
  <2>5. Logs'[dst] = Promise!Put(Logs[dst], GloId(n, dst), k)
    BY <1>2, <2>4, LogsPut
  <2>6. ASSUME NEW e \in Dev, e # dst PROVE Logs'[e] = Logs[e]
    BY <1>2, <2>1, <2>6 DEF Logs
  <2>7. Logs' = [Logs EXCEPT ![dst] = Promise!Put(@, GloId(n, dst), k)]
    <3>1. Logs \in [Dev -> Range(Logs)] /\ Logs' = [e \in Dev |-> Logs'[e]]
      BY DEF Logs, Range
    <3>2. QED
      BY <2>5, <2>6, <3>1
  <2>8. Promise!IsNext(dst, GloId(n, dst))
    BY <1>2, <1>4, <2>2, NextIs
  <2>9. a \in Dev /\ patches[a] \in Seq(Patch) /\ Len(patches[a]) \in Nat
    BY <1>2, <1>4, ToGloType, LenProperties
  <2>10. GloId(n, dst) \in Promise!Held(a) /\ GloId(n, dst)[1] = a
    <3>1. PICK j \in 1 .. Len(patches[a]) : patches[a][j].dev = Loc /\ patches[a][j].num = n.num
      BY <1>4 DEF Origin, CopyIn
    <3>2. Logs[a][j] = <<a, n.num>> /\ Len(Logs[a]) = Len(patches[a])
      BY <2>9, <3>1, LogsAre DEF GloId, ToGlo
    <3>3. GloId(n, dst) = <<a, n.num>>
      BY DEF GloId
    <3>4. QED
      BY <3>1, <3>2, <3>3 DEF Promise!Held
  <2>11. Promise!OneOrder'
    BY OneOrderHolds
  <2>12. Len(Logs[dst]) = Len(patches[dst])
    BY <1>2, LogsAre
  <2> HIDE DEF a
  <2>13. Promise!Learn(dst, a)
    BY <1>5, <2>7, <2>8, <2>10, <2>11, <2>12 DEF Promise!Learn
  <2>14. QED
    BY <1>2, <2>9, <2>13
<1>8. QED
  BY <1>6, <1>7

LEMMA StepImplements ==
    ASSUME DocClosed, OrderInv, OrderInv', SameOrder', [Next]_vars
    PROVE  [Promise!Next]_Logs
<1>1. TypeInv /\ TypeOK /\ TypeOK' /\ patches' \in [Dev -> Seq(Patch)]
  BY DEF OrderInv, ClockInv, TypeInv, TypeOK
<1> DEFINE log(e) == FrozenPatches(e, Date(e))
<1>2. CASE UNCHANGED patches
  <2>1. \A d \in Dev : SameKeys(patches[d], patches'[d])
    BY <1>1, <1>2, LogUnchanged
  <2>2. QED
    BY <1>1, <2>1, StutterStep
<1>3. CASE GetChanges \/ RejectChanges
  <2>1. PICK s \in Dev : patches' = [patches EXCEPT ![s] = log(s)] /\ Freeze(s)
    <3>1. CASE GetChanges
      BY <3>1 DEF GetChanges, OrderInv, ClockInv, TypeInv, Thread
    <3>2. CASE RejectChanges
      <4>1. dst \in Dev
        BY <3>2, TodoType DEF RejectChanges, OrderInv, ClockInv, TypeInv, Thread
      <4>2. Freeze(dst) /\ patches' = [patches EXCEPT ![dst] = log(dst)]
        BY <3>2 DEF RejectChanges
      <4>3. QED
        BY <4>1, <4>2
    <3>3. QED
      BY <1>3, <3>1, <3>2
  <2>2. log(s) \in Seq(Patch)
    BY <1>1, <2>1, FreezeType
  <2>3. SameKeys(log(s), log(s))
    BY <2>2, SameKeysRefl
  <2>4. Promise!Make(s) \/ Logs' = Logs
    BY <1>1, <2>1, <2>3, FreezeImplements
  <2>5. QED
    BY <2>4 DEF Promise!Next
<1>4. CASE AcceptChanges
  <2> DEFINE new == MarkUnk(log(dst), vector_clock'[dst], ReadClock(base, src, dst))
  <2>1. dst \in Dev
    BY <1>4, TodoType DEF AcceptChanges, OrderInv, ClockInv, TypeInv, Thread
  <2>2. Freeze(dst) /\ patches' = [patches EXCEPT ![dst] = new]
    BY <1>4 DEF AcceptChanges
  <2>3. log(dst) \in Seq(Patch)
    BY <1>1, <2>1, <2>2, FreezeType
  <2>4. SameKeys(log(dst), new)
    BY <2>3, MarkUnkIs
  <2> HIDE DEF new
  <2>5. Promise!Make(dst) \/ Logs' = Logs
    BY <1>1, <2>1, <2>2, <2>4, FreezeImplements
  <2>6. QED
    BY <2>1, <2>5 DEF Promise!Next
<1>5. CASE ReadPatch
  BY <1>1, <1>5, ReadImplements DEF Promise!Next
<1>6. CASE MergePatch
  <2>1. PICK f \in Patch :
          /\ Agree(f, patches[dst][idx])
          /\ patches' = [patches EXCEPT ![dst] = [@ EXCEPT ![idx] = f]]
    BY <1>1, <1>6, MergeAt
  <2>2. dst \in Dev /\ patches[dst] \in Seq(Patch) /\ idx \in 1 .. Len(patches[dst])
    BY <1>1, <1>6, MergeAt
  <2>3. SameKeys(patches[dst], [patches[dst] EXCEPT ![idx] = f])
    BY <2>1, <2>2, ExceptSeq DEF SameKeys, Agree
  <2>4. ASSUME NEW d \in Dev PROVE SameKeys(patches[d], patches'[d])
    BY <1>1, <2>1, <2>2, <2>3, SameKeysRefl DEF TypeOK
  <2>5. QED
    BY <1>1, <2>4, StutterStep
<1>7. [Next]_vars => \/ UNCHANGED patches \/ GetChanges \/ RejectChanges
                     \/ AcceptChanges \/ ReadPatch \/ MergePatch
  BY DEF Next, Run, Edit, Bind, SendChanges, Connect, Tick, EndSend, DropChanges,
         EndRead, UndoPatch, vars, itemVars
<1>8. QED
  BY <1>2, <1>3, <1>4, <1>5, <1>6, <1>7

(* A group of Db does what ReplicatedLog promises: every step of every one *)
(* either leaves all logs as they are, or adds to one log the next patch   *)
(* of some device, at the end if it is its own, where the log of every     *)
(* other device has it otherwise.                                          *)
THEOREM LogIsReplicated == ASSUME DocClosed PROVE Spec => ImplementsReplicatedLog
<1>1. Init => Promise!Init
  <2>1. ASSUME Init, NEW d \in Dev PROVE Logs[d] = <<>>
    <3>1. Len(patches[d]) = 0
      BY <2>1 DEF Init, InitGroup
    <3>2. QED
      BY <3>1 DEF Logs
  <2>2. Logs = [d \in Dev |-> Logs[d]]
    BY DEF Logs
  <2>3. QED
    BY <2>1, <2>2 DEF Promise!Init
<1>2. OrderInv /\ OrderInv' /\ SameOrder' /\ [Next]_vars => [Promise!Next]_Logs
  BY StepImplements
<1>3. Spec => [](OrderInv /\ SameOrder)
  BY OrderInvariant, OrderIsShared, PTL
<1>4. QED
  BY <1>1, <1>2, <1>3, PTL DEF Spec, ImplementsReplicatedLog, Promise!Spec

=============================================================================
