------------------------------ MODULE Buffers ------------------------------
(***************************************************************************)
(* CbQueue and CbString (RB/cpp/RiotBase/System): queues and strings of    *)
(* bytes made of chains of buffers that are shared and counted.  A queue   *)
(* writes in its last buffer and frees the ones it has read; a string      *)
(* keeps the buffers it covers alive while the queue goes on.              *)
(*                                                                         *)
(* The heap is a bounded set of buffers.  DefaultSize is 2048 less a       *)
(* header in the code; MaxBytes bounds what is written and MaxUse what a   *)
(* string that leaks may add to cpt_use.  Careful leaves out the calls     *)
(* that put an empty buffer in front of another one, or after which the    *)
(* field `end` of a queue is not its last buffer.                          *)
(***************************************************************************)
EXTENDS Integers, FiniteSets, Sequences

CONSTANTS Queues, Strings, Ids, DefaultSize, MaxBytes, MaxUse, Careful,
          Null,    \* no buffer
          Junk     \* (Buffer *)8, the end of a queue without buffer

ASSUME BuffersAssumption == DefaultSize \in Nat \ {0} /\ Careful \in BOOLEAN

VARIABLES heap,    \* heap[b]: a Buffer, or Null when it is not allocated
          queue,   \* queue[q]: a CbQueue
          str,     \* str[s]: a CbString
          got,     \* the bytes the last reading gave
          sent     \* how many bytes were written: the next ones are new ones
bvars == <<heap, queue, str, got, sent>>

Prefix(s, n) == SubSeq(s, 1, n)
Rest(s, n) == SubSeq(s, n + 1, Len(s))
Smaller(x, y) == IF x < y THEN x ELSE y
Larger(x, y) == IF x > y THEN x ELSE y

\* Buffer: `used` is the length of data; deleted by the last of cpt_use + 1 owners.
Buffer(size, data) == [cpt_use |-> 0, next |-> Null, size |-> size, data |-> data]
Used(h, b) == Len(h[b].data)
Fresh(h) == CHOOSE b \in Ids : h[b] = Null /\ \A c \in Ids : h[c] = Null => b <= c
HasRoom == \E b \in Ids : heap[b] = Null

DecRef(h, b) == IF h[b].cpt_use = 0 THEN [h EXCEPT ![b] = Null]
                ELSE [h EXCEPT ![b].cpt_use = @ - 1]
IncRef(h, bs) == [b \in Ids |-> IF b \in bs THEN [h[b] EXCEPT !.cpt_use = @ + 1] ELSE h[b]]

\* The buffers from b on; a buffer that is not allocated ends the chain.
RECURSIVE Chain(_, _)
Chain(h, b) == IF b = Null THEN <<>>
               ELSE IF h[b] = Null THEN <<b>> ELSE <<b>> \o Chain(h, h[b].next)
RECURSIVE Bytes(_, _)
Bytes(h, b) == IF b = Null \/ h[b] = Null THEN <<>> ELSE h[b].data \o Bytes(h, h[b].next)
Elements(s) == {s[i] : i \in DOMAIN s}

-----------------------------------------------------------------------------
\* CbQueue

NewQueue == [beg |-> Null, end |-> Junk, off |-> 0]
Content(h, q) == Rest(Bytes(h, q.beg), q.off)
Size(h, q) == Len(Bytes(h, q.beg)) - q.off

\* A pair of a heap and of the queue, or of the string, that a call leaves.
With(h, o) == [heap |-> h, obj |-> o]

\* A new buffer at the end of the queue.
NewEnd(h, q, size, data) ==
  LET b == Fresh(h)
      g == [h EXCEPT ![b] = Buffer(size, data)]
  IN IF q.beg = Null THEN With(g, [beg |-> b, end |-> b, off |-> 0])
     ELSE With([g EXCEPT ![q.end].next = b], [q EXCEPT !.end = b])

WriteSome(h, q, d) ==
  LET room == h[q.end].size - Used(h, q.end)
      k == Smaller(room, Len(d))
      g == [h EXCEPT ![q.end].data = @ \o Prefix(d, k)]
  IN CASE d = <<>> -> With(h, q)
       [] q.beg = Null -> NewEnd(h, q, Larger(DefaultSize, Len(d)), d)
       [] d # <<>> /\ q.beg # Null /\ k = Len(d) -> With(g, q)
       [] OTHER -> NewEnd(g, q, Larger(DefaultSize, Len(d) - k), Rest(d, k))

\* write_cont: the data in one buffer, even if the last one has some room.
MakeRoom(h, q, d) ==
  IF q.beg # Null /\ Len(d) <= h[q.end].size - Used(h, q.end)
  THEN With([h EXCEPT ![q.end].data = @ \o d], q)
  ELSE NewEnd(h, q, Larger(DefaultSize, Len(d)), d)

\* skip_some, and read_some but for the copy: the first n bytes are left,
\* and every buffer read to its end is given back.
SkipReadingOffsetKept(h, q, n) ==   \* mutant: off not reset with the buffer
  LET lm == Used(h, q.beg) - q.off
  IN IF q.beg = Null THEN With(h, q)
     ELSE IF n < lm THEN With(h, [q EXCEPT !.off = @ + n])
     ELSE With(DecRef(h, q.beg), [q EXCEPT !.beg = h[q.beg].next])
RECURSIVE Skip(_, _, _)
Skip(h, q, n) ==
  LET lm == Used(h, q.beg) - q.off
  IN IF q.beg = Null THEN With(h, q)
     ELSE IF n < lm THEN With(h, [q EXCEPT !.off = @ + n])
     ELSE Skip(DecRef(h, q.beg), [q EXCEPT !.beg = h[q.beg].next, !.off = 0], n - lm)

ReadByte(h, q) ==
  IF q.off + 1 = Used(h, q.beg)
  THEN With(DecRef(h, q.beg), [q EXCEPT !.beg = h[q.beg].next, !.off = 0])
  ELSE With(h, [q EXCEPT !.off = @ + 1])

RECURSIVE FreeAll(_, _)
FreeAll(h, bs) == IF bs = <<>> THEN h ELSE FreeAll(DecRef(h, Head(bs)), Tail(bs))
Free(h, q) == With(FreeAll(h, Chain(h, q.beg)), [q EXCEPT !.beg = Null, !.off = 0])

\* clear keeps the first buffer that nobody shares, emptied.
RECURSIVE Clear(_, _)
Clear(h, q) ==
  IF q.beg = Null THEN With(h, [q EXCEPT !.off = 0])
  ELSE IF h[q.beg].cpt_use = 0
  THEN With([FreeAll(h, Tail(Chain(h, q.beg))) EXCEPT ![q.beg] = [@ EXCEPT !.data = <<>>, !.next = Null]],
            [q EXCEPT !.end = q.beg, !.off = 0])
  ELSE Clear(DecRef(h, q.beg), [q EXCEPT !.beg = h[q.beg].next])

\* write_some( CbQueue && ): what is left of a partly read first buffer is
\* copied, the other buffers change hands.
Splice(h, q, p) ==
  LET part == WriteSome(h, q, Rest(h[p.beg].data, p.off))
      src == IF p.off = 0 THEN With(h, q) ELSE [part EXCEPT !.heap = DecRef(@, p.beg)]
      first == IF p.off = 0 THEN p.beg ELSE h[p.beg].next
  IN IF src.obj.beg = Null THEN With(src.heap, [beg |-> first, end |-> p.end, off |-> 0])
     ELSE With([src.heap EXCEPT ![src.obj.end].next = first], [src.obj EXCEPT !.end = p.end])

\* What moves begins with bytes and its last buffer is not copied; it does not
\* come after a buffer that clear left empty, nor does a write in a new buffer.
Starts(h, q) == q.beg # Null /\ Used(h, q.beg) > 0
Moves(h, q, p) == /\ Starts(h, p) /\ (p.off = 0 \/ h[p.beg].next # Null)
                  /\ q.beg = Null \/ Starts(h, q) \/ p.off > 0
Follows(h, q, d) == q.beg # Null /\ ~ Starts(h, q) => Len(d) <= h[q.end].size

InsertSome(h, q, d) ==
  LET b == Fresh(h)
  IN With([h EXCEPT ![b] = [Buffer(Len(d), d) EXCEPT !.next = q.beg]],
          [q EXCEPT !.beg = b, !.end = IF q.beg = Null THEN b ELSE @])

\* remove_chunks: what stays is written again over the buffers from the first
\* one; the buffers that are not needed any more are given back.
RECURSIVE Lay(_, _, _, _)
Lay(h, b, off, d) ==
  LET cap == Used(h, b) - off
      here == Prefix(h[b].data, off) \o Prefix(d, Smaller(cap, Len(d)))
  IN IF Len(d) < cap
     THEN [FreeAll(h, Tail(Chain(h, b))) EXCEPT ![b] = [@ EXCEPT !.data = here, !.next = Null]]
     ELSE Lay([h EXCEPT ![b].data = here], h[b].next, 0, Rest(d, cap))
RemoveChunks(h, q, i, j) ==
  LET c == Content(h, q) IN With(Lay(h, q.beg, q.off, Prefix(c, i) \o Rest(c, j)), q)

-----------------------------------------------------------------------------
\* CbString

NewString == [beg |-> Null, off |-> 0, end |-> 0]

\* The buffers a string visits, each with the first byte and their number; a
\* buffer that is not allocated ends the visit.
Piece(b, bd, ed) == [buf |-> b, bd |-> bd, len |-> ed - bd]
RECURSIVE Visited(_, _, _, _)
Visited(h, b, off, end) ==
  IF b = Null \/ h[b] = Null THEN <<Piece(b, off, off)>>
  ELSE IF end <= Used(h, b) THEN <<Piece(b, off, end)>>
  ELSE <<Piece(b, off, Used(h, b))>> \o Visited(h, h[b].next, 0, end - Used(h, b))
Pieces(h, s) == IF s.off < s.end THEN Visited(h, s.beg, s.off, s.end) ELSE <<>>
Covered(h, s) == {Pieces(h, s)[i].buf : i \in DOMAIN Pieces(h, s)}
Text(h, s) == IF s.off < s.end THEN SubSeq(Bytes(h, s.beg), s.off + 1, s.end) ELSE <<>>

\* CbString( const CbQueue & ): every buffer of the queue is retained.
WholeQueue(h, q) == With(IncRef(h, Elements(Chain(h, q.beg))),
                         [beg |-> q.beg, off |-> q.off, end |-> q.off + Size(h, q)])

\* CbString( const CbQueue &, 0, n )
RECURSIVE Hop(_, _)
Hop(h, s) == IF s.off < Used(h, s.beg) THEN s
             ELSE Hop(h, [beg |-> h[s.beg].next, off |-> s.off - Used(h, s.beg), end |-> s.end - Used(h, s.beg)])
FirstBytesNotRetained(h, q, n) ==   \* mutant: the buffers are not retained
  LET s == [beg |-> q.beg, off |-> q.off, end |-> q.off + Smaller(Size(h, q), n)]
  IN IF s.end = s.off THEN With(h, s) ELSE With(h, Hop(h, s))
FirstBytes(h, q, n) ==
  LET s == [beg |-> q.beg, off |-> q.off, end |-> q.off + Smaller(Size(h, q), n)]
  IN IF s.end = s.off THEN With(h, s) ELSE With(IncRef(h, Covered(h, Hop(h, s))), Hop(h, s))

\* CbString( const CbString &, off, len ): len is compared with every buffer
\* as if nothing had been taken from the ones before.
RECURSIVE Taken(_, _, _)
Taken(ps, o, n) ==
  IF ps = <<>> THEN <<>>
  ELSE LET p == Head(ps)
       IN CASE o >= p.len -> Taken(Tail(ps), o - p.len, n)
            [] o < p.len /\ o + n <= p.len -> <<[p EXCEPT !.bd = @ + o]>>
            [] OTHER -> <<[p EXCEPT !.bd = @ + o]>> \o Taken(Tail(ps), 0, n)
Substring(h, s, o, n) ==
  LET ps == Taken(Pieces(h, s), o, n)
  IN IF n = 0 THEN With(h, NewString)
     ELSE With(IncRef(h, {ps[i].buf : i \in DOMAIN ps}),
               [beg |-> ps[1].buf, off |-> ps[1].bd, end |-> ps[1].bd + n])

\* dec_ref_buffs, without the buffers of a string that is empty.
FreeString(h, s) ==
  IF s.off = s.end THEN h
  ELSE LET ps == Pieces(h, s) IN FreeAll(h, [i \in DOMAIN ps |-> ps[i].buf])

RECURSIVE SkipInString(_, _, _)
SkipInString(h, s, n) ==
  LET used == Used(h, s.beg)
      lm == Smaller(s.end, used) - s.off
  IN IF s.off >= s.end THEN With(h, s)
     ELSE IF n < lm THEN With(h, [s EXCEPT !.off = @ + n])
     ELSE IF s.end > used
     THEN SkipInString(DecRef(h, s.beg), [beg |-> h[s.beg].next, off |-> 0, end |-> s.end - used], n - lm)
     ELSE With(DecRef(h, s.beg), [s EXCEPT !.off = 0, !.end = 0])

ReadByteOfString(h, s) ==
  LET t == [s EXCEPT !.off = @ + 1]
  IN CASE t.off = t.end -> With(DecRef(h, s.beg), t)
       [] t.off # t.end /\ t.off = Used(h, s.beg) ->
            With(DecRef(h, s.beg), [beg |-> h[s.beg].next, off |-> 0, end |-> s.end - Used(h, s.beg)])
       [] OTHER -> With(h, t)

-----------------------------------------------------------------------------
BuffersInit == /\ heap = [b \in Ids |-> Null]
               /\ queue = [q \in Queues |-> NewQueue]
               /\ str = [s \in Strings |-> NewString]
               /\ got = <<>>
               /\ sent = 0

\* Bytes are numbered as they are written, so that no two are alike.
Data == {[i \in 1 .. k |-> sent + i] : k \in 1 .. Smaller(DefaultSize + 1, MaxBytes - sent)}

\* The effect of a call on a queue, on a string.  What the fields hold is of
\* no use in a queue without buffer (but error(), which is left out) and in a
\* string without bytes: it is left out too.
Live(q) == IF q.beg = Null THEN NewQueue ELSE q
LiveString(s) == IF s.off = s.end THEN NewString ELSE s
OnQueue(q, w, bytes) == /\ heap' = w.heap
                        /\ queue' = [queue EXCEPT ![q] = Live(w.obj)]
                        /\ got' = bytes
                        /\ UNCHANGED str
OnQueueOnly(q, w, bytes) == OnQueue(q, w, bytes) /\ UNCHANGED sent
OnString(s, w, bytes) == /\ heap' = w.heap
                         /\ str' = [str EXCEPT ![s] = LiveString(w.obj)]
                         /\ got' = bytes
                         /\ UNCHANGED <<queue, sent>>
Writing(q, w, d) == OnQueue(q, w, <<>>) /\ sent' = sent + Len(d)

Write(q) == HasRoom /\ \E d \in Data : Writing(q, WriteSome(heap, queue[q], d), d)
WriteCont(q) == HasRoom /\ \E d \in Data : /\ Careful => Follows(heap, queue[q], d)
                                           /\ Writing(q, MakeRoom(heap, queue[q], d), d)
Insert(q) == /\ HasRoom
             /\ queue[q].off = 0
             /\ (Careful /\ queue[q].beg # Null) => Starts(heap, queue[q])
             /\ \E d \in Data : Writing(q, InsertSome(heap, queue[q], d), d)
Read(q) == \E n \in 1 .. Size(heap, queue[q]) :
              OnQueueOnly(q, Skip(heap, queue[q], n), Prefix(Content(heap, queue[q]), n))
Byte1(q) == /\ queue[q].beg # Null /\ queue[q].off < Used(heap, queue[q].beg)
            /\ OnQueueOnly(q, ReadByte(heap, queue[q]), Prefix(Content(heap, queue[q]), 1))
ClearQueue(q) == OnQueueOnly(q, Clear(heap, queue[q]), <<>>)
FreeQueue(q) == OnQueueOnly(q, Free(heap, queue[q]), <<>>)
Crunch(q) == /\ \A b \in Elements(Chain(heap, queue[q].beg)) : heap[b].cpt_use = 0
             /\ \E i, j \in 0 .. Size(heap, queue[q]) :
                  LET w == RemoveChunks(heap, queue[q], i, j)
                      bs == Chain(w.heap, queue[q].beg)
                  IN /\ i < j
                     /\ Careful => bs[Len(bs)] = queue[q].end /\ Used(w.heap, bs[Len(bs)]) > 0
                     /\ OnQueueOnly(q, w, <<>>)

\* write_some( std::move( p ) ), operator=( std::move( p ) )
MoveInto(q, p) == /\ q # p /\ HasRoom
                  /\ Careful => Moves(heap, queue[q], queue[p])
                  /\ LET w == Splice(heap, queue[q], queue[p])
                     IN heap' = w.heap /\ queue' = [queue EXCEPT ![q] = Live(w.obj), ![p] = NewQueue]
                  /\ got' = <<>> /\ UNCHANGED <<str, sent>>
Assign(q, p) == /\ q # p
                /\ heap' = Free(heap, queue[q]).heap
                /\ queue' = [queue EXCEPT ![q] = queue[p], ![p] = NewQueue]
                /\ got' = <<>> /\ UNCHANGED <<str, sent>>

\* A string that held something is freed before it gets another value.
Blank(s) == str[s].off = str[s].end
Countable == \A b \in Ids : heap[b] # Null => heap[b].cpt_use < MaxUse
TakeAll(q, s) == Blank(s) /\ Countable /\ OnString(s, WholeQueue(heap, queue[q]), <<>>)
TakeSome(q, s) == /\ Blank(s)
                  /\ \E n \in 0 .. Size(heap, queue[q]) :
                       LET w == FirstBytes(heap, queue[q], n)
                           r == Skip(w.heap, queue[q], n)
                       IN /\ heap' = r.heap
                          /\ queue' = [queue EXCEPT ![q] = Live(r.obj)]
                          /\ str' = [str EXCEPT ![s] = LiveString(w.obj)]
                  /\ got' = <<>> /\ UNCHANGED sent
Cut(s, t) == /\ s # t /\ Blank(t)
             /\ \E o, n \in 0 .. str[s].end - str[s].off :
                  /\ o + n <= str[s].end - str[s].off
                  /\ Countable
                  /\ OnString(t, Substring(heap, str[s], o, n), <<>>)
ReadString(s) == \E n \in 1 .. str[s].end - str[s].off :
                    OnString(s, SkipInString(heap, str[s], n), Prefix(Text(heap, str[s]), n))
ReadStringByte(s) == /\ str[s].off < str[s].end /\ str[s].off < Used(heap, str[s].beg)
                     /\ OnString(s, ReadByteOfString(heap, str[s]), Prefix(Text(heap, str[s]), 1))
Release(s) == OnString(s, With(FreeString(heap, str[s]), [str[s] EXCEPT !.off = 0, !.end = 0]), <<>>)

BuffersNext ==
  \/ \E q \in Queues : \/ Write(q) \/ WriteCont(q) \/ Insert(q) \/ Read(q) \/ Byte1(q)
                       \/ ClearQueue(q) \/ FreeQueue(q) \/ Crunch(q)
  \/ \E q, p \in Queues : MoveInto(q, p) \/ Assign(q, p)
  \/ \E q \in Queues, s \in Strings : TakeAll(q, s) \/ TakeSome(q, s)
  \/ \E s, t \in Strings : Cut(s, t)
  \/ \E s \in Strings : ReadString(s) \/ ReadStringByte(s) \/ Release(s)

BuffersSpec == BuffersInit /\ [][BuffersNext]_bvars

-----------------------------------------------------------------------------
\* Properties

\* A buffer that a queue or a string still uses is never given back: cpt_use
\* of Buffer.h counts at least its owners, whatever was read, moved, cleared
\* or cut from the others that share it.
Owners(b) == {q \in Queues : b \in Elements(Chain(heap, queue[q].beg))}
             \cup {s \in Strings : b \in Covered(heap, str[s])}
KeptWhileUsed == \A b \in Ids : Owners(b) # {} =>
                    heap[b] # Null /\ heap[b].cpt_use + 1 >= Cardinality(Owners(b))

\* CbQueue.h: end is "last item", where the next bytes are written.
EndIsLast == \A q \in Queues :
               LET c == Chain(heap, queue[q].beg)
               IN c # <<>> => queue[q].end = c[Len(c)]

\* The chains of shared buffers are the queues and strings of ByteQueue.tla:
\* bytes are read in the order they were written, once, and what is written,
\* read or cleared in a queue changes no other queue and no string.
Plain == INSTANCE ByteQueue WITH content <- [q \in Queues |-> Content(heap, queue[q])],
                                 text <- [s \in Strings |-> Text(heap, str[s])]
ImplementsByteQueue == Plain!Spec
=============================================================================
