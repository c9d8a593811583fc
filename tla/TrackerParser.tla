--------------------------- MODULE TrackerParser ---------------------------
(***************************************************************************)
(* The parser of one connection of the tracker (Tracker/                   *)
(* TlsConnectionTrackerParser.h, generated from the .hpipe grammar):       *)
(* requests of pages, the WebSocket handshake, frames, and the commands    *)
(* they carry.  `parse` is called with each packet, goes as far as it can  *)
(* and notes in inp_cont the label where the next call goes on.  What it   *)
(* keeps of the packets are references to their buffers.                   *)
(*                                                                         *)
(* A literal of the grammar is cut down to its first and last letters      *)
(* ("GET /" is <<G,/>>).  Lengths stay far below the width of their        *)
(* types.  Hpipe (buffers, strings, the adapter that calls parse) is not   *)
(* in the repository: a buffer has as many references as it is held        *)
(* times, `skip` goes to the next buffer when there is one, and the caller *)
(* of parse drops its packet after the call.                               *)
(***************************************************************************)
EXTENDS Integers, Sequences, FiniteSets, Bitwise

CONSTANTS Streams,    \* what a client may send: sequences of bytes
          Sizes,      \* the lengths of the packets
          Ids,        \* buffers
          Null

ASSUME ParserAssumption == Sizes \subseteq Nat \ {0} /\ Ids \subseteq Nat /\ Null \notin Ids

VARIABLES stream,  \* all that the client sends on the connection
          read,    \* how many of its bytes have been given to parse
          heap,    \* heap[b]: a Buffer, or Null when it is not allocated
          buf,     \* the buffer parse is reading, Null between two calls
          pos,     \* how many bytes of buf have been examined
          last,    \* the flag last_buf of the call
          data,    \* hpipe_data; data.at stands for inp_cont and the program counter
          calls    \* the handlers called so far, with their arguments
pvars == <<stream, read, heap, buf, pos, last, data, calls>>

LF == 10
CR == 13
Get == <<71, 47>>
Icon == <<102, 32>>
Ws == <<119, 32>>
Sec == <<83, 45>>
KeyWord == <<75, 32>>
VersionWord == <<86, 32>>
Space == 32
Digits == 48..57

-----------------------------------------------------------------------------
\* Buffers and the strings made of them

Buffer(bytes) == [bytes |-> bytes, refs |-> 1, next |-> Null]
NoString == [bufs |-> <<>>, off |-> 0, len |-> 0]

RECURSIVE Chain(_, _, _)
Chain(h, b, e) == IF b = e THEN <<b>> ELSE <<b>> \o Chain(h, h[b].next, e)

RECURSIVE Joined(_, _)
Joined(h, bs) == IF bs = <<>> THEN <<>> ELSE h[Head(bs)].bytes \o Joined(h, Tail(bs))

Value(h, s) == SubSeq(Joined(h, s.bufs), s.off + 1, s.off + s.len)

Elements(bs) == {bs[i] : i \in DOMAIN bs}
IncRef(h, b) == [h EXCEPT ![b].refs = @ + 1]
DecRefs(h, B) == [b \in Ids |-> IF b \notin B THEN h[b]
                                ELSE IF h[b].refs = 1 THEN Null
                                ELSE [h[b] EXCEPT !.refs = @ - 1]]

\* The marker of the beginning of a string is on the byte before it: skip moves it by one.
Crosses(h, m) == m.off = Len(h[m.buf].bytes) /\ h[m.buf].next # Null
SkipMark(h, m) == IF Crosses(h, m) THEN [buf |-> h[m.buf].next, off |-> 0] ELSE m
SkipRefs(h, m) == IF Crosses(h, m) THEN DecRefs(h, {m.buf}) ELSE h

-----------------------------------------------------------------------------
\* Numbers of 7 bits per byte, and the parser of the commands of one frame

Shifted(n, byte, shift) == n + (byte % 128) * 2^shift

CbStart == [at |-> "cmd", n0 |-> 0, n1 |-> 0, shift |-> 0, s0 |-> <<>>, s1 |-> <<>>, calls |-> <<>>]

\* A number that goes on, and the command that a byte begins.
CbMore(c, field, byte) == [c EXCEPT ![field] = Shifted(@, byte, c.shift), !.shift = @ + 7]
CbCommand(c, byte) == [c EXCEPT !.n0 = 0, !.n1 = 0, !.shift = 0, !.s0 = <<>>, !.s1 = <<>>,
                                !.at = CASE byte = 0 -> "len0" [] byte = 1 -> "usr" [] OTHER -> "ok"]
CbLogin(c) == [c EXCEPT !.at = "cmd", !.calls = Append(@, <<"pwd_login", c.s0, c.s1>>)]
CbString1(c) == IF c.n1 = 0 THEN CbLogin(c) ELSE [c EXCEPT !.at = "s1"]

CbByte(c, byte) ==
    CASE c.at = "ok" -> c
      [] c.at = "cmd" -> CbCommand(c, byte)
      [] c.at \in {"usr", "len0"} /\ byte >= 128 -> CbMore(c, "n0", byte)
      [] c.at \in {"dev", "len1"} /\ byte >= 128 -> CbMore(c, "n1", byte)
      [] c.at = "usr" -> [c EXCEPT !.n0 = Shifted(@, byte, c.shift), !.shift = 0, !.at = "dev"]
      [] c.at = "dev" -> [c EXCEPT !.at = "cmd",
             !.calls = Append(@, <<"ans_login", c.n0, Shifted(c.n1, byte, c.shift)>>)]
      [] c.at = "len0" -> LET n == Shifted(c.n0, byte, c.shift)
                          IN [c EXCEPT !.n0 = n, !.shift = 0, !.at = IF n = 0 THEN "len1" ELSE "s0"]
      [] c.at = "s0" -> [c EXCEPT !.s0 = Append(@, byte),
                                  !.at = IF Len(c.s0) + 1 = c.n0 THEN "len1" ELSE "s0"]
      [] c.at = "len1" -> CbString1([c EXCEPT !.n1 = Shifted(@, byte, c.shift)])
      [] c.at = "s1" -> LET e == [c EXCEPT !.s1 = Append(@, byte)]
                        IN IF Len(e.s1) = e.n1 THEN CbLogin(e) ELSE e

\* parse_cb: the data is a new one for each frame, what is left of a command is
\* dropped. A command is whole in its frame in what a client sends. The code
\* does not look for the end of the frame in the second buffer of a string
\* (TlsConnectionTrackerParserCb.h:143 and 172): a string longer than its frame
\* is read past it when the frame comes in two packets, and refused in one.
RECURSIVE CbRun(_, _)
CbRun(c, bytes) == IF bytes = <<>> THEN c.calls ELSE CbRun(CbByte(c, Head(bytes)), Tail(bytes))
ParseCb(bytes) == CbRun(CbStart, bytes)

-----------------------------------------------------------------------------
\* parse: one action for what is done with the byte examined at a label

NoMark == [buf |-> Null, off |-> 0]

Init == /\ stream \in Streams
        /\ read = 0
        /\ heap = [b \in Ids |-> Null]
        /\ buf = Null /\ pos = 0 /\ last = FALSE
        /\ data = [at |-> "first", k |-> 0, masked |-> FALSE, mask |-> <<>>, length |-> 0,
                   n0 |-> 0, n1 |-> 0, shift |-> 0, skip |-> 0, what |-> "content",
                   mark |-> NoMark, pending |-> Null, version |-> 0,
                   content |-> NoString, key |-> NoString, s0 |-> NoString, s1 |-> NoString]
        /\ calls = <<>>

Byte == heap[buf].bytes[pos + 1]
Used == Len(heap[buf].bytes)

Examines(l) == /\ data.at = l /\ buf # Null
               /\ buf # Null => pos < Used
               /\ pos' = pos + 1
               /\ UNCHANGED <<stream, read, buf, last>>
Quiet == UNCHANGED <<heap, calls>>
Calls(c) == calls' = Append(calls, c) /\ UNCHANGED heap
To(l) == data' = [data EXCEPT !.at = l, !.k = 0]

\* l_83: the connection is over for the parser; the rest of the packet is not read.
Stops(l) == /\ buf' = Null /\ heap' = DecRefs(heap, {buf}) /\ pos' = 0
            /\ data' = [data EXCEPT !.at = l]
            /\ UNCHANGED <<stream, read, last>>
Looks(l) == data.at = l /\ buf # Null /\ (buf # Null => pos < Used)

CommandBegins(byte) == [data EXCEPT !.n0 = 0, !.n1 = 0, !.shift = 0,
                                    !.at = IF byte = 0 THEN "len0" ELSE "usr"]

First == \/ /\ Examines("first") /\ Byte \in {0, 1} /\ Quiet
            /\ data' = CommandBegins(Byte)
         \/ /\ Examines("first") /\ Byte = Get[1] /\ Quiet
            /\ data' = [data EXCEPT !.at = "get", !.k = 1]

\* The letters of a word of the request, from the second one on.
RequestLetter(l, word, then) ==
    /\ Examines(l) /\ Byte = word[data.k + 1] /\ Quiet
    /\ IF data.k + 1 = Len(word) THEN To(then) ELSE data' = [data EXCEPT !.k = @ + 1]

Path == /\ Examines("path") /\ Quiet
        /\ \/ Byte = Icon[1] /\ data' = [data EXCEPT !.at = "icon", !.k = 1]
           \/ Byte = Ws[1] /\ data' = [data EXCEPT !.at = "ws", !.k = 1]

Request == First \/ RequestLetter("get", Get, "path") \/ Path \/ RequestLetter("ws", Ws, "any")

\* index_html and favicon send the page and close; the parser stops.
Answers(page) == Stops("ok") /\ calls' = Append(calls, <<page>>)
SendIndex == Looks("path") /\ Byte = Space /\ Answers("index_html")
SendIcon == Looks("icon") /\ Byte = Icon[2] /\ Answers("favicon")

Refused == \/ Looks("first") /\ Byte \notin {0, 1, Get[1]}
           \/ Looks("get") /\ Byte # Get[2]
           \/ Looks("path") /\ Byte \notin {Space, Icon[1], Ws[1]}
           \/ Looks("icon") /\ Byte # Icon[2]
           \/ Looks("ws") /\ Byte # Ws[2]
           \/ Looks("cmd") /\ Byte >= 2
StopOnRefused == Refused /\ Stops("ok") /\ UNCHANGED calls

-----------------------------------------------------------------------------
\* The header of the WebSocket handshake

Again(byte) == IF byte = LF THEN "eol" ELSE "any"

AnyByte == Examines("any") /\ To(Again(Byte)) /\ Quiet

Handshakes == To("byte0") /\ Calls(<<"ws_handshake", Value(heap, data.key)>>)
EndOfLine ==
    /\ Examines("eol")
    /\ \/ Byte = Sec[1] /\ data' = [data EXCEPT !.at = "sec", !.k = 1] /\ Quiet
       \/ Byte = CR /\ To("cr") /\ Quiet
       \/ Byte = LF /\ Handshakes
       \/ Byte \notin {Sec[1], CR, LF} /\ To("any") /\ Quiet
AfterCr == /\ Examines("cr")
           /\ IF Byte = LF THEN Handshakes ELSE To("any") /\ Quiet

\* A header word; a byte that is not of the word is looked at again.
HeaderLetter(l, word, then) ==
    /\ Examines(l) /\ Quiet
    /\ IF Byte # word[data.k + 1] THEN To(Again(Byte))
       ELSE IF data.k + 1 < Len(word) THEN data' = [data EXCEPT !.k = @ + 1]
       ELSE To(then)
Which == /\ Examines("which") /\ Quiet
         /\ \/ Byte = KeyWord[1] /\ data' = [data EXCEPT !.at = "key", !.k = 1]
            \/ Byte = VersionWord[1] /\ data' = [data EXCEPT !.at = "version", !.k = 1]
            \/ Byte \notin {KeyWord[1], VersionWord[1]} /\ To(Again(Byte))
KeyLetter == /\ Examines("key") /\ Quiet
             /\ data' = IF Byte # KeyWord[2] THEN [data EXCEPT !.at = Again(Byte), !.k = 0]
                        ELSE [data EXCEPT !.at = "keytext", !.mark = [buf |-> buf, off |-> pos + 1]]

KeyText == Examines("keytext") /\ Byte \notin {CR, LF} /\ UNCHANGED data /\ Quiet

\* The key runs from the marker to the byte before the end of its line.  The
\* buffer of that end is retained if one of its bytes is of the key.
Spanned(h, m, p) == LET bs == Chain(h, m.buf, buf)
                    IN IF p = 0 THEN SubSeq(bs, 1, Len(bs) - 1) ELSE bs
Text(h, m, p) == LET bs == Spanned(h, m, p)
                     before == IF p = 0 THEN bs ELSE SubSeq(bs, 1, Len(bs) - 1)
                 IN [bufs |-> bs, off |-> m.off, len |-> Len(Joined(h, before)) + p - m.off]
KeyRefs(h) == IF pos > 0 THEN IncRef(SkipRefs(h, data.mark), buf) ELSE SkipRefs(h, data.mark)
EndOfKey == /\ Examines("keytext") /\ Byte \in {CR, LF} /\ UNCHANGED calls
            /\ LET m == SkipMark(heap, data.mark)
                   h == KeyRefs(heap)
               IN /\ heap' = DecRefs(h, Elements(data.key.bufs))
                  /\ data' = [data EXCEPT !.key = Text(heap, m, pos), !.mark = NoMark,
                                          !.at = Again(Byte), !.k = 0]

VersionLetter == HeaderLetter("version", VersionWord, "digit")
VersionDigit == /\ Examines("digit") /\ Quiet
                /\ IF Byte \in Digits
                   THEN data' = [data EXCEPT !.k = 1,
                           !.version = (IF data.k = 0 THEN 0 ELSE 10 * @) + Byte - 48]
                   ELSE To(Again(Byte))

Header == AnyByte \/ EndOfLine \/ AfterCr \/ HeaderLetter("sec", Sec, "which") \/ Which
          \/ KeyLetter \/ KeyText \/ EndOfKey \/ VersionLetter \/ VersionDigit

-----------------------------------------------------------------------------
\* What is counted: the content of a frame, the strings of a command

Held(s) == Elements(s.bufs)

\* The string from the marker to the byte at p of buf; the one it replaces is dropped.
Assigned(h, s, m) == DecRefs(IncRef(SkipRefs(h, m), buf), Held(s))

\* ws_unmask: in the buffers themselves, byte i of the content with byte i % 4 of the mask.
Unmasked(h, s, mask) ==
    LET start(i) == Len(Joined(h, SubSeq(s.bufs, 1, i - 1))) - s.off
        plain(i, j) == LET n == start(i) + j
                       IN IF n \in 1..s.len THEN h[s.bufs[i]].bytes[j] ^^ mask[((n - 1) % 4) + 1]
                          ELSE h[s.bufs[i]].bytes[j]
    IN [b \in Ids |-> IF b \notin Held(s) THEN h[b]
                      ELSE LET i == CHOOSE x \in DOMAIN s.bufs : s.bufs[x] = b
                           IN [h[b] EXCEPT !.bytes = [j \in DOMAIN @ |-> plain(i, j)]]]

\* The counted bytes end at p in buf; m is their marker, d the data so far.
Counted(d, what, m, p) ==
    LET s == Text(heap, SkipMark(heap, m), p)
        h == Assigned(heap, d[what], m)
        done == [d EXCEPT ![what] = s, !.mark = NoMark, !.k = 0]
    IN CASE what = "content" ->
              LET u == IF d.masked THEN Unmasked(h, s, d.mask) ELSE h
              IN /\ heap' = u
                 /\ data' = [done EXCEPT !.at = "byte0"]
                 /\ calls' = calls \o ParseCb(Value(u, s))
         [] what = "s0" ->
              /\ heap' = h /\ UNCHANGED calls
              /\ data' = [done EXCEPT !.at = "len1", !.n0 = 0, !.shift = 0]
         [] what = "s1" ->
              /\ heap' = h
              /\ data' = [done EXCEPT !.at = "cmd"]
              /\ calls' = Append(calls, <<"pwd_login", Value(h, d.s0), Value(h, s)>>)

\* All the n bytes that follow the one examined are in the packet.
Fits(n) == pos + 1 + n <= Used
CountHere(d, what, n) == /\ Fits(n) /\ pos' = pos + 1 + n
                         /\ Counted(d, what, [buf |-> buf, off |-> pos + 1], pos + 1 + n)
                         /\ UNCHANGED <<stream, read, buf, last>>
\* They are not: the packet is retained and the others awaited, unless it is the last one.
CountLater(d, what, n) ==
    /\ ~Fits(n) /\ buf' = Null /\ pos' = 0 /\ UNCHANGED <<stream, read, last, calls>>
    /\ IF last
       THEN heap' = DecRefs(heap, {buf}) /\ data' = [d EXCEPT !.at = "ko"]
       ELSE /\ UNCHANGED heap   \* inc_ref for pending_buf, dec_ref by the caller
            /\ data' = [d EXCEPT !.at = "skip", !.what = what, !.pending = buf,
                                 !.mark = [buf |-> buf, off |-> pos + 1],
                                 !.skip = n - (Used - pos - 1)]
Count(d, what, n) == CountHere(d, what, n) \/ CountLater(d, what, n)

\* e_25, e_41, e_86, e_88: the next packet, which Packet has chained to the pending one.
CountEnds == /\ data.at = "skip" /\ buf # Null
             /\ buf # Null => data.skip <= Used
             /\ pos' = data.skip
             /\ Counted(data, data.what, data.mark, data.skip)
             /\ UNCHANGED <<stream, read, buf, last>>
\* l_86, l_176, l_179 for the last packet: the marker gives back what it retains.
CountGoesOnAll ==   \* a mutant: the bytes of the packet are not deducted
    /\ data.at = "skip" /\ buf # Null
    /\ buf # Null => data.skip > Used
    /\ buf' = Null /\ pos' = 0 /\ UNCHANGED <<stream, read, last, calls, heap>>
    /\ data' = IF last THEN [data EXCEPT !.at = "ko"] ELSE data
CountGoesOn ==
    /\ data.at = "skip" /\ buf # Null
    /\ buf # Null => data.skip > Used
    /\ buf' = Null /\ pos' = 0 /\ UNCHANGED <<stream, read, last, calls>>
    /\ IF last
       THEN /\ heap' = DecRefs(heap, Elements(Chain(heap, data.mark.buf, buf)))
            /\ data' = [data EXCEPT !.at = "ko", !.mark = NoMark]
       ELSE /\ UNCHANGED heap
            /\ data' = [data EXCEPT !.skip = @ - Used]

-----------------------------------------------------------------------------
\* Frames

Byte0 == Examines("byte0") /\ To("len") /\ Quiet

\* The second byte: the length or the size of the length, and whether there is a mask.
Framed(byte) == [data EXCEPT !.masked = byte >= 128, !.length = byte % 128, !.mask = <<>>, !.k = 0]
LongLength == /\ Examines("len") /\ Byte % 128 >= 126 /\ Quiet
              /\ data' = [Framed(Byte) EXCEPT !.at = "length", !.length = 0,
                                              !.k = IF Byte % 128 = 126 THEN 2 ELSE 8]
MaskedLength == /\ Examines("len") /\ Byte \in 128..253 /\ Quiet
                /\ data' = [Framed(Byte) EXCEPT !.at = "mask"]
ShortLength == Looks("len") /\ Byte < 126 /\ Count(Framed(Byte), "content", Byte)

\* The bytes of a length of 16 or 64 bits, the highest first: k of them are left.
Longer == 256 * data.length + Byte
LengthByte == /\ Examines("length") /\ data.k > 1 /\ Quiet
              /\ data' = [data EXCEPT !.length = Longer, !.k = @ - 1]
MaskFollows == /\ Examines("length") /\ data.k = 1 /\ data.masked /\ Quiet
               /\ data' = [data EXCEPT !.length = Longer, !.at = "mask", !.k = 0]
ContentFollows == /\ Looks("length") /\ data.k = 1 /\ ~data.masked
                  /\ Count([data EXCEPT !.length = Longer], "content", Longer)

MaskByte == /\ Examines("mask") /\ Len(data.mask) < 3 /\ Quiet
            /\ data' = [data EXCEPT !.mask = Append(@, Byte)]
LastMaskByte == /\ Looks("mask") /\ Len(data.mask) = 3
                /\ Count([data EXCEPT !.mask = Append(@, Byte)], "content", data.length)

Frame == Byte0 \/ LongLength \/ MaskedLength \/ ShortLength \/ LengthByte \/ MaskFollows
         \/ ContentFollows \/ MaskByte \/ LastMaskByte

-----------------------------------------------------------------------------
\* Commands that come without a request: the same grammar as ParseCb's

NextCommand == Examines("cmd") /\ Byte \in {0, 1} /\ data' = CommandBegins(Byte) /\ Quiet

More(l, field) == /\ Examines(l) /\ Byte >= 128 /\ Quiet
                  /\ data' = [data EXCEPT ![field] = Shifted(@, Byte, data.shift), !.shift = @ + 7]
UsrNumber == /\ Examines("usr") /\ Byte < 128 /\ Quiet
             /\ data' = [data EXCEPT !.n0 = Shifted(@, Byte, data.shift), !.shift = 0, !.at = "dev"]
DevNumber == /\ Examines("dev") /\ Byte < 128 /\ To("cmd")
             /\ Calls(<<"ans_login", data.n0, Shifted(data.n1, Byte, data.shift)>>)
StringLength(l, what) ==
    /\ Looks(l) /\ Byte < 128
    /\ Count(data, what, Shifted(data.n0, Byte, data.shift))

AnsLogin == More("usr", "n0") \/ UsrNumber \/ More("dev", "n1") \/ DevNumber
PwdLogin == More("len0", "n0") \/ StringLength("len0", "s0")
            \/ More("len1", "n0") \/ StringLength("len1", "s1")
Command == NextCommand \/ AnsLogin \/ PwdLogin

-----------------------------------------------------------------------------
\* The packets

Fresh == CHOOSE b \in Ids : heap[b] = Null /\ \A c \in Ids : heap[c] = Null => b <= c
Waits == data.at \in {"skip", "keytext"} /\ data.pending # Null
Over == data.at \in {"ok", "ko"}

\* A call of parse.  The packet is chained to the pending one if the label waits for it.
Packet(n, end) ==
    /\ buf = Null /\ ~last /\ ~Over
    /\ read + n <= Len(stream) /\ (end => read + n = Len(stream))
    /\ \E b \in Ids : heap[b] = Null
    /\ LET new == [heap EXCEPT ![Fresh] = Buffer(SubSeq(stream, read + 1, read + n))]
       IN heap' = IF Waits THEN [new EXCEPT ![data.pending].next = Fresh] ELSE new
    /\ data' = IF Waits THEN [data EXCEPT !.pending = Fresh] ELSE data
    /\ buf' = Fresh /\ pos' = 0 /\ last' = end /\ read' = read + n
    /\ UNCHANGED <<stream, calls>>

\* The end of the packet: the caller drops it, inp_cont is the label of the next byte.
AtEnd(labels) == /\ data.at \in labels /\ buf # Null
                 /\ buf # Null => pos = Used
                 /\ buf' = Null /\ pos' = 0
                 /\ UNCHANGED <<stream, read, last, calls>>
Pauses(labels, verdict) ==
    /\ AtEnd(labels) /\ heap' = DecRefs(heap, {buf})
    /\ IF last THEN To(verdict) ELSE UNCHANGED data

PauseInRequest == Pauses({"first", "get", "path", "icon", "ws"}, "ok")
PauseInHeader == Pauses({"any", "eol", "cr", "sec", "which", "key", "version", "digit"}, "ko")
PauseInFrame == Pauses({"byte0", "len", "length", "mask"}, "ko")
PauseInCommand == Pauses({"usr", "dev", "len0", "len1"}, "ko") \/ Pauses({"cmd"}, "ok")
\* In the text of the key the packet is retained.
PauseInKey == /\ AtEnd({"keytext"})
              /\ IF last
                 THEN heap' = DecRefs(heap, {buf}) /\ To("ko")
                 ELSE UNCHANGED heap /\ data' = [data EXCEPT !.pending = buf]

Next == \/ \E n \in Sizes, end \in BOOLEAN : Packet(n, end)
        \/ Request \/ SendIndex \/ SendIcon \/ StopOnRefused
        \/ Header \/ CountEnds \/ CountGoesOn \/ Frame \/ Command
        \/ PauseInRequest \/ PauseInHeader \/ PauseInKey \/ PauseInFrame \/ PauseInCommand

Spec == Init /\ [][Next]_pvars
=============================================================================
