----------------------------- MODULE MCTracker -----------------------------
(***************************************************************************)
(* The two parts of the tracker that need many states: the parser of a     *)
(* connection, on the streams given here and with what its grammar         *)
(* (TlsConnectionTrackerParser.hpipe, TrackerCmds.hpipe) says of a stream  *)
(* that is read as a whole; and the sessions, with clients that are alike. *)
(* `part' says which one moves.                                            *)
(***************************************************************************)
EXTENDS TrackerParser, TrackerServer, TLC

VARIABLE part

From(s, n) == SubSeq(s, n, Len(s))
Starts(s, word) == Len(s) >= Len(word) /\ SubSeq(s, 1, Len(word)) = word
Index(s, B) == CHOOSE i \in 1..Len(s) + 1 :
                  (i > Len(s) \/ s[i] \in B) /\ \A j \in 1..i - 1 : s[j] \notin B

\* read_PI: <<number, how many bytes it takes>>, 0 bytes when it is not complete.
RECURSIVE Sum(_)
Sum(s) == IF s = <<>> THEN 0 ELSE (Head(s) % 128) + 128 * Sum(Tail(s))
Number(s) == LET i == Index(s, 0..127)
             IN IF i > Len(s) THEN [n |-> 0, size |-> 0] ELSE [n |-> Sum(SubSeq(s, 1, i)), size |-> i]
\* read_String: the length and as many bytes.
Text1(s) == LET l == Number(s)
            IN IF l.size = 0 \/ Len(s) < l.size + l.n THEN [t |-> <<>>, size |-> 0]
               ELSE [t |-> SubSeq(s, l.size + 1, l.size + l.n), size |-> l.size + l.n]

RECURSIVE Commands(_)
Commands(s) ==
    IF s = <<>> THEN <<>>
    ELSE IF Head(s) = 0
    THEN LET a == Text1(Tail(s))
             b == Text1(From(s, 2 + a.size))
         IN IF a.size = 0 \/ b.size = 0 THEN <<>>
            ELSE <<<<"pwd_login", a.t, b.t>>>> \o Commands(From(s, 2 + a.size + b.size))
    ELSE IF Head(s) = 1
    THEN LET a == Number(Tail(s))
             b == Number(From(s, 2 + a.size))
         IN IF a.size = 0 \/ b.size = 0 THEN <<>>
            ELSE <<<<"ans_login", a.n, b.n>>>> \o Commands(From(s, 2 + a.size + b.size))
    ELSE <<>>

RECURSIVE BigEndian(_)
BigEndian(s) == IF s = <<>> THEN 0 ELSE 256 * BigEndian(SubSeq(s, 1, Len(s) - 1)) + s[Len(s)]

\* ws_msg
RECURSIVE Frames(_)
Frames(s) ==
    IF Len(s) < 2 THEN <<>>
    ELSE LET n == s[2] % 128
             long == CASE n = 126 -> 2 [] n = 127 -> 8 [] OTHER -> 0
             mask == IF s[2] >= 128 THEN 4 ELSE 0
             head == 2 + long + mask
             size == IF long = 0 THEN n ELSE BigEndian(SubSeq(s, 3, 2 + long))
             key == SubSeq(s, 3 + long, 2 + long + mask)
             plain(i) == IF mask = 0 THEN s[head + i] ELSE s[head + i] ^^ key[((i - 1) % 4) + 1]
         IN IF Len(s) < head \/ Len(s) < head + size THEN <<>>
            ELSE Commands([i \in 1..size |-> plain(i)]) \o Frames(From(s, head + size + 1))

\* The lines that follow the request, up to an empty one.
RECURSIVE Lines(_, _)
Lines(s, key) ==
    LET i == Index(s, {LF})
        line == SubSeq(s, 1, i - 1)
        word == Sec \o KeyWord
    IN IF i > Len(s) THEN <<>>
       ELSE IF line \in {<<>>, <<CR>>} THEN <<<<"ws_handshake", key>>>> \o Frames(From(s, i + 1))
       ELSE Lines(From(s, i + 1),
                  IF Starts(line, word) THEN SubSeq(line, Len(word) + 1, Index(line, {CR}) - 1) ELSE key)

Grammar(s) ==
    CASE Starts(s, Get \o <<Space>>) -> <<<<"index_html">>>>
      [] Starts(s, Get \o Icon) -> <<<<"favicon">>>>
      [] Starts(s, Get \o Ws) -> LET t == From(s, Len(Get \o Ws) + 1)
                                 IN Lines(From(t, Index(t, {LF}) + 1), <<>>)
      [] OTHER -> Commands(s)

-----------------------------------------------------------------------------
Answered == <<71, 47, 119, 32, 120, 10,  83, 45, 86, 32, 49, 51, 13, 10,  83, 45, 75, 32, 97, 98, 13, 10,
              13, 10,  130, 131, 3, 5, 9, 17, 1 ^^ 3, 5 ^^ 5, 6 ^^ 9>>
Logged == <<71, 47, 119, 32, 10, 83, 10, 83, 45, 88, 83, 45, 75, 10, 83, 45, 86, 32, 10,
            83, 45, 75, 32, 97, 10, 10,
            130, 126, 0, 8, 0, 2, 97, 98, 1, 99, 1, 5,  129, 0,
            130, 255, 0, 0, 0, 0, 0, 0, 0, 5, 1, 2, 4, 8, 1 ^^ 1, 133 ^^ 2, 1 ^^ 4, 6 ^^ 8, 7 ^^ 1,
            130, 127, 0, 0, 0, 0, 0, 0, 0, 1, 9>>
Twice == <<71, 47, 119, 32, 10, 13, 120, 10, 83, 45, 75, 32, 97, 98, 99, 10, 83, 45, 75, 32, 13, 10, 10,
           130, 130, 7, 7, 7, 7, 2, 2, 130, 254, 0, 3, 1, 1, 1, 1, 0, 6, 7>>
Direct == <<0, 2, 97, 98, 1, 99,  1, 133, 1, 134, 0,  0, 0, 0,  0, 131, 0, 97, 98, 99, 128, 0, 7, 1>>
Sent == {Answered, Logged, Twice, Direct, <<71, 47, 32, 99>>, <<71, 47, 102, 32>>,
         <<71, 47, 102, 99>>, <<71, 48>>, <<71, 47, 120>>, <<71, 47, 119, 47>>, <<5>>}

-----------------------------------------------------------------------------
\* CallsMatch: whatever the packets the bytes come in, between two calls of
\* parse the handlers called, in order and with their arguments, are those that
\* the grammar gives for all the bytes received so far.
CallsMatch == buf = Null => calls = Grammar(SubSeq(stream, 1, read))

\* RefsExact: the references to the buffer of a packet are those of its
\* holders: the call that reads it, the marker of a string that is being read,
\* the strings kept in hpipe_data.  None is freed while it is held, none is
\* kept when nobody holds it.
KeptStrings == {"content", "key", "s0", "s1"}
Marked == IF data.at \notin {"skip", "keytext"} \/ data.mark = NoMark THEN {}
          ELSE IF data.mark.buf = buf THEN {} ELSE Elements(Chain(heap, data.mark.buf, data.pending)) \ {buf}
Holders(b) == (IF b = buf THEN 1 ELSE 0) + (IF b \in Marked THEN 1 ELSE 0)
              + Cardinality({f \in KeptStrings : b \in Held(data[f])})
RefsExact == data.at # "ko" => \A b \in Ids : Holders(b) = IF heap[b] = Null THEN 0 ELSE heap[b].refs

\* KeyKept: the key given to the handshake can still be read in the buffers it
\* shares with the frames, which are unmasked in place and given back.
Handshakes1 == {i \in DOMAIN calls : calls[i][1] = "ws_handshake"}
KeyKept == \A i \in Handshakes1 : Value(heap, data.key) = calls[i][2]

\* ParserExact: the parser calls the same whatever the packets, whose buffers are
\* neither freed nor changed under a string, and given back when no string is left.
\* TlsConnectionTrackerParser.h:290 and 588.
ParserExact == CallsMatch /\ RefsExact /\ KeyKept

-----------------------------------------------------------------------------
MCInit == /\ part \in {"parser", "sessions"} /\ Init /\ ServerInit
          /\ part = "sessions" => stream = <<5>>

MCNext == /\ \/ part = "parser" /\ Next /\ UNCHANGED server
             \/ part = "sessions" /\ ServerNext /\ UNCHANGED pvars
          /\ UNCHANGED part

MCSpec == MCInit /\ [][MCNext]_<<part, pvars, server>>

Alike == Permutations(Sessions)
=============================================================================
