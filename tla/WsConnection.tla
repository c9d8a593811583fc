---------------------------- MODULE WsConnection ----------------------------
(***************************************************************************)
(* A connection of the tracker of RiotBase (RB/cpp/RiotBase/Tracker/Core/  *)
(* TrackerServerTcpConnection.cpp): the request of a page or of a          *)
(* WebSocket, then frames that hold commands, in packets that end          *)
(* anywhere; and what it answers, or other sessions send to its client,    *)
(* framed as it goes to a TLS layer that takes a part of it at a time.     *)
(*                                                                         *)
(* parse() is called with each packet. `at' is inp_cont, the label of the  *)
(* read that had nothing more. The literals of the protocol are cut down:  *)
(* "GET " is two letters, "Sec-WebSocket-Key: " is <<S, e, K, :>>, answers *)
(* have codes of one byte, and a sum of one byte stands for the checksum   *)
(* and for the hash of the key. The limits of the lengths are constants.   *)
(* A client sends frames once it has the answer to its request, and hangs  *)
(* up when it is refused. A key does not begin with an end of line. When a *)
(* packet ends right after the masking key of a frame, websocket_data      *)
(* begins past the end of its buffer and what it holds is undefined: no    *)
(* packet ends there. The key of a pong masks nothing in the code either   *)
(* (i, line 338, stays 0), and its payload has at most 125 bytes here.     *)
(***************************************************************************)
EXTENDS BinStream, Bitwise

CONSTANTS
    Clients,        \* [request, frames]: what a client sends
    PacketSizes,
    MaxFrame,       \* 2^20, the longest masked frame
    LengthWidth,    \* 2^32, the width of websocket_payload_length
    OneByte,        \* 125, the longest payload whose length is in one byte
    TwoBytes,       \* 65535, in two bytes
    OtherDevs,      \* the devices that have the objects open
    Rooms,          \* how many bytes a socket that gets full may still take
    MaxRelays       \* bound: messages of other sessions

ASSUME WsAssumption ==
    /\ PacketSizes \subseteq Nat \ {0} /\ {MaxFrame, OneByte, TwoBytes, MaxRelays} \subseteq Nat
    /\ LengthWidth \in Nat \ {0}

VARIABLES
    client,     \* all that the client sends
    got,        \* how many bytes of it parse() was given
    conn,       \* the connection
    sent,       \* the bytes given to the TLS layer
    said,       \* the answer to the request, then the messages, as they were written, and
                \* Control where a control frame was
    relays      \* the messages that other sessions have sent

wsvars == <<client, got, conn, sent, said, relays>>

LF == 10
CR == 13
Space == 32
Digits == 48 .. 57
LetterG == 71
LetterE == 101      \* the end of "GET ", and "ec-WebSocket-"
LetterK == 75
LetterS == 83
LetterV == 86
Colon == 58
Register == <<114>> \* "/register?token="

\* What a connection understands, beside the commands 0 .. 11.
Shaken == 100
Confirmed == 101

NewConn ==
    [at |-> "first", cont |-> TRUE, url |-> <<>>, key |-> <<>>, version |-> 0,
     byte0 |-> 0, masked |-> FALSE, more |-> 0, length |-> 0, mask |-> <<>>, shift |-> 0,
     data |-> <<>>, ws |-> FALSE, framed |-> 0, cw |-> <<>>, blocked |-> FALSE, calls |-> <<>>,
     out |-> <<>>]

WsInit ==
    /\ client \in Clients
    /\ got = 0 /\ conn = NewConn /\ sent = <<>> /\ said = <<>> /\ relays = 0

-----------------------------------------------------------------------------
\* The queue of what is to be sent. `out' is what was written in this call,
\* as the client must get it.

Sum(s) == LET f[i \in 0 .. Len(s)] == IF i = 0 THEN 7 ELSE (f[i - 1] * 3 + s[i]) % 251 IN f[Len(s)]

Write(c, bytes) == [c EXCEPT !.cw = @ \o bytes, !.out = @ \o bytes]

\* A whole control frame, header included, is written in the queue as a message
\* is: frame_cw puts it, with what is written in the same call, in a binary
\* frame. The client should get a frame of its own, which is not a byte.
Control == -1
WriteControl(c, frame) == [c EXCEPT !.cw = @ \o frame, !.out = Append(@, Control)]

\* bs_out_auto_close: the message and its checksum.
Send(c, msg) == Write(c, msg \o <<Sum(msg)>>)

\* return false
Stop(c) == [c EXCEPT !.cont = FALSE]

MethodNotAllowed(c) == Stop(Write(c, <<205>>))

\* http_get: the confirmation of a user, or nothing.
HttpGet(c) ==
    IF SubSeq(c.url, 1, Len(Register)) = Register
    THEN Stop(Write([c EXCEPT !.calls = Append(@, <<Confirmed, SubSeq(c.url, Len(Register) + 1, Len(c.url))>>)],
                    <<200>>))
    ELSE Stop(Write(c, <<204>>))

\* The answer is not framed; inp_cont is ws_loop.
Handshake(c) ==
    LET w == Write(c, <<201, Sum(c.key)>>)
    IN  [w EXCEPT !.at = "byte0", !.ws = TRUE, !.framed = Len(w.cw),
                  !.calls = Append(@, <<Shaken, c.key>>)]

CloseFrame == <<136, 130, 1, 2, 3, 4, 2, 243>>  \* message_too_big, masked
TooBig(c) == Stop(WriteControl(c, CloseFrame))

Header(n) ==
    CASE n <= OneByte -> <<130, n>>
      [] n > OneByte /\ n <= TwoBytes -> <<130, 126, (n \div 256) % 256, n % 256>>
      [] OTHER -> <<130, 127, 0, 0, 0, 0>> \o [i \in 1 .. 4 |-> (n \div 256 ^ (4 - i)) % 256]

\* frame_cw: what was written since the last time becomes one frame.
FrameCw(c) ==
    IF c.ws /\ Len(c.cw) > c.framed
    THEN LET f == SubSeq(c.cw, 1, c.framed) \o Header(Len(c.cw) - c.framed)
                  \o SubSeq(c.cw, c.framed + 1, Len(c.cw))
         IN  [c EXCEPT !.cw = f, !.framed = Len(f)]
    ELSE c

\* skip_framed, after cw.skip_some
Taken(c, n) == [c EXCEPT !.cw = SubSeq(@, n + 1, Len(@)), !.framed = IF c.ws THEN @ - n ELSE @]

-----------------------------------------------------------------------------
\* The commands

\* What a command holds, read with what its type reads.
ArgTypes ==
    [c \in 0 .. 11 |->
        CASE c = 0 -> <<"string">>                              \* error_msg
          [] c \in {1, 3} -> <<>>                               \* corrupted_data, logout
          [] c = 2 -> <<"string", "string">>                    \* login
          [] c = 4 -> <<"inode", "clock">>                      \* bind_obj
          [] c \in {5, 6} -> <<"inode">>                        \* load_and_bind_obj, load_obj
          [] c = 7 -> <<"dev">>                                 \* get_dev_info
          [] c = 8 -> <<"dev", "byte", "string">>               \* ice_candidate
          [] c \in {9, 10} -> <<"dev", "string">>               \* webrtc_offer, webrtc_answer
          [] c = 11 -> <<"string", "string", "string">>]        \* create_user

ReadArg(r, type) ==
    CASE type = "string" -> ReadString(r)
      [] type = "inode"  -> ReadInode(r)
      [] type = "clock"  -> ReadClock(r)
      [] type = "dev"    -> ReadDev(r)
      [] type = "byte"   -> ReadByte(r)

ReadArgs(r, types) ==
    LET f[i \in 0 .. Len(types)] == IF i = 0 THEN r ELSE ReadArg(f[i - 1], types[i]) IN f[Len(types)]

\* check_checksum, on what was read of the frame
ChecksumOk(data, n) == Len(data) > n /\ data[n + 1] = Sum(SubSeq(data, 1, n))

\* What the session is told about an object that is open elsewhere.
RECURSIVE BindAll(_, _, _)
BindAll(c, inode, devs) ==
    IF devs = <<>> THEN c
    ELSE BindAll(Send(c, WriteUnsigned(4) \o WriteInode(inode) \o WriteDev(Head(devs))), inode, Tail(devs))

Usr == [num |-> 1, dev |-> 0]
Token == <<116>>
\* The handlers that answer on this connection.
Handle(c, cmd, args) ==
    CASE cmd = 2 -> Send(c, WriteUnsigned(2) \o WriteDev(1) \o WriteInode(Usr) \o WriteString(Token))
      [] cmd = 3 -> Send(c, WriteUnsigned(3))
      [] cmd = 4 -> BindAll(c, args[1], OtherDevs)
      [] cmd = 11 -> Send(c, WriteUnsigned(11) \o WriteString(<<>>))
      [] OTHER -> c

Called(c, cmd, args) == Handle([c EXCEPT !.calls = Append(@, <<cmd, args>>)], cmd, args)

\* One command, read by r; the rest of the frame is left in data.
Command(c, cmd, r) ==
    LET n == Len(c.data) - Len(r.rest)
    IN  IF ~ ChecksumOk(c.data, n) THEN Stop([c EXCEPT !.data = SubSeq(@, n + 2, Len(@))])
        ELSE Called([c EXCEPT !.data = SubSeq(@, n + 2, Len(@))], cmd, r.args)

RECURSIVE ParseMsg(_)
ParseMsg(c) ==
    IF c.data = <<>> \/ ~ c.cont THEN c
    ELSE IF Head(c.data) \notin DOMAIN ArgTypes THEN Stop(c)    \* an assertion
    ELSE ParseMsg(Command(c, Head(c.data), ReadArgs(Reader(Tail(c.data)), ArgTypes[Head(c.data)])))

\* websocket_ping: writes a pong
Ping(c) == WriteControl(c, <<138, 128 + Len(c.data), 0, 1, 2, 3>> \o c.data)

-----------------------------------------------------------------------------
\* parse(). A step takes the bytes of the packet from the one being read, and
\* gives the connection, at the label of the next read, with the bytes left.

At(c, label, rest) == [c |-> [c EXCEPT !.at = label], rest |-> rest]
Ended(c) == [c |-> c, rest |-> <<>>]

\* "GET "
First(c, s) == IF Head(s) = LetterG THEN At(c, "get", Tail(s)) ELSE Ended(MethodNotAllowed(c))
GetWord(c, s) == IF Head(s) = LetterE THEN At(c, "url", Tail(s)) ELSE Ended(MethodNotAllowed(c))

\* READ_STRING_UNTIL_SPACE: the byte that ends the string is read again.
EndOfWord == {Space, LF, CR}
Url(c, s) == IF Head(s) = Space THEN At([c EXCEPT !.url = <<>>], "header", Tail(s))
             ELSE At([c EXCEPT !.url = <<Head(s)>>], "urltext", Tail(s))
UrlText(c, s) == IF Head(s) \in EndOfWord THEN At(c, "header", s)
                 ELSE At([c EXCEPT !.url = Append(@, Head(s))], "urltext", Tail(s))
Key(c, s) == IF Head(s) = Space THEN At([c EXCEPT !.key = <<>>], "header", s)
             ELSE At([c EXCEPT !.key = <<Head(s)>>], "keytext", Tail(s))
KeyText(c, s) == IF Head(s) \in EndOfWord THEN At(c, "header", s)
                 ELSE At([c EXCEPT !.key = Append(@, Head(s))], "keytext", Tail(s))

\* READ_TXT_UINT
Version(c, s) == IF Head(s) \notin Digits THEN At(c, "header", s)
                 ELSE At([c EXCEPT !.version = 10 * @ + Head(s) - 48], "version", Tail(s))

\* l_READ_GET_HEADER
InHeader(c, s) ==
    CASE Head(s) = LF -> At(c, "eol", Tail(s))
      [] Head(s) = LetterS -> At(c, "sec", Tail(s))
      [] OTHER -> At(c, "header", Tail(s))

\* What follows a first end of line: the rest of the packet is not read after
\* the second one.
AfterEol(c, s) ==
    CASE Head(s) = CR -> At(c, "eol", Tail(s))
      [] Head(s) = LF -> Ended(IF c.key # <<>> THEN Handshake(c) ELSE HttpGet(c))
      [] OTHER -> At(c, "header", s)

\* "Sec-WebSocket-Key: " and "Sec-WebSocket-Version: ": a letter that is not the
\* expected one is read again as any letter of the header.
Expect(c, s, letter, label) == IF Head(s) = letter THEN At(c, label, Tail(s)) ELSE At(c, "header", s)
Sec(c, s) == Expect(c, s, LetterE, "which")
Which(c, s) == IF Head(s) = LetterK THEN At(c, "keyname", Tail(s)) ELSE Expect(c, s, LetterV, "versionname")
KeyName(c, s) == Expect(c, s, Colon, "key")
VersionName(c, s) == Expect([c EXCEPT !.version = IF Head(s) = Colon THEN 0 ELSE @], s, Colon, "version")

\* ws_parse_frame_data, once the payload is there.
OpCode(c) == c.byte0 % 16
Frame(c) ==
    CASE OpCode(c) \in {1, 2} -> ParseMsg(c)
      [] OpCode(c) = 9 -> Ping(c)
      [] OpCode(c) = 10 -> c
      [] OTHER -> Stop(c)       \* closed by the client, or unknown
AfterFrame(c, s) == IF c.cont THEN At(c, "byte0", s) ELSE Ended(c)
EndFrame(c, s) == AfterFrame(Frame(c), s)

\* ws_loop
Byte0(c, s) == At([c EXCEPT !.byte0 = Head(s)], "byte1", Tail(s))

\* Where the payload or the key is, after the length.
AfterLength(c, s) ==
    CASE c.masked /\ c.length > MaxFrame -> Ended(TooBig(c))
      [] c.masked /\ c.length <= MaxFrame -> At([c EXCEPT !.mask = <<>>], "mask", s)
      [] ~ c.masked /\ c.length > 0 -> At([c EXCEPT !.data = <<>>], "sized", s)
      [] OTHER -> EndFrame([c EXCEPT !.data = <<>>], s)

\* ws_payload_length_..._bits
Length(c, s) ==
    IF c.more = 1
    THEN AfterLength([c EXCEPT !.length = (@ * 256 + Head(s)) % LengthWidth], Tail(s))
    ELSE At([c EXCEPT !.length = (@ * 256 + Head(s)) % LengthWidth, !.more = @ - 1], "length", Tail(s))

Byte1(c, s) ==
    LET n == Head(s) % 128
        d == [c EXCEPT !.masked = Head(s) >= 128, !.length = IF n < 126 THEN n ELSE 0,
                       !.more = IF n = 126 THEN 2 ELSE 8]
    IN  IF n < 126 THEN AfterLength(d, Tail(s)) ELSE At(d, "length", Tail(s))

\* ws_masking_key. websocket_data is what it was if the frame is empty.
MaskingKey(c, s) ==
    LET d == [c EXCEPT !.mask = Append(@, Head(s))]
    IN  IF Len(d.mask) < 4 THEN At(d, "mask", Tail(s))
        ELSE IF d.length = 0 THEN EndFrame(d, Tail(s))
        ELSE At([d EXCEPT !.data = <<>>, !.shift = 0], "masked", Tail(s))

Masked(c, s) ==
    LET d == [c EXCEPT !.data = Append(@, Head(s) ^^ c.mask[(c.shift % 4) + 1]),
                       !.shift = @ + 1, !.length = @ - 1]
    IN  IF d.length > 0 THEN At(d, "masked", Tail(s)) ELSE EndFrame(d, Tail(s))

\* READ_SIZED: what the packet has of it.
SizedLate(c, s) ==      \* a mutant: waits for one more byte
    IF c.length >= Len(s)
    THEN At([c EXCEPT !.data = @ \o s, !.length = @ - Len(s)], "sized", <<>>)
    ELSE EndFrame([c EXCEPT !.data = @ \o SubSeq(s, 1, c.length)], SubSeq(s, c.length + 1, Len(s)))
Sized(c, s) ==
    IF c.length > Len(s)
    THEN At([c EXCEPT !.data = @ \o s, !.length = @ - Len(s)], "sized", <<>>)
    ELSE EndFrame([c EXCEPT !.data = @ \o SubSeq(s, 1, c.length)], SubSeq(s, c.length + 1, Len(s)))

Step(c, s) ==
    CASE c.at = "first" -> First(c, s)
      [] c.at = "get" -> GetWord(c, s)
      [] c.at = "url" -> Url(c, s)
      [] c.at = "urltext" -> UrlText(c, s)
      [] c.at = "header" -> InHeader(c, s)
      [] c.at = "eol" -> AfterEol(c, s)
      [] c.at = "sec" -> Sec(c, s)
      [] c.at = "which" -> Which(c, s)
      [] c.at = "keyname" -> KeyName(c, s)
      [] c.at = "versionname" -> VersionName(c, s)
      [] c.at = "key" -> Key(c, s)
      [] c.at = "keytext" -> KeyText(c, s)
      [] c.at = "version" -> Version(c, s)
      [] c.at = "byte0" -> Byte0(c, s)
      [] c.at = "byte1" -> Byte1(c, s)
      [] c.at = "length" -> Length(c, s)
      [] c.at = "mask" -> MaskingKey(c, s)
      [] c.at = "masked" -> Masked(c, s)
      [] c.at = "sized" -> Sized(c, s)

RECURSIVE ReadAll(_)
ReadAll(r) == IF r.rest = <<>> THEN r.c ELSE ReadAll(Step(r.c, r.rest))

Parse(c, packet) == ReadAll([c |-> [c EXCEPT !.out = <<>>], rest |-> packet])

-----------------------------------------------------------------------------
\* The steps of the connection

\* call_SSL_write, on a queue that is framed: the TLS layer takes n bytes, all
\* of them or less than that if the socket is full.
Written(c, n) ==
    /\ conn' = [Taken(c, n) EXCEPT !.blocked = n < Len(c.cw), !.out = <<>>]
    /\ sent' = sent \o SubSeq(c.cw, 1, n)
    /\ said' = said \o c.out

Takes(cw) == {n \in Rooms : n < Len(cw)} \cup {Len(cw)}

\* flush: does nothing while the TLS layer is full.
Flush(c) ==
    \/ /\ c.blocked
       /\ conn' = [c EXCEPT !.out = <<>>] /\ said' = said \o c.out /\ UNCHANGED sent
    \/ /\ ~ c.blocked
       /\ \E n \in Takes(FrameCw(c).cw) : Written(FrameCw(c), n)

Request == Len(client.request)
Stream == client.request \o client.frames
\* The answer of the handshake, which the client waits for.
Answered == Len(sent) >= 2

\* call_SSL_read: a packet comes, which is parsed, and what it makes is sent.
Receive(n) ==
    LET packet == SubSeq(Stream, got + 1, got + n)
        c == Parse(conn, packet)
    IN  /\ conn.cont
        /\ got + n <= (IF got < Request THEN Request ELSE Len(Stream))
        /\ got >= Request => Answered
        /\ ~ (c.at = "masked" /\ c.data = <<>>)
        /\ got' = got + n
        /\ Flush(c)
        /\ UNCHANGED <<client, relays>>

\* Another session sends a message to this one, which has a dev.
LoggedIn == \E i \in DOMAIN conn.calls : conn.calls[i][1] = 2
RelayedOffer == WriteUnsigned(8) \o WriteDev(2) \o WriteString(<<115>>)
Relay ==
    /\ relays < MaxRelays /\ LoggedIn
    /\ relays' = relays + 1
    /\ Flush(Send([conn EXCEPT !.out = <<>>], RelayedOffer))
    /\ UNCHANGED <<client, got>>

\* out(): the socket has room.
Out ==
    /\ conn.blocked
    /\ \E n \in Takes(FrameCw(conn).cw) \ {0} : Written(FrameCw(conn), n)
    /\ UNCHANGED <<client, got, relays>>

WsNext == Relay \/ Out \/ \E n \in PacketSizes : Receive(n)
=============================================================================
