----------------------------- MODULE MCRiotBase -----------------------------
(***************************************************************************)
(* The parts of RiotBase in one run: `part` says which one moves, the      *)
(* others keep their initial state.                                        *)
(***************************************************************************)
EXTENDS RbString, WsConnection, Dns, Smtp, Containers, RbClient, RbPeers, Functions

CONSTANTS
    Parts,              \* which ones move
    Tried,              \* the numbers that are written and read
    MaxLen, MaxPatch    \* bounds of the texts and of the patches of strings

VARIABLES number, part

-----------------------------------------------------------------------------
\* The C++ merger of strings over every text of at most MaxLen characters, every
\* patch of one operation of ann and every parallel patch of at most MaxPatch
\* operations of bob.

VARIABLES
    base, old, new, \* a string, what ann and bob did to it in parallel
    atAnn, atBob,   \* the merger of each of them, once it has both
    taken           \* no operation of bob ends void or is refused on the way

stringvars == <<base, old, new, atAnn, atBob, taken>>

MCWho == {"ann", "bob", "nobody"}

Numbers(n) == [i \in 1 .. n |-> i]

(* Cursor 1 belongs to ann; bob may do everything or may only append. *)
Bases ==
    {[text    |-> Numbers(n),
      cursors |-> [c \in {1} |-> [pos |-> p, usr |-> "ann"]],
      rights  |-> [ann |-> Rights, bob |-> r, nobody |-> {}]] :
        n \in 0 .. MaxLen, p \in {0, 2}, r \in {Rights, {"read", "append"}}}

TextOps(w, usr, x) ==
    {UserInsert(w, usr, p, s) : p \in 0 .. Len(w.text), s \in {<<x>>, <<x, x + 1>>}} \cup
    {UserRemove(w, usr, p, l) : p \in 0 .. Len(w.text), l \in 1 .. Len(w.text)}

CursorOpsOf(w, usr) ==
    {UserSetCursor(w, usr, 1, p) : p \in {0, 1, Len(w.text)}} \cup
    {UserNewCursor(w, usr, IF usr = "ann" THEN 2 ELSE 3, p) : p \in {0, 1}} \cup
    {UserRemCursor(w, usr, 1)}

RightOpsOf(w, usr) ==
    {UserAddRight(w, usr, who, {f}) : who \in {"bob", "nobody"}, f \in {"insert", "remove"}} \cup
    {UserRemRight(w, usr, who, {f}) : who \in {"bob", "nobody"}, f \in {"insert", "remove"}}

Steps(w, usr, x) == TextOps(w, usr, x) \cup CursorOpsOf(w, usr) \cup RightOpsOf(w, usr)

Patches(w, usr, x) == {r.ops : r \in Steps(w, usr, x)}

TwoOps(w, usr, x) ==
    UNION {{r.ops \o q.ops : q \in TextOps(r.w, usr, x + 10)} : r \in TextOps(w, usr, x)}

Real == Redo(base, old, "ann")
Imag == Redo(base, new, "bob")

(* Where ann works: her patch is there, that of bob comes. *)
MergedByAnn(real, o, n) == NewPatch([Merger(real) EXCEPT !.unk = o], Message(n), "bob", FALSE)

(* Where bob works: his patch is undone, hers comes, his is done again. *)
MergedByBob(imag, o, n) ==
    UnkPatch(NewPatch(Merger(Undo(imag, n, "bob")), Message(o), "ann", TRUE), n, "bob", FALSE)

IsTaken(a) == Valid(a.n) /\ RightTo(a.w, a.n, "bob")
AllTaken(real, o, n) ==
    \A i \in DOMAIN n :
        IsTaken(Against(MergePatch(real, o, Message(SubSeq(n, 1, i - 1)), "bob", TRUE),
                        Sent(n[i]), "bob"))

Init ==
    /\ base \in {b \in Bases : Len(b.text) >= b.cursors[1].pos}
    /\ old = <<>> /\ new = <<>> /\ taken = TRUE
    /\ atAnn = Merger(base) /\ atBob = Merger(base)

Choose ==
    /\ old = <<>> /\ new = <<>>
    /\ old' \in Patches(base, "ann", 100)
    /\ new' \in Patches(base, "bob", 200)
                \cup (IF MaxPatch > 1 THEN TwoOps(base, "bob", 200) ELSE {})
    /\ atAnn' = MergedByAnn(Redo(base, old', "ann"), old', new')
    /\ atBob' = MergedByBob(Redo(base, new', "bob"), old', new')
    /\ taken' = AllTaken(Redo(base, old', "ann"), old', new')
    /\ UNCHANGED base

-----------------------------------------------------------------------------

(* Both get the same text and the same rights, although ann merges what    *)
(* was sent (lengths only) as new, and bob what he stored (the removed     *)
(* texts) as unknown. OtWrapper.h:352 and 381.                             *)
SidesAgree == atAnn.w.text = atBob.w.text /\ atAnn.w.rights = atBob.w.rights

(* Their cursors are at the same places, provided that bob undoes no       *)
(* removal: what a removal does to a cursor cannot be undone.              *)
(* OtWrapperString.cpp:132 and 143, test_String.cpp:237.                   *)
CursorsAgree ==
    (\A i \in DOMAIN new : new[i].op # "remove_und") => atAnn.w.cursors = atBob.w.cursors

(* Both store the same operations for a patch on the text: the removed     *)
(* text that ann reads in her string is the one that bob cuts in his log.  *)
(* OtWrapperString.cpp:205 and 502.                                        *)
LogsAgree ==
    (\A o \in Range(old \o new) : o.op \in {"insert", "remove_und"}) /\ taken
        => atAnn.res = atBob.res

(* OtWrapper.h:357, "2) make cq_unk'": the patch of ann, rewritten, can be *)
(* done where hers is not known yet and gives the merged string.           *)
UnkFits ==
    taken => LET w == Redo(Imag, atAnn.unk, "ann")
                IN  w.text = atAnn.w.text /\ w.rights = atAnn.w.rights

(* What is stored undoes what was merged: the rights always, the text      *)
(* when nothing was dropped on the way. OtWrapper.h:458.                   *)
MergeUndoes ==
    LET w == Undo(atAnn.w, atAnn.res, "bob")
    IN  w.rights = Real.rights /\ (taken => w.text = Real.text)

IsText(o) == o.op = "insert" \/ (o.op = "remove_und" /\ o.str # <<>>)
Past(o) == o.pos + LenOf(o)
Apart(o, n) ==
    CASE o.op = "insert" -> TRUE
      [] n.op = "insert" -> n.pos <= o.pos \/ n.pos > Past(o)
      [] OTHER           -> Past(o) <= n.pos \/ Past(n) <= o.pos

(* OtWrapper.h:440, "make unk' (unk after std)": the unknown patch of ann  *)
(* put after a patch of bob that was stored after it gives the same text,  *)
(* unless bob changed what she removed, up to its end.                     *)
StdFits ==
    Len(old) = 1 /\ Len(new) = 1 /\ (\A o \in Range(old \o new) : IsText(o)) /\ taken
        => (Apart(old[1], new[1]) =>
              Redo(Imag, StdPatch([Merger(base) EXCEPT !.unk = old], atAnn.res, "bob").unk, "ann").text
                = atAnn.w.text)

(* The merge converges: both sides show one text with the same rights and  *)
(* cursors, and their logs keep the same operations, which undo what was   *)
(* merged; the unknown patch is carried along rightly, through a patch     *)
(* that is new and through one that is known on both sides.                *)
(* OtWrapper.h:352, 357, 381 and 440, OtWrapperString.cpp:233.             *)
Converge ==
    /\ SidesAgree /\ CursorsAgree /\ LogsAgree
    /\ MergeUndoes
    /\ UnkFits /\ StdFits

-----------------------------------------------------------------------------
\* What the connection must have understood: the request and the frames read
\* as a whole.

Min2(S) == CHOOSE x \in S : \A y \in S : x <= y
Max2(S) == CHOOSE x \in S : \A y \in S : y <= x

\* The request ends with two ends of line.
EndsOf(s) == {i \in 2 .. Len(s) : s[i] = LF /\ \E j \in 1 .. i - 1 :
                 s[j] = LF /\ \A k \in j + 1 .. i - 1 : s[k] = CR}
WordAt(s, i) == LET ends == {j \in i .. Len(s) : s[j] \in EndOfWord}
                IN  SubSeq(s, i, (IF ends = {} THEN Len(s) + 1 ELSE Min2(ends)) - 1)
KeyLine == <<LetterS, LetterE, LetterK, Colon>>
KeysOf(s) == {i \in 1 .. Len(s) - 3 : SubSeq(s, i, i + 3) = KeyLine}

RECURSIVE BigEndian(_)
BigEndian(s) == IF s = <<>> THEN 0 ELSE 256 * BigEndian(SubSeq(s, 1, Len(s) - 1)) + s[Len(s)]

RECURSIVE Commands(_)
Commands(s) ==
    IF s = <<>> THEN <<>>
    ELSE LET r == ReadArgs(Reader(Tail(s)), ArgTypes[Head(s)])
         IN  <<<<Head(s), r.args>>>> \o Commands(Tail(r.rest))

\* How many bytes hold the length of a frame after its first two.
Extended(s) == CASE s[2] % 128 = 126 -> 2 [] s[2] % 128 = 127 -> 8 [] OTHER -> 0
SizeOf(s) == IF Extended(s) = 0 THEN s[2] % 128 ELSE BigEndian(SubSeq(s, 3, 2 + Extended(s)))
IsMasked(s) == s[2] >= 128
HeadOf(s) == 2 + Extended(s) + (IF IsMasked(s) THEN 4 ELSE 0)
Unmasked(s, key) == [i \in 1 .. Len(s) |-> s[i] ^^ key[((i - 1) % 4) + 1]]
PayloadOf(s) ==
    LET raw == SubSeq(s, HeadOf(s) + 1, HeadOf(s) + SizeOf(s))
    IN  IF IsMasked(s) THEN Unmasked(raw, SubSeq(s, HeadOf(s) - 3, HeadOf(s))) ELSE raw

\* The commands of the frames that are there whole.
RECURSIVE Frames(_)
Frames(s) ==
    IF Len(s) < 2 \/ (Len(s) >= 2 /\ Len(s) < HeadOf(s)) THEN <<>>
    ELSE IF Len(s) < HeadOf(s) + SizeOf(s) THEN <<>>
    ELSE (IF s[1] % 16 \in {1, 2} THEN Commands(PayloadOf(s)) ELSE <<>>)
         \o Frames(SubSeq(s, HeadOf(s) + SizeOf(s) + 1, Len(s)))

Understood(s) ==
    LET url == WordAt(s, 3)
        keys == KeysOf(s)
        key == WordAt(s, Max2(keys) + 4)
    IN  IF EndsOf(s) = {} THEN <<>>
        ELSE IF keys # {} THEN <<<<Shaken, key>>>> \o Frames(SubSeq(s, Min2(EndsOf(s)) + 1, Len(s)))
        ELSE IF Head(url) = 114 THEN <<<<Confirmed, Tail(url)>>>>
        ELSE <<>>

\* What the client makes of what it receives: the answer, and what the frames
\* that follow it hold.
RECURSIVE Payloads(_)
Payloads(s) ==
    IF s = <<>> THEN <<>>
    ELSE PayloadOf(s) \o Payloads(SubSeq(s, HeadOf(s) + SizeOf(s) + 1, Len(s)))
Received(c, s) == IF c.ws THEN SubSeq(s, 1, 2) \o Payloads(SubSeq(s, 3, Len(s))) ELSE s

-----------------------------------------------------------------------------
\* Each command of a frame, and the request before them, is understood as it was
\* sent, whatever the packets but one that ends right after the masking key of a
\* frame (line 158), where the code is wrong and Receive does not cut.
\* TrackerServerTcpConnection.cpp:31.
CallsRight == conn.calls = Understood(SubSeq(Stream, 1, got))

\* The client gets the answer to its request and the messages as they were
\* written, each part in one frame, up to the first control frame: a pong or a
\* close comes in a binary frame, so the client does not get the "opcode pong" and
\* the "opcode close" of the comments (lines 300 and 313). It gets nothing else
\* when no control frame was written. TrackerServerTcpConnection.cpp:228.
Messages == LET controls == {i \in DOMAIN said : said[i] = Control}
            IN  IF controls = {} THEN said ELSE SubSeq(said, 1, Min2(controls) - 1)
AnswersRight == LET got1 == Received(conn, sent \o FrameCw(conn).cw)
                IN  /\ SubSeq(got1, 1, Len(Messages)) = Messages
                    /\ Messages = said => got1 = said

-----------------------------------------------------------------------------
Sealed(msg) == msg \o <<Sum(msg)>>
Masking(key, s) == key \o Unmasked(s, key)
Get(url) == <<LetterG, LetterE>> \o url \o <<Space>>
SecKey(word) == KeyLine \o word
Login == Sealed(<<2>> \o WriteString(<<97>>) \o WriteString(<<98>>))
Bind == Sealed(<<4>> \o WriteInode([num |-> 200, dev |-> 1]) \o <<1>> \o WriteDev(2) \o <<5, 0>>)
Offer == Sealed(<<9>> \o WriteDev(2) \o WriteString(<<99, 100>>))
Ice == Sealed(<<8>> \o WriteDev(3) \o <<255>> \o WriteString(<<>>))

Talk == [request |-> Get(<<47>>) \o <<83, 13, 10>> \o SecKey(<<75, 83>>) \o <<13, 10, 13, 10>>,
         frames |-> <<130, 128 + Len(Login)>> \o Masking(<<1, 2, 4, 8>>, Login)
                    \o <<129, 126, 0, Len(Offer \o Bind)>> \o Offer \o Bind]
Long == [request |-> Get(<<47, 120>>) \o <<10>> \o SecKey(<<97>>) \o <<Space, LetterS, LetterE, LetterV, Colon, 49, 51, 10, 10>>,
         frames |-> <<130, Len(Ice)>> \o Ice \o <<138, 0>>
                    \o <<130, 255, 0, 0, 0, 0, 0, 0, 0, Len(Login)>> \o Masking(<<9, 9, 0, 1>>, Login)
                    \o <<130, 128>> \o <<3, 3, 3, 3>> \o <<130, 2>> \o Sealed(<<3>>) \o <<136, 0>>]
Big == [request |-> Get(<<>>) \o SecKey(<<Space, LetterS>>) \o <<10, LetterS, LetterS, LetterE, LetterK, Colon, 98, 10, 13, 10>>,
        frames |-> <<130, 254, 0, 41, 1, 1, 1>>]
Pinging == [request |-> Get(<<>>) \o SecKey(<<98>>) \o <<10, 10>>,
            frames |-> <<130, 2>> \o Sealed(<<3>>) \o <<137, 129, 4, 4, 4, 4, 7>> \o <<130, 2>> \o Sealed(<<3>>)
                       \o <<137, 0>> \o <<130, Len(Ice)>> \o Ice]
Page == [request |-> Get(<<120>>) \o <<10, 10>>, frames |-> <<>>]
Confirm == [request |-> Get(Register \o <<120, 121>>) \o <<10, 13, 10>>, frames |-> <<>>]
Wrong == [request |-> <<LetterG, 13>>, frames |-> <<>>]
MCClients == {Talk, Long, Big, Pinging, Page, Confirm, Wrong}

MCOtherDevs == <<2, 3>>

\* The names: one with its addresses, one that is another name's, one with none.
MCNames == {"dev", "www", "none"}
Rec(name, type, addr) == [name |-> name, type |-> type, addr |-> addr]
MCZone == [n \in MCNames |->
    CASE n = "dev" -> <<Rec("dev", "A", 1), Rec("", "SOA", 0), Rec("dev", "AAAA", 6), Rec("dev", "A", 2)>>
      [] n = "www" -> <<Rec("www", "A", 3), Rec("www", "CNAME", 0), Rec("alias", "A", 4)>>
      [] n = "none" -> <<>>]

MCParts == {"strings", "ws", "numbers", "udp", "dns", "mails", "vec", "list", "heap", "client", "peers"}
MCTried == 0 .. 130 \cup UNION {{2 ^ k - 1, 2 ^ k, 2 ^ k + 1} : k \in {8, 13, 14, 15, 16, 20, 21, 22}}

\* Two devices that edit twice; two that edit once and one that listens; and these
\* all linked, so that a patch comes from its author and through the others.
TwoEdits == 1 :> 2 @@ 2 :> 2
Listener == 1 :> 1 @@ 2 :> 0 @@ 3 :> 1
MCSessions == [edits : {TwoEdits, Listener}, linked : {FALSE}]
              \cup [edits : {1 :> 1 @@ 2 :> 1 @@ 3 :> 0}, linked : {TRUE}]

MCMails == UNION {[1 .. n -> {Dot, Eol, "x"}] : n \in 0 .. 2} \cup {<<Eol, Dot, Eol>>, <<Eol, Dot, Dot>>}

-----------------------------------------------------------------------------
MCInit ==
    /\ part \in Parts
    \* What does not move keeps one initial state.
    /\ Init /\ (part # "strings" => base.text = <<>> /\ base.rights["bob"] = Rights)
    /\ WsInit /\ (part # "ws" => client = Page)
    /\ UdpInit /\ DnsInit
    /\ SmtpInit /\ (part # "mails" => mail.text = <<>>)
    /\ ContainersInit /\ (part # "heap" => heap.size = ChunkSize)
    /\ ClientInit /\ (part # "client" => edits = TwoEdits)
    /\ PeerInit
    /\ number \in (IF part = "numbers" THEN Tried ELSE {0})

\* All the parts but one keep their state.
cvars == <<vecvars, listvars, heap>>
StringsMove == part = "strings" /\ Choose /\ UNCHANGED <<wsvars, udpvars, dnsvars, mailvars, cvars>>
WsMoves == part = "ws" /\ WsNext /\ UNCHANGED <<stringvars, udpvars, dnsvars, mailvars, cvars>>
UdpMoves == part = "udp" /\ UdpNext /\ UNCHANGED <<stringvars, wsvars, dnsvars, mailvars, cvars>>
DnsMoves == part = "dns" /\ ResolverMoves /\ UNCHANGED <<stringvars, wsvars, mailvars, cvars>>
MailsMove == part = "mails" /\ SmtpNext /\ UNCHANGED <<stringvars, wsvars, udpvars, dnsvars, cvars>>
NetworkStays == UNCHANGED <<stringvars, wsvars, udpvars, dnsvars, mailvars>>
VecMoves == part = "vec" /\ VecNext /\ NetworkStays /\ UNCHANGED <<listvars, heap>>
ListMoves == part = "list" /\ ListNext /\ NetworkStays /\ UNCHANGED <<vecvars, heap>>
HeapMoves == part = "heap" /\ HeapNext /\ NetworkStays /\ UNCHANGED <<vecvars, listvars>>
ClientMoves == part = "client" /\ ClientNext /\ UNCHANGED peervars
PeersMove == part = "peers" /\ PeerNext /\ UNCHANGED clientvars

MCNext ==
    /\ \/ /\ \/ StringsMove \/ WsMoves \/ UdpMoves \/ DnsMoves \/ MailsMove
             \/ VecMoves \/ ListMoves \/ HeapMoves
          /\ UNCHANGED <<clientvars, peervars>>
       \/ (ClientMoves \/ PeersMove) /\ NetworkStays /\ UNCHANGED cvars
    /\ UNCHANGED <<part, number>>

MCSpec == MCInit /\ [][MCNext]_<<part, number, stringvars, wsvars, udpvars, dnsvars, mailvars, containervars,
                                clientvars, peervars>>

-----------------------------------------------------------------------------
\* What RiotBase sends for a number is read back, whatever follows it; a number
\* or a string that is cut is never taken for a whole one; the room that is
\* reserved for a number is what it takes. Two values are not: a signed byte from
\* 64 on, and the least value of a larger type. BinStream.h:36, 145, 244 and 297.
Lost(v, half) == IF half = 128 THEN v >= 64 ELSE v = - half
ReadsBack(r, v, rest) == r.ok /\ LastOf(r) = v /\ r.rest = rest
NumbersKept ==
    LET w == WriteUnsigned(number)
        s == WriteString(SubSeq(w, 1, 1) \o w)
    IN  /\ \A rest \in {<<>>, <<200>>} :
              /\ ReadsBack(ReadUnsigned(Reader(w \o rest)), number, rest)
              /\ SkipUnsigned(Reader(w \o rest)).rest = rest
              /\ ReadUnsignedWithin(Reader(w \o rest), 9).l = 9 - Len(w)
              /\ ReadsBack(ReadString(Reader(s \o rest)), Tail(s), rest)
              /\ ReadStringUpTo(Reader(s \o rest), Len(s) - 2).ok = FALSE
              /\ \A half \in {128, 32768, 2097152} : \A v \in {number, - number} :
                    v >= - half /\ v < half /\ ~ Lost(v, half) =>
                      /\ ReadsBack(ReadSigned(Reader(WriteSigned(v, half) \o rest), half), v, rest)
                      /\ ReadSignedWithin(Reader(WriteSigned(v, half) \o rest), 9, half).l
                            = 9 - Len(WriteSigned(v, half))
              /\ ReadsBack(ReadLe(Reader(WriteLe(number, 3) \o rest), 3), number % 2 ^ 24, rest)
        /\ SizeNeeded(number) = Len(w)
        /\ \A n \in 0 .. Len(w) - 1 : ~ ReadUnsigned(Reader(SubSeq(w, 1, n))).ok
        /\ \A n \in 0 .. Len(s) - 1 : ~ ReadString(Reader(SubSeq(s, 1, n))).ok

\* What a client and a connection say to each other is understood: the commands
\* of its frames however they are cut in packets (but right after a masking key),
\* the answers and the messages of other sessions however they are taken by the
\* TLS layer, up to the first pong or close of the connection, which is not sent as
\* one; and the numbers they are made of. TrackerServerTcpConnection.cpp:129 and 228.
FormatsRight ==
    /\ part = "ws" => CallsRight /\ AnswersRight
    /\ part = "numbers" => NumbersKept

=============================================================================
