-------------------------------- MODULE Smtp --------------------------------
(***************************************************************************)
(* The client that sends a mail (RB/cpp/RiotBase/EvLoop/Smtp.cpp): parse() *)
(* is called with each packet, which is taken for one answer of the server *)
(* to the last command, and goes on after the answer it waited for. When   *)
(* it returns false the event loop deletes the connection (EvLoop.cpp:73   *)
(* and 86) unless it waits for room. Here the connection stays, and the    *)
(* next packet is tested like the last one: there are more behaviours.     *)
(*                                                                         *)
(* A character is a dot, an end of line or another one. The server, which  *)
(* is external, answers once to each command and to the mail; an answer    *)
(* may come in two packets, cut in the code, after it or between two lines *)
(* that have the same code.                                                *)
(***************************************************************************)
EXTENDS Integers, Sequences

CONSTANTS Mails     \* the texts to send

ASSUME MailsAssumption == Mails \subseteq Seq(STRING)

Dot == "."
Eol == "n"

\* The codes that parse() waits for, in order: greeting, HELO, AUTH LOGIN, user,
\* password, MAIL FROM, RCPT TO, DATA, content.
Codes == <<220, 250, 334, 334, 235, 250, 250, 354, 250>>
LastStep == Len(Codes)

VARIABLES
    mail,       \* [text, step, said, status]: the mail, the answer that is waited
                \* for, the commands that were written, the calls of cb
    server      \* [owes, tail, split, refused, read]: whether an answer is due, the
                \* codes that the rest of one may begin with, whether one came in two
                \* packets, whether one was a refusal, the mail as it was read

mailvars == <<mail, server>>

\* What the server has read: the text, and where it is: at the beginning of a line,
\* after the dot that begins one, inside one, after a dot alone in its line, or after
\* something that follows it.
Unread == [text |-> <<>>, at |-> "begin"]

SmtpInit ==
    /\ \E text \in Mails : mail = [text |-> text, step |-> 1, said |-> <<>>, status |-> <<>>]
    /\ server = [owes |-> TRUE, tail |-> {}, split |-> FALSE, refused |-> FALSE, read |-> Unread]

LineDotAfterEol(s, i) == i > 1 /\ s[i] = Dot /\ s[i - 1] = Eol   \* mutant: the first line is left alone
\* A dot that begins a line is doubled; the text ends with a line of one dot.
LineDot(s, i) == s[i] = Dot /\ (i = 1 \/ s[IF i = 1 THEN 1 ELSE i - 1] = Eol)
Stuffed(s, i) == IF LineDot(s, i) THEN <<Dot, s[i]>> ELSE <<s[i]>>
Content(s) ==
    LET f[i \in 0 .. Len(s)] == IF i = 0 THEN <<>> ELSE f[i - 1] \o Stuffed(s, i)
    IN  f[Len(s)] \o <<Eol, Dot, Eol>>

\* parse: code is 0 for a packet that does not begin with a number.
Fails(code) ==
    /\ code # Codes[mail.step]
    /\ mail' = [mail EXCEPT !.status = Append(@, mail.step)]
GoesOn(code) ==
    /\ code = Codes[mail.step]
    /\ mail' = [mail EXCEPT !.said = Append(@, mail.step), !.step = IF @ = LastStep THEN @ ELSE @ + 1]
Packet(code) == Fails(code) \/ GoesOn(code)

-----------------------------------------------------------------------------
\* The server reads the content one character at a time; it drops the dot that
\* begins a line, and a dot alone in its line ends the mail.
ReadChar(r, c) ==
    CASE r.at \in {"done", "over"} -> [r EXCEPT !.at = "over"]
      [] r.at = "dot" /\ c = Eol -> [r EXCEPT !.at = "done"]
      [] r.at = "begin" /\ c = Dot -> [r EXCEPT !.at = "dot"]
      [] OTHER -> [text |-> Append(r.text, c), at |-> IF c = Eol THEN "begin" ELSE "inside"]
ReadContent(s) ==
    LET r[i \in 0 .. Len(s)] == IF i = 0 THEN Unread ELSE ReadChar(r[i - 1], s[i])
    IN  r[Len(s)]

Said == Len(mail.said)
Quit == Said > 0 /\ mail.said[Said] = LastStep
Reads(n) == IF n = 8 THEN ReadContent(Content(mail.text)) ELSE server.read

\* A server that has refused a command waits for the next one.
Serves(code, tail) ==
    server' = [owes    |-> mail'.said # mail.said,
               tail    |-> tail,
               split   |-> server.split \/ tail # {},
               refused |-> server.refused \/ code # Codes[mail.step],
               read    |-> IF mail'.said # mail.said THEN Reads(mail.step) ELSE server.read]
Answers(code) ==
    /\ server.owes /\ server.tail = {}
    /\ \/ Packet(code) /\ Serves(code, {})
       \/ Packet(code) /\ Serves(code, {0, code})
       \/ Packet(0) /\ Serves(code, {0})
Rest ==
    /\ \E code \in server.tail : Packet(code)
    /\ server' = [server EXCEPT !.tail = {}]

\* What it answers, or refuses, to the last command; to QUIT, 221.
Replies == IF Quit THEN {221} ELSE {Codes[mail.step], 500}

SmtpNext == Rest \/ \E code \in Replies : Answers(code)
SmtpSpec == SmtpInit /\ [][SmtpNext]_mailvars

-----------------------------------------------------------------------------
\* The text is sent after every answer that must come before it; the server reads
\* it as it is, whatever lines of dots it has, and nothing after it. While each
\* answer is one packet, cb is called once at most and, before QUIT, with a failure
\* if and only if the server has refused something. Smtp.cpp:61 and 112.
MailRight ==
    /\ \A i \in DOMAIN mail.said : i < LastStep => mail.said[i] = i
    /\ server.read # Unread => server.read = [text |-> Append(mail.text, Eol), at |-> "done"]
    /\ ~ server.split => Len(mail.status) <= 1
    /\ ~ server.split /\ ~ Quit => (mail.status # <<>> <=> server.refused)
=============================================================================
