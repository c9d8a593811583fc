------------------------------ MODULE RbPeers ------------------------------
(***************************************************************************)
(* How two TypeScript clients come to talk: each may start a connection    *)
(* for its first command, at the same time as the other; offers and        *)
(* answers go through the tracker, in order, and through a web socket that *)
(* may not be open yet; commands wait in their connection until its data   *)
(* channel opens, which is external, and then arrive in any order.         *)
(*                                                                         *)
(* The candidates of ICE are left out: a channel opens some time after the *)
(* answer, on each side. Nothing closes: neither client handles it.        *)
(* MaxCommands bounds the commands of a client.                            *)
(***************************************************************************)
EXTENDS Integers, Sequences, Functions

CONSTANTS Sides,        \* the two clients
          MaxCommands

ASSUME PeersAssumption == MaxCommands \in Nat /\ \E a, b \in Sides : a # b /\ Sides = {a, b}

VARIABLES sock,     \* the web socket of each client
          peer,     \* its two PeerConnection with the other: initiator and answerer
          signal,   \* what the tracker has for it
          air,      \* packets on the data channels
          told,     \* how many commands it was given
          heard     \* the commands it received, in their order
peervars == <<sock, peer, signal, air, told, heard>>

Other(d) == CHOOSE e \in Sides : e # d
Kinds == {"initiator", "answerer"}
Across(kind) == IF kind = "initiator" THEN "answerer" ELSE "initiator"

\* What both a TrackerClient and a PeerConnection send through: commands are put
\* in a buffer that a timer sends, or wait for the opening, each in its own buffer.
NewLine == [open |-> FALSE, pending |-> <<>>, bw |-> <<>>]
SendCmd(l, cmd) ==
    IF l.open THEN [l EXCEPT !.bw = Append(@, cmd)] ELSE [l EXCEPT !.pending = Append(@, cmd)]
OpenedKeeps(l) == [l EXCEPT !.open = TRUE]   \* mutant: what waited still waits
Opened(l) == [l EXCEPT !.open = TRUE, !.pending = <<>>]
Emptied(l) == [l EXCEPT !.bw = <<>>]

\* A PeerConnection: its line, and how far its descriptions are.
NoConn == [made |-> FALSE, line |-> NewLine, described |-> FALSE, ready |-> FALSE]
MadeConn == [NoConn EXCEPT !.made = TRUE]

PeerInit ==
    /\ sock = [d \in Sides |-> NewLine]
    /\ peer = [d \in Sides |-> [k \in Kinds |-> NoConn]]
    /\ signal = [d \in Sides |-> <<>>]
    /\ air = {}
    /\ told = [d \in Sides |-> 0]
    /\ heard = [d \in Sides |-> <<>>]

-----------------------------------------------------------------------------
\* Which connection takes a command: one that is connected, then one that is
\* made, the answerer before the initiator; else a new initiator.
Chosen(d) ==
    LET has(k) == peer[d][k].made
        up(k) == peer[d][k].line.open
    IN  IF up("answerer") THEN "answerer"
        ELSE IF up("initiator") THEN "initiator"
        ELSE IF has("answerer") THEN "answerer" ELSE "initiator"

Tell(d) ==
    /\ told[d] < MaxCommands
    /\ told' = [told EXCEPT ![d] = @ + 1]
    /\ LET k == Chosen(d)
           c == IF peer[d][k].made THEN peer[d][k] ELSE MadeConn
       IN  peer' = [peer EXCEPT ![d][k] = [c EXCEPT !.line = SendCmd(@, <<d, told[d] + 1>>)]]
    /\ UNCHANGED <<sock, signal, air, heard>>

\* A description is made: the offer of an initiator, the answer of an answerer.
Describe(d, k) ==
    /\ peer[d][k].made /\ ~ peer[d][k].described
    /\ sock' = [sock EXCEPT ![d] = SendCmd(@, k)]
    /\ peer' = [peer EXCEPT ![d][k].described = TRUE, ![d][k].ready = (k = "answerer")]
    /\ UNCHANGED <<signal, air, told, heard>>

\* The web socket opens and sends what waited, or its timer fires.
SocketOpens(d) ==
    /\ ~ sock[d].open
    /\ signal' = [signal EXCEPT ![Other(d)] = @ \o sock[d].pending]
    /\ sock' = [sock EXCEPT ![d] = Opened(@)]
    /\ UNCHANGED <<peer, air, told, heard>>
SocketSends(d) ==
    /\ sock[d].open /\ sock[d].bw # <<>>
    /\ signal' = [signal EXCEPT ![Other(d)] = @ \o sock[d].bw]
    /\ sock' = [sock EXCEPT ![d] = Emptied(@)]
    /\ UNCHANGED <<peer, air, told, heard>>

\* recv_webrtc_offer makes the answerer if there is none yet, recv_webrtc_answer
\* gives the initiator its answer.
Signalled(d) ==
    /\ signal[d] # <<>>
    /\ signal' = [signal EXCEPT ![d] = Tail(@)]
    /\ peer' = IF Head(signal[d]) = "initiator"
               THEN [peer EXCEPT ![d]["answerer"] = IF @.made THEN @ ELSE MadeConn]
               ELSE [peer EXCEPT ![d]["initiator"].ready = TRUE]
    /\ UNCHANGED <<sock, air, told, heard>>

\* The data channel of a connection opens on this side: external.
ChannelOpens(d, k) ==
    /\ peer[d][k].ready /\ peer[Other(d)][Across(k)].ready /\ ~ peer[d][k].line.open
    /\ air' = air \cup {[to |-> Other(d), cmds |-> <<c>>] : c \in Range(peer[d][k].line.pending)}
    /\ peer' = [peer EXCEPT ![d][k].line = Opened(@)]
    /\ UNCHANGED <<sock, signal, told, heard>>
ChannelSends(d, k) ==
    /\ peer[d][k].line.open /\ peer[d][k].line.bw # <<>>
    /\ air' = air \cup {[to |-> Other(d), cmds |-> peer[d][k].line.bw]}
    /\ peer' = [peer EXCEPT ![d][k].line = Emptied(@)]
    /\ UNCHANGED <<sock, signal, told, heard>>
Hear(p) ==
    /\ air' = air \ {p}
    /\ heard' = [heard EXCEPT ![p.to] = @ \o p.cmds]
    /\ UNCHANGED <<sock, peer, signal, told>>

PeerNext ==
    \/ \E d \in Sides : \/ Tell(d) \/ SocketOpens(d) \/ SocketSends(d) \/ Signalled(d)
                       \/ \E k \in Kinds : Describe(d, k) \/ ChannelOpens(d, k) \/ ChannelSends(d, k)
    \/ \E p \in air : Hear(p)
PeerSpec == PeerInit /\ [][PeerNext]_peervars

-----------------------------------------------------------------------------
\* Where the commands of a client may be: in a connection that is not open yet, in
\* the buffer of one that is, in a packet to the other, heard.
Stores(d) ==
    ({"pending", "buffered"} \X Kinds) \cup ({"flies"} \X {p \in air : p.to # d})
    \cup {<<"heard", Other(d)>>}
In(d, s) ==
    CASE s[1] = "pending"  -> peer[d][s[2]].line.pending
      [] s[1] = "buffered" -> peer[d][s[2]].line.bw
      [] s[1] = "flies"    -> s[2].cmds
      [] s[1] = "heard"    -> heard[s[2]]

\* Every command is in one of them, once.
EachOnce(d) ==
    /\ UNION {Range(In(d, s)) : s \in Stores(d)} = {<<d, n>> : n \in 1 .. told[d]}
    /\ \A s, t \in Stores(d) : \A i \in DOMAIN In(d, s), j \in DOMAIN In(d, t) :
          In(d, s)[i] = In(d, t)[j] => s = t /\ i = j

\* A connection that is not open yet waits for something that comes: its
\* description, which travels to the other side, or the one of the other side.
Travels(d, k) == k \in Range(sock[d].pending) \cup Range(sock[d].bw) \cup Range(signal[Other(d)])
UnderWay(d, k) ==
    LET there == peer[Other(d)][Across(k)]
    IN  \/ ~ peer[d][k].described \/ Travels(d, k)
        \/ (there.made /\ ~ there.described) \/ Travels(Other(d), Across(k))
        \/ (peer[d][k].ready /\ there.ready)
NoneStuck(d) == \A k \in Kinds : peer[d][k].made /\ ~ peer[d][k].line.open => UnderWay(d, k)

\* What a client tells the other reaches it once, whoever starts the connection
\* and whether both do. PeerConnection.ts:8, TrackerClient.ts:29.
CommandsReach == \A d \in Sides : EachOnce(d) /\ NoneStuck(d)
=============================================================================
