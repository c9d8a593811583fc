-------------------------------- MODULE Udp --------------------------------
(***************************************************************************)
(* A socket of datagrams and its connections, one per address              *)
(* (RB/cpp/RiotBase/EvLoop/UdpSocket.h, UdpConnection.cpp): what cannot be *)
(* sent is queued in its connection, which goes to the list of those that  *)
(* wait for room. That list (System/CycleEndedList.h) is linked by `prev'  *)
(* and its last link points to itself: a connection is in a list if its    *)
(* prev is not null.                                                       *)
(***************************************************************************)
EXTENDS Integers, Sequences, FiniteSets

CONSTANTS
    Addrs,          \* model values
    NoAddr,         \* the null pointer
    SocketRoom,     \* how many datagrams the socket takes when it is empty
    MaxDatagrams    \* bound: datagrams of each connection

ASSUME UdpAssumption == /\ IsFiniteSet(Addrs) /\ NoAddr \notin Addrs
                        /\ {SocketRoom, MaxDatagrams} \subseteq Nat \ {0}

VARIABLES
    udp,        \* the socket and its connections
    written     \* what was flushed on each connection, in order

udpvars == <<udp, written>>

UdpInit ==
    /\ udp = [room |-> SocketRoom, broken |-> FALSE, gone |-> FALSE, wants |-> FALSE, ok |-> TRUE,
              last |-> NoAddr, prev |-> [a \in Addrs |-> NoAddr],
              pending |-> [a \in Addrs |-> <<>>], net |-> <<>>]
    /\ written = [a \in Addrs |-> <<>>]

\* operator<<: nothing if the connection is in a list.
ToList(u, a) ==
    IF u.prev[a] # NoAddr THEN u
    ELSE [u EXCEPT !.prev[a] = IF u.last = NoAddr THEN a ELSE u.last, !.last = a]

SendData(u, a, m) ==
    CASE u.broken -> [u EXCEPT !.gone = TRUE, !.ok = FALSE]
      [] ~ u.broken /\ u.room = 0 -> [ToList(u, a) EXCEPT !.wants = TRUE, !.ok = FALSE]
      [] OTHER -> [u EXCEPT !.room = @ - 1, !.net = Append(@, <<a, m>>), !.ok = TRUE]

Queued(u, a, m) == IF u.ok THEN u ELSE [u EXCEPT !.pending[a] = Append(@, m)]
SendMsg(u, a, m) == Queued(SendData(u, a, m), a, m)

\* flush, of a datagram that is complete: not after those that wait.
Flushed(a, m) ==
    /\ ~ udp.gone
    /\ udp' = SendMsg(udp, a, m)
    /\ written' = [written EXCEPT ![a] = Append(@, m)]

\* UdpConnection::out sends what waits, in its order, up to the first datagram
\* that is refused.
Accepted(u, a) == IF u.broken THEN 0
               ELSE IF u.room < Len(u.pending[a]) THEN u.room ELSE Len(u.pending[a])
Unqueued(u, a, n) ==
    [u EXCEPT !.room = @ - n,
              !.net = @ \o [i \in 1 .. n |-> <<a, u.pending[a][i]>>],
              !.pending[a] = SubSeq(@, n + 1, Len(@))]
ConnectionOut(u, a) ==
    LET rest == Unqueued(u, a, Accepted(u, a))
    IN  IF rest.pending[a] = <<>> THEN rest ELSE SendData(rest, a, Head(rest.pending[a]))

\* CycleEndedList::clear( op ): the prev of each connection is read before it
\* sends. The list, which has each of them once at most, is said to be empty when
\* all are done.
OneCleared(l) ==
    IF l.done THEN l
    ELSE LET p == l.u.prev[l.c]
         IN  [u |-> ConnectionOut([l.u EXCEPT !.prev[l.c] = NoAddr], l.c), c |-> p, done |-> p = l.c]
Cleared(u) ==
    LET f[i \in 0 .. Cardinality(Addrs)] ==
            IF i = 0 THEN [u |-> u, c |-> u.last, done |-> u.last = NoAddr] ELSE OneCleared(f[i - 1])
    IN  [f[Cardinality(Addrs)].u EXCEPT !.last = NoAddr]

\* UdpSocket::out, when the socket has room again.
SocketOut ==
    /\ udp.wants /\ ~ udp.gone /\ (udp.room > 0 \/ udp.broken)
    /\ udp' = Cleared([udp EXCEPT !.wants = FALSE])
    /\ UNCHANGED written

\* The kernel sends a datagram, or the next one will be refused.
KernelSends ==
    /\ udp.room < SocketRoom /\ udp' = [udp EXCEPT !.room = @ + 1] /\ UNCHANGED written
KernelRefuses ==
    /\ ~ udp.broken /\ udp' = [udp EXCEPT !.broken = TRUE] /\ UNCHANGED written

NewDatagram(a) == Len(written[a]) < MaxDatagrams /\ Flushed(a, Len(written[a]) + 1)

SocketMoves == SocketOut \/ KernelSends \/ KernelRefuses
UdpNext == SocketMoves \/ \E a \in Addrs : NewDatagram(a)
UdpSpec == UdpInit /\ [][UdpNext]_udpvars

-----------------------------------------------------------------------------
WasSent(a, m) == \E i \in DOMAIN udp.net : udp.net[i] = <<a, m>>
Waits(a, m) == \E i \in DOMAIN udp.pending[a] : udp.pending[a][i] = m

\* Each datagram that was flushed has been sent once or waits once, those that
\* wait keep their order, and a connection where some wait has a prev, whether
\* the list still holds it or not. UdpConnection.cpp:10 and 24.
DatagramsKept ==
    /\ \A i, j \in DOMAIN udp.net : udp.net[i] = udp.net[j] => i = j
    /\ \A a \in Addrs :
        /\ \A i \in DOMAIN written[a] : WasSent(a, written[a][i]) # Waits(a, written[a][i])
        /\ \A i, j \in DOMAIN udp.pending[a] : i < j => udp.pending[a][i] < udp.pending[a][j]
        /\ udp.pending[a] # <<>> /\ ~ udp.gone => udp.prev[a] # NoAddr
=============================================================================
