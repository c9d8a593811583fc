-------------------------------- MODULE TcpSsl --------------------------------
(***************************************************************************)
(* One TLS connection of the event loop (EvLoop/TcpSslConnection.cpp): a   *)
(* read or a write of the TLS library may have to wait for the other       *)
(* direction of the socket, and epoll only reports changes (EPOLLET).      *)
(*                                                                         *)
(* The library is external, described by what the connection sees of it:   *)
(* it needs `need' more handshake records before data flows, and owes a    *)
(* record when the peer asked for one. Each call of it is a step: records  *)
(* and acknowledgements arrive between any two.                            *)
(***************************************************************************)
EXTENDS Naturals, Sequences

CONSTANTS
    Handshake,  \* records of the peer a handshake takes
    Room,       \* records the send buffer of the socket holds
    MaxRecords, \* records of the peer after the handshake: bound of the model
    MaxData     \* chunks the connection may have to send: bound of the model

ASSUME TcpSslAssumption ==
    {Handshake, Room, MaxRecords, MaxData} \subseteq Nat /\ Room > 0

VARIABLES
    sock,       \* in: records not read, snd: records not acknowledged, full: a write was refused
    told,       \* epoll has something to report
    lib,        \* the state of the TLS library: need, owe; sent: the peer has been spoken to, or speaks first
    conn,       \* state_SSL_write, state_SSL_read, cw, waiting, first (waiting_for_connection), over (errors),
                \* stop (parse wants no more)
    at,         \* what the thread is doing
    back,       \* what it does once call_SSL_write returns
    mask,       \* what epoll reported
    left        \* records the peer may still send: handshake and data

sslvars == <<sock, told, lib, conn, at, back, mask, left>>

Writable == sock.snd < Room
Readable == sock.in # <<>>

-------------------------------------------------------------------------------
(* The peer. It answers the handshake record by record, each once this side *)
(* has read the one before; then it may send data, ask for a record (a new  *)
(* key), or close.                                                          *)

Alive == at \notin {"closed", "idle"}

Receive(r) ==
    /\ sock' = [sock EXCEPT !.in = Append(@, r)] /\ told' = TRUE
    /\ UNCHANGED <<lib, conn, at, back, mask>>

HandshakeArrives ==
    /\ Alive /\ left.hs > 0 /\ lib.sent /\ ~Readable
    /\ Receive("hs") /\ left' = [left EXCEPT !.hs = @ - 1]

RecordArrives(r) ==
    /\ Alive /\ left.hs = 0 /\ left.rec > 0
    /\ Receive(r) /\ left' = [left EXCEPT !.rec = IF r = "close" THEN 0 ELSE @ - 1]

Acknowledged ==
    /\ Alive /\ sock.snd > 0
    /\ sock' = [sock EXCEPT !.snd = @ - 1, !.full = FALSE]
    /\ told' = (told \/ sock.full)
    /\ UNCHANGED <<lib, conn, at, back, mask, left>>

-------------------------------------------------------------------------------
(* The library: what a call of SSL_read or SSL_write (do) returns, and the   *)
(* socket and the library afterwards.                                        *)

Result(r, in, snd, full, l) ==
    [is |-> r, sock |-> [in |-> in, snd |-> snd, full |-> full], lib |-> l]

Call(do) ==
    LET free == [lib EXCEPT !.owe = FALSE, !.sent = TRUE]
        snd == IF lib.owe THEN sock.snd + 1 ELSE sock.snd
        got == IF Readable THEN Head(sock.in) ELSE "none"
        res(r, l) == Result(r, IF Readable THEN Tail(sock.in) ELSE <<>>, snd, sock.full, l)
        same(r, l) == Result(r, sock.in, snd, sock.full, l)
    IN IF lib.owe /\ ~Writable THEN Result("want_write", sock.in, sock.snd, TRUE, lib)
       ELSE IF lib.need > 0 THEN
            IF got = "hs" THEN res("again", [free EXCEPT !.need = @ - 1]) ELSE same("want_read", free)
       ELSE IF do = "write" THEN
            IF snd < Room THEN Result("none", sock.in, snd + 1, sock.full, free)
            ELSE Result("want_write", sock.in, snd, TRUE, free)
       ELSE CASE got = "data"  -> res("none", free)
              [] got = "ask"   -> res("again", [free EXCEPT !.owe = TRUE])
              [] got = "close" -> res("zero", free)
              [] got = "none"  -> same("want_read", free)

-------------------------------------------------------------------------------
(* The connection. *)

SslInit ==
    /\ sock = [in |-> <<>>, snd |-> 0, full |-> FALSE] /\ told = TRUE
    /\ lib \in [need : {Handshake}, owe : {FALSE}, sent : BOOLEAN]
    /\ conn \in [write : {"ok"}, read : {"ok"}, cw : 0 .. MaxData, waiting : {{"inp"}},
                first : {TRUE}, over : {FALSE}, stop : {FALSE}]
    /\ at = "wait" /\ back = "wait" /\ mask = {}
    /\ left = [hs |-> Handshake, rec |-> MaxRecords]

(* epoll_wait. A socket it finds full will tell when it is not any more. *)
Poll ==
    /\ at = "wait" /\ told
    /\ mask' = {f \in {"out", "inp"} : (f = "out" /\ Writable) \/ (f = "inp" /\ Readable)}
    /\ sock' = [sock EXCEPT !.full = @ \/ ~Writable]
    /\ told' = FALSE /\ at' = "out"
    /\ UNCHANGED <<lib, conn, back, left>>

(* out() up to the calls of the library: the first time, the handshake is started. *)
StartOut ==
    /\ at = "out"
    /\ IF "out" \in mask
       THEN /\ at' = IF conn.read = "wants_out" THEN "out_read" ELSE "out_write"
            /\ conn' = [conn EXCEPT !.waiting = @ \ {"out"}, !.first = FALSE]
            /\ lib' = [lib EXCEPT !.sent = TRUE]
       ELSE at' = "inp" /\ UNCHANGED <<conn, lib>>
    /\ UNCHANGED <<sock, told, back, mask, left>>

(* The writing of out(): worthless if what is missing is something to read. *)
WriteInOut ==
    /\ at = "out_write"
    /\ IF conn.write # "wants_inp" THEN at' = "write" /\ back' = "inp"
       ELSE at' = "inp" /\ UNCHANGED back
    /\ UNCHANGED <<sock, told, lib, conn, mask, left>>

(* inp(): a write that waits for something to read goes first. *)
StartInp ==
    /\ at = "inp"
    /\ IF "inp" \in mask /\ ~conn.over
       THEN /\ conn' = [conn EXCEPT !.waiting = @ \ {"inp"}]
            /\ IF conn.write = "wants_inp" THEN at' = "write" /\ back' = "inp_read"
               ELSE at' = "inp_read" /\ UNCHANGED back
       ELSE at' = "end" /\ UNCHANGED <<conn, back>>
    /\ UNCHANGED <<sock, told, lib, mask, left>>

(* A careless inp(): a read that waits for something to read is left to out(). *)
ReadInInpOnce ==
    /\ at = "inp_read"
    /\ at' = IF conn.read = "ok" THEN "read" ELSE "end"
    /\ UNCHANGED <<sock, told, lib, conn, back, mask, left>>

ReadInInp ==
    /\ at = "inp_read"
    /\ at' = IF conn.read # "wants_out" THEN "read" ELSE "end"
    /\ UNCHANGED <<sock, told, lib, conn, back, mask, left>>

(* A careless flush, which never writes. *)
FlushesNot(w) == FALSE

(* flush(), after parse: only if no write is waiting. *)
Flushes(w) == w = "ok"

(* call_SSL_write, one turn of its loop *)
SslWrite ==
    LET r == Call("write")
    IN /\ at = "write"
       /\ IF conn.cw = 0 THEN at' = back /\ UNCHANGED <<sock, lib, conn>>
          ELSE /\ sock' = r.sock /\ lib' = r.lib
               /\ conn' = CASE r.is = "again" -> conn
                            [] r.is = "none" -> [conn EXCEPT !.write = "ok", !.cw = @ - 1]
                            [] r.is = "want_read" ->
                                    [conn EXCEPT !.write = "wants_inp", !.waiting = @ \cup {"inp"}]
                            [] r.is = "want_write" ->
                                    [conn EXCEPT !.write = "wants_out", !.waiting = @ \cup {"out"}]
               /\ at' = IF r.is \in {"again", "none"} THEN "write" ELSE back
       /\ UNCHANGED <<told, back, mask, left>>

(* call_SSL_read, one turn of its loop: parse may answer with k chunks, and end. *)
SslRead(k, go) ==
    LET r == Call("read")
        end == IF at = "read" THEN "end" ELSE "out_write"
        data == [conn EXCEPT !.read = "ok", !.stop = @ \/ ~go,
                             !.cw = IF @ + k <= MaxData THEN @ + k ELSE @]
    IN /\ at \in {"read", "out_read"}
       /\ sock' = r.sock /\ lib' = r.lib
       /\ r.is = "none" \/ (k = 0 /\ go)
       /\ conn' = CASE r.is = "again" -> conn
                    [] r.is = "none" -> data
                    [] r.is = "want_read" -> [conn EXCEPT !.read = "wants_inp", !.waiting = @ \cup {"inp"}]
                    [] r.is = "want_write" -> [conn EXCEPT !.read = "wants_out", !.waiting = @ \cup {"out"}]
                    [] r.is = "zero" -> [conn EXCEPT !.over = TRUE]
       /\ LET then == IF ~go THEN end ELSE at
          IN CASE r.is = "again" -> at' = at /\ UNCHANGED back
               [] r.is = "none" ->
                    IF Flushes(conn.write) THEN at' = "write" /\ back' = then
                    ELSE at' = then /\ UNCHANGED back
               [] OTHER -> at' = end /\ UNCHANGED back
       /\ UNCHANGED <<told, mask, left>>

(* Back in the event loop, which deletes what has nothing to wait for. *)
EndEvent ==
    /\ at = "end" /\ at' = IF conn.over \/ conn.waiting = {} THEN "closed" ELSE "wait"
    /\ UNCHANGED <<sock, told, lib, conn, back, mask, left>>

Thread ==
    \/ Poll \/ StartOut \/ WriteInOut \/ StartInp \/ ReadInInp \/ SslWrite \/ EndEvent
    \/ \E k \in 0 .. 1, go \in BOOLEAN : SslRead(k, go)

Peer ==
    \/ HandshakeArrives \/ Acknowledged
    \/ \E r \in {"data", "ask", "close"} : RecordArrives(r)

SslNext == Thread \/ Peer

(* The thread runs; the peer takes part in the handshake and acknowledges. *)
SslFairness ==
    WF_sslvars(Thread) /\ WF_sslvars(HandshakeArrives) /\ WF_sslvars(Acknowledged)

SslSpec == SslInit /\ [][SslNext]_sslvars /\ SslFairness

-------------------------------------------------------------------------------
(* Properties *)

(* When the loop sleeps and nothing has changed, data that waits to be sent  *)
(* waits for something: room in the socket or something to read              *)
(* (TcpSslConnection.cpp:100-134).                                           *)
OutputHasReason ==
    (at = "wait" /\ ~told /\ conn.cw > 0 /\ ~conn.first) =>
        conn.write = "wants_inp" \/ (conn.write = "wants_out" /\ ~Writable)

(* What the peer sends is read, unless the peer or the user ends the         *)
(* connection: never because the flags say there is nothing to wait for.     *)
EventuallyRead == Readable ~> (~Readable \/ conn.over \/ conn.stop)

(* What the connection has to write is sent, unless it ends: "wants_inp      *)
(* means the possibility to output data is worthless"                        *)
(* (TcpSslConnection.cpp:96), so that what is read has to be enough.         *)
EventuallyWritten == (conn.cw > 0) ~> (conn.cw = 0 \/ at = "closed")

===============================================================================
