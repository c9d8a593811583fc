---------------------------- MODULE TrackerConn ----------------------------
(***************************************************************************)
(* The connection of a page to the tracker (Tracker/TrackerConn.ts): what  *)
(* is submitted is written to a buffer, sent when the WebSocket opens, or  *)
(* by a timer of 0 ms.                                                     *)
(*                                                                         *)
(* A WebSocket is external: send() throws while it is connecting and       *)
(* loses the data once it is closed.  MaxSubmit bounds the submissions,    *)
(* which are numbered.                                                     *)
(***************************************************************************)
EXTENDS Integers, Sequences

CONSTANT MaxSubmit

VARIABLES connection,   \* its readyState: "connecting", "open", "closed"
          bw,           \* what is to be sent
          timeout_set,  \* is the field timeout set?
          send_timer,   \* is the timer armed?
          server,       \* what the tracker gets
          submitted,    \* how many
          early         \* how many before the opening or the timer
connvars == <<connection, bw, timeout_set, send_timer, server, submitted, early>>

ConnInit == /\ connection = "connecting" /\ bw = <<>> /\ server = <<>> /\ submitted = 0
            /\ timeout_set = FALSE /\ send_timer = FALSE /\ early = 0

\* onSubmit and _update_send_timeout: one timer for the life of the connection.
OnSubmit == /\ submitted < MaxSubmit
            /\ submitted' = submitted + 1
            /\ bw' = Append(bw, submitted')
            /\ timeout_set' = TRUE
            /\ send_timer' = (send_timer \/ ~timeout_set)
            /\ UNCHANGED <<connection, server, early>>

Cleared == <<>>

\* connection.send( data ), bw.clear(); nothing is cleared when send throws.
Send == /\ connection # "connecting" /\ bw' = Cleared
        /\ server' = IF connection = "open" THEN server \o bw ELSE server
Throw == connection = "connecting" /\ UNCHANGED <<bw, server>>

OnOpenSilent == UNCHANGED <<bw, server>>         \* mutant
OnOpen == bw' = Cleared /\ server' = server \o bw

Open == /\ connection = "connecting" /\ connection' = "open"
        /\ OnOpen
        /\ early' = submitted
        /\ UNCHANGED <<timeout_set, send_timer, submitted>>
Timer == /\ send_timer /\ send_timer' = FALSE
         /\ Send \/ Throw
         /\ early' = submitted
         /\ UNCHANGED <<connection, timeout_set, submitted>>
CloseConn == /\ connection # "closed" /\ connection' = "closed"
             /\ UNCHANGED <<bw, timeout_set, send_timer, server, submitted, early>>

ConnNext == OnSubmit \/ Open \/ Timer \/ CloseConn
ConnSpec == ConnInit /\ [][ConnNext]_connvars

-----------------------------------------------------------------------------
\* Properties

\* The tracker gets what was submitted, in its order and once, and what it has
\* not got is in the buffer, whether the timer or the opening comes first and
\* although send() throws.
InOrderOnce == /\ \A i \in DOMAIN server : server[i] = i
               /\ connection # "closed" => server \o bw = [i \in 1..submitted |-> i]

\* The opening and the timer, in either order, send what was submitted before
\* the later of the two; nothing sends what is submitted after it.
EarlyOnesSent == connection = "open" /\ ~send_timer => Len(server) >= early
\* The tracker gets what was submitted in order and once, and at the later of the
\* timer and the opening all that was submitted before. That the rest is sent is
\* not said: it never is, as the timer is set once (TrackerConn.ts:37).
ServerGets == InOrderOnce /\ EarlyOnesSent
=============================================================================
