------------------------------ MODULE MCEvLoop ------------------------------
(***************************************************************************)
(* The event loop with two TCP connections, one it opens and one it has    *)
(* accepted, or a TLS connection on its own: the part that is not looked   *)
(* at is over from the beginning.                                          *)
(***************************************************************************)
EXTENDS EvLoop, TcpSsl

CONSTANTS c1, c2

(* The peer of c1 speaks, the one of c2 only listens. *)
MCMaxInp == [c \in Conns |-> IF c = c1 THEN 1 ELSE 0]

allvars == <<vars, sslvars>>

NoSsl ==
    /\ sock = [in |-> <<>>, snd |-> 0, full |-> FALSE] /\ told = FALSE
    /\ lib = [need |-> 0, owe |-> FALSE, sent |-> FALSE]
    /\ conn = [write |-> "ok", read |-> "ok", cw |-> 0, waiting |-> {}, first |-> TRUE, over |-> FALSE, stop |-> FALSE]
    /\ at = "idle" /\ back = "wait" /\ mask = {} /\ left = [hs |-> 0, rec |-> 0]

NoLoop ==
    /\ net = [sock  |-> [c \in Conns |-> [conn |-> "ok", rcv |-> 0, got |-> 0, snd |-> 0,
                                          full |-> FALSE, fin |-> FALSE, rst |-> FALSE]],
               armed |-> {}]
    /\ prog = [st |-> [e \in Events |-> "free"], waiting |-> [e \in Events |-> {}],
                errors |-> [e \in Events |-> {}], next |-> [e \in Events |-> Nil],
                last |-> Nil, timer |-> Nil, nb |-> 0, cw |-> [c \in Conns |-> 0],
                wfc |-> [c \in Conns |-> TRUE], cnt |-> TRUE]
    /\ pc = "done" /\ batch = [e \in {} |-> {}] /\ cur = Nil /\ rq = Nil

MCInit == (Init /\ NoSsl) \/ (NoLoop /\ SslInit)

MCNext == (Next /\ UNCHANGED sslvars) \/ (SslNext /\ UNCHANGED vars)

MCSpec == MCInit /\ [][MCNext]_allvars /\ Fairness /\ SslFairness

(* The TLS connection alone. *)
MCSslSpec == NoLoop /\ SslInit /\ [][SslNext /\ UNCHANGED vars]_allvars /\ SslFairness

=============================================================================
