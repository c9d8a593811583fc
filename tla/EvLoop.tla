-------------------------------- MODULE EvLoop --------------------------------
(***************************************************************************)
(* The event loop of the C++ code (EvLoop/EvLoop.cpp, Event.cpp), its TCP  *)
(* connections (TcpRawConnection.cpp) and the timer that looks after the   *)
(* connections that still have data to send (Util/CheckSent.cpp).          *)
(*                                                                         *)
(* `net' is the kernel: one socket per connection and the events epoll has *)
(* armed (EPOLLET: what changed since the last epoll_wait). `prog' is the  *)
(* memory of the program, which has one thread; an operator named for a    *)
(* method maps one prog to the next. A chunk of data is a unit.            *)
(***************************************************************************)
EXTENDS Naturals, FiniteSets

CONSTANTS
    Conns,      \* TCP connections
    Dialing,    \* those this side opens; a listener accepted the other ones
    Timers,     \* memory for CheckSent timers
    Nil,        \* the null pointer
    Space,      \* chunks the send buffer of a socket holds
    MaxInp,     \* chunks the peer of each connection sends: bound of the model
    MaxOut      \* chunks a connection may have to send: bound of the model

ASSUME EvLoopAssumption ==
    /\ Conns \cap Timers = {} /\ Nil \notin Conns \cup Timers
    /\ Dialing \subseteq Conns /\ MaxInp \in [Conns -> Nat]
    /\ {Space, MaxOut} \subseteq Nat /\ Space > 0

VARIABLES
    net,        \* the sockets and what epoll_wait will report
    prog,       \* the events, the deletion list, the counter
    pc,         \* where run() is
    batch,      \* what epoll_wait reported and is not handled yet
    cur,        \* the event being handled, oq in the deletions
    rq          \* next event of the deletions

vars == <<net, prog, pc, batch, cur, rq>>

Events == Conns \cup Timers

Smaller(a, b) == IF a < b THEN a ELSE b

-------------------------------------------------------------------------------
(* The kernel. *)

Dead(sk) == sk.rst \/ sk.conn = "refused"

(* What epoll reports of e: EPOLLOUT, EPOLLIN, EPOLLRDHUP, EPOLLHUP and EPOLLERR. *)
Mask(e) ==
    IF e \in Timers THEN {"inp"}
    ELSE LET sk == net.sock[e] IN
         {f \in {"out", "inp", "rdhup", "hup", "err"} :
            \/ f = "out" /\ (Dead(sk) \/ (sk.conn = "ok" /\ sk.snd < Space))
            \/ f = "inp" /\ (Dead(sk) \/ sk.rcv > 0 \/ sk.fin)
            \/ f = "rdhup" /\ (Dead(sk) \/ sk.fin)
            \/ f \in {"hup", "err"} /\ Dead(sk)}

Kernel(c, sk) ==
    /\ prog.st[c] = "live"
    /\ net' = [sock |-> [net.sock EXCEPT ![c] = sk], armed |-> net.armed \cup {c}]
    /\ UNCHANGED <<prog, pc, batch, cur, rq>>

Established(c) ==
    net.sock[c].conn = "pending" /\ Kernel(c, [net.sock[c] EXCEPT !.conn = "ok"])

Refused(c) ==
    net.sock[c].conn = "pending" /\ Kernel(c, [net.sock[c] EXCEPT !.conn = "refused"])

Usable(c) == net.sock[c].conn = "ok" /\ ~net.sock[c].rst

Arrived(c) ==
    /\ Usable(c) /\ ~net.sock[c].fin /\ net.sock[c].got < MaxInp[c]
    /\ Kernel(c, [net.sock[c] EXCEPT !.rcv = @ + 1, !.got = @ + 1])

(* The peer has nothing more to send. *)
Finished(c) ==
    Usable(c) /\ ~net.sock[c].fin /\ Kernel(c, [net.sock[c] EXCEPT !.fin = TRUE])

(* The peer is gone: what the buffers held is lost. *)
Reset(c) ==
    Usable(c) /\ Kernel(c, [net.sock[c] EXCEPT !.rst = TRUE, !.rcv = 0, !.snd = 0])

(* The peer acknowledges a chunk. epoll is told if a write had found the buffer full. *)
Acked(c) ==
    /\ Usable(c) /\ net.sock[c].snd > 0 /\ prog.st[c] = "live"
    /\ net' = [sock  |-> [net.sock EXCEPT ![c].snd = @ - 1, ![c].full = FALSE],
               armed |-> net.armed \cup (IF net.sock[c].full THEN {c} ELSE {})]
    /\ UNCHANGED <<prog, pc, batch, cur, rq>>

Expired(t) ==
    /\ prog.st[t] = "live"
    /\ net' = [net EXCEPT !.armed = @ \cup {t}]
    /\ UNCHANGED <<prog, pc, batch, cur, rq>>

-------------------------------------------------------------------------------
(* Event.cpp, Event.h *)

(* A careless list: an event that is in it already is linked again. *)
RegTwice(p, e) ==
    [p EXCEPT !.next[e] = IF p.last # Nil THEN p.last ELSE e, !.last = e]

RegForDeletion(p, e) ==
    IF p.next[e] # Nil THEN p
    ELSE [p EXCEPT !.next[e] = IF p.last # Nil THEN p.last ELSE e, !.last = e]

WaitForMoreOut(p, e) ==
    IF "out" \in p.waiting[e] THEN p
    ELSE [p EXCEPT !.nb = @ + 1, !.waiting[e] = @ \cup {"out"}]

WaitForMoreInp(p, e) == [p EXCEPT !.waiting[e] = @ \cup {"inp"}]

(* rd_hup_error, hup_error and generic_error *)
Error(p, e, f) == RegForDeletion([p EXCEPT !.errors[e] = @ \cup {f}], e)

(* TcpRawConnection.cpp: flush sends what the socket takes. *)
Flush(p, c) ==
    LET sk == net.sock[c]
        sent == Smaller(p.cw[c], Space - sk.snd)
        q == [p EXCEPT !.cw[c] = @ - sent]
    IN IF p.wfc[c] \/ p.cw[c] = 0 THEN p
       ELSE IF Dead(sk) THEN Error(p, c, "hup")
       ELSE IF sent < p.cw[c] THEN WaitForMoreOut(q, c)
       ELSE q

(* A careless flush: one sendmsg, so that the kernel never says it would block. *)
SentOnce(p, q, c, sk) == [sk EXCEPT !.snd = @ + (p.cw[c] - q.cw[c])]

(* The socket of c once flush has turned p into q. *)
Sent(p, q, c, sk) ==
    [sk EXCEPT !.snd = @ + (p.cw[c] - q.cw[c]), !.full = @ \/ (p.cw[c] # 0 /\ ~p.wfc[c] /\ q.cw[c] # 0)]

(* parse() of the user got what was received and answers with k chunks. *)
Answered(p, c, k) == [p EXCEPT !.cw[c] = Smaller(@ + k, MaxOut)]

(* out: the first EPOLLOUT tells how the connection went. *)
Opened(p, c) ==
    LET q == [p EXCEPT !.wfc[c] = FALSE]
    IN IF p.wfc[c] /\ Dead(net.sock[c]) THEN RegForDeletion(q, c) ELSE q

(* A careless count: an event that was not waiting is counted out. *)
NoMoreOutAlways(p, e) == [p EXCEPT !.waiting[e] = @ \ {"out"}, !.nb = @ - 1]

NoMoreOut(p, e) ==
    IF "out" \in p.waiting[e]
    THEN [p EXCEPT !.waiting[e] = @ \ {"out"}, !.nb = @ - 1]
    ELSE p

NoMoreInp(p, e) == [p EXCEPT !.waiting[e] = @ \ {"inp"}]

-------------------------------------------------------------------------------
(* EvLoop.cpp *)

Init ==
    /\ net = [sock  |-> [c \in Conns |-> [conn |-> IF c \in Dialing THEN "pending" ELSE "ok",
                                          rcv |-> 0, got |-> 0, snd |-> 0,
                                          full |-> FALSE, fin |-> FALSE, rst |-> FALSE]],
               armed |-> Conns]
    /\ prog \in [st : {[e \in Events |-> IF e \in Conns THEN "live" ELSE "free"]},
                 waiting : {[e \in Events |-> {"inp"}]}, errors : {[e \in Events |-> {}]},
                 next : {[e \in Events |-> Nil]}, last : {Nil}, timer : {Nil}, nb : {0},
                 cw : [Conns -> {0, MaxOut}], wfc : {[c \in Conns |-> TRUE]}, cnt : {TRUE}]
    /\ pc = "wait" /\ batch = [e \in {} |-> {}] /\ cur = Nil /\ rq = Nil

(* epoll_wait. A socket it finds full will tell when it is not any more. *)
Polled(c) == [net.sock[c] EXCEPT !.full = @ \/ (c \in net.armed /\ net.sock[c].snd = Space)]

EpollWait ==
    LET told == {e \in net.armed : Mask(e) # {}}
    IN /\ pc = "wait" /\ net.armed # {}
       /\ batch' = [e \in told |-> Mask(e)]
       /\ net' = [sock |-> [c \in Conns |-> Polled(c)], armed |-> {}]
       /\ pc' = "next"
       /\ UNCHANGED <<prog, cur, rq>>

NextEvent ==
    /\ pc = "next" /\ DOMAIN batch # {}
    /\ cur' \in DOMAIN batch
    /\ pc' = "out"
    /\ UNCHANGED <<net, prog, batch, rq>>

Asked(f) == f \in batch[cur] /\ prog.next[cur] = Nil

HandleOut ==
    /\ pc = "out" /\ pc' = "inp"
    /\ IF Asked("out")
       THEN LET p == Opened(NoMoreOut(prog, cur), cur)
            IN /\ prog' = Flush(p, cur)
               /\ net' = [net EXCEPT !.sock[cur] = Sent(p, prog', cur, @)]
       ELSE UNCHANGED <<net, prog>>
    /\ UNCHANGED <<batch, cur, rq>>

(* inp of a connection: recv and parse until there is no more, or until parse is done. *)
HandleInp(k, go, stop) ==
    LET sk == net.sock[cur]
        p == Answered([NoMoreInp(prog, cur) EXCEPT !.cnt = @ /\ ~stop], cur, k)
        q == Flush(p, cur)
    IN /\ pc = "inp" /\ cur \in Conns /\ Asked("inp")
       /\ ~Dead(sk) /\ sk.rcv > 0
       /\ prog' = IF ~go THEN q
                  ELSE IF sk.fin THEN Error(q, cur, "hup")
                  ELSE WaitForMoreInp(q, cur)
       /\ net' = [net EXCEPT !.sock[cur] = [Sent(p, q, cur, @) EXCEPT !.rcv = 0]]
       /\ pc' = "errs"
       /\ UNCHANGED <<batch, cur, rq>>

(* inp of a connection that has nothing to read: the end of the stream, an error, or EAGAIN. *)
HandleNoInp ==
    LET sk == net.sock[cur]
    IN /\ pc = "inp" /\ cur \in Conns /\ Asked("inp")
       /\ Dead(sk) \/ sk.rcv = 0
       /\ prog' = IF Dead(sk) \/ sk.fin THEN Error(NoMoreInp(prog, cur), cur, "hup")
                  ELSE WaitForMoreInp(prog, cur)
       /\ pc' = "errs"
       /\ UNCHANGED <<net, batch, cur, rq>>

(* CheckSent: the timer goes on as long as there is something to delete. *)
Timeout(p, t) == IF p.last = Nil THEN [p EXCEPT !.timer = Nil] ELSE WaitForMoreInp(p, t)

HandleTimer ==
    /\ pc = "inp" /\ cur \in Timers /\ Asked("inp")
    /\ prog' = Timeout(NoMoreInp(prog, cur), cur)
    /\ pc' = "errs"
    /\ UNCHANGED <<net, batch, cur, rq>>

SkipInp ==
    /\ pc = "inp" /\ ~Asked("inp") /\ pc' = "errs"
    /\ UNCHANGED <<net, prog, batch, cur, rq>>

Errors(p) ==
    LET found == batch[cur] \cap {"rdhup", "hup", "err"}
        q == [p EXCEPT !.errors[cur] = @ \cup found]
    IN IF found # {} \/ q.waiting[cur] = {} THEN RegForDeletion(q, cur) ELSE q

HandleErrors ==
    /\ pc = "errs" /\ prog' = Errors(prog)
    /\ batch' = [e \in DOMAIN batch \ {cur} |-> batch[e]]
    /\ cur' = Nil /\ pc' = "next"
    /\ UNCHANGED <<net, rq>>

(* The deletions: the list is taken, then walked. *)
TakeDeletions ==
    /\ pc = "next" /\ DOMAIN batch = {}
    /\ rq' = prog.last
    /\ prog' = [prog EXCEPT !.last = Nil]
    /\ pc' = IF rq' # Nil THEN "delete" ELSE IF prog.cnt THEN "wait" ELSE "ran"
    /\ UNCHANGED <<net, batch, cur>>

NoMorePending(p, e) == IF "pendingo" \in p.waiting[e] THEN [p EXCEPT !.nb = @ - 1] ELSE p

HasOut(e) == e \in Conns

(* A careless check: nothing is looked for. *)
PendingNone(p, e) == FALSE

Pending(p, e) == HasOut(e) /\ p.errors[e] = {} /\ net.sock[e].snd > 0

NewTimer(p) == CHOOSE t \in Timers : p.st[t] = "free"

WithTimer(p) ==
    IF p.timer # Nil THEN p
    ELSE LET t == NewTimer(p)
         IN [p EXCEPT !.timer = t, !.st[t] = "live", !.waiting[t] = {"inp"}, !.next[t] = Nil]

CheckLater(p, e) ==
    [WithTimer(p) EXCEPT !.next[e] = IF p.last # Nil THEN p.last ELSE e, !.last = e,
                         !.waiting[e] = @ \cup {"pendingo"}, !.nb = @ + 1]

Deleted(p, e) == [p EXCEPT !.st[e] = IF e \in Conns THEN "deleted" ELSE "free", !.next[e] = Nil]

Delete ==
    LET p == NoMorePending(prog, rq)
    IN /\ pc = "delete"
       /\ prog' = IF Pending(p, rq) THEN CheckLater(p, rq) ELSE Deleted(p, rq)
       /\ net' = IF prog'.st[rq] = "live" THEN net ELSE [net EXCEPT !.armed = @ \ {rq}]
       /\ rq' = IF prog.next[rq] = rq THEN Nil ELSE prog.next[rq]
       /\ pc' = IF rq' # Nil THEN "delete" ELSE IF prog.cnt THEN "wait" ELSE "ran"
       /\ UNCHANGED <<batch, cur>>

(* wait_for_data_to_be_sent, which the program calls once stop() has ended run() *)
RunAgain ==
    /\ pc = "ran" /\ prog.nb # 0
    /\ prog' = [prog EXCEPT !.cnt = TRUE] /\ pc' = "wait"
    /\ UNCHANGED <<net, batch, cur, rq>>

AllSent ==
    /\ pc = "ran" /\ prog.nb = 0 /\ pc' = "done"
    /\ UNCHANGED <<net, prog, batch, cur, rq>>

Loop ==
    \/ EpollWait \/ NextEvent \/ HandleOut \/ HandleNoInp \/ HandleTimer \/ SkipInp
    \/ \E k \in 0 .. 1, go, stop \in BOOLEAN : HandleInp(k, go, stop)
    \/ HandleErrors \/ TakeDeletions \/ Delete \/ RunAgain \/ AllSent

Network ==
    \/ \E c \in Conns : \/ Established(c) \/ Refused(c) \/ Arrived(c)
                        \/ Finished(c) \/ Reset(c) \/ Acked(c)
    \/ \E t \in Timers : Expired(t)

Next == Loop \/ Network

(* The program runs, a timer expires, a peer answers or goes. *)
Fairness ==
    /\ WF_vars(Loop)
    /\ \A t \in Timers : WF_vars(Expired(t))
    /\ \A c \in Conns : WF_vars(Acked(c)) /\ WF_vars(Established(c) \/ Refused(c))

Spec == Init /\ [][Next]_vars /\ Fairness

-------------------------------------------------------------------------------
(* Properties *)

(* The list of deletions that starts at e: the least set of events with e   *)
(* and what follows each of them.                                            *)
Listed(e) ==
    {x \in Events : \A S \in SUBSET Events :
        {e} \ {Nil} \subseteq S /\ (\A y \in S : prog.next[y] \in S \cup {Nil}) => x \in S}

(* What asked to be deleted is in one list, and only once: the chain of      *)
(* next_ev_to_del that ends in an event linked to itself (EvLoop.cpp:91-127, *)
(* Event.cpp:44-52), also while the list is rebuilt during its walk; and the  *)
(* loop never keeps a CheckSent timer that was deleted (CheckSent.cpp).      *)
DeletionsListed ==
    /\ prog.timer # Nil => prog.st[prog.timer] = "live"
    /\ Listed(prog.last) \cup Listed(rq) = {e \in Events : prog.next[e] # Nil}
    /\ Listed(prog.last) \cap Listed(rq) = {}
    /\ \A e \in Listed(prog.last) \cup Listed(rq) : prog.st[e] = "live"
    /\ \A e \in {prog.last, rq} \ {Nil} : Cardinality({x \in Listed(e) : prog.next[x] = x}) = 1

(* wait_for_data_to_be_sent never ends because an event was forgotten:       *)
(* nb_out_waiting counts at least the events that wait for output.           *)
WaitersCounted ==
    LET with(f) == Cardinality({e \in Events : prog.st[e] = "live" /\ f \in prog.waiting[e]})
    IN prog.nb >= with("out") + with("pendingo")

(* A connection that was closed by this side, without an error, had sent all *)
(* it had to send, in the program and in the kernel (EvLoop.cpp:102-121).    *)
ClosedAfterSent ==
    \A c \in Conns : (prog.st[c] = "deleted" /\ prog.errors[c] = {}) =>
        prog.cw[c] = 0 /\ net.sock[c].snd = 0

(* What asked to be deleted is deleted in the end, even if the program stops *)
(* the loop and then waits for the data to be sent; what is written once     *)
(* connected is sent unless the connection ends.                             *)
EventuallyServed ==
    \A c \in Conns :
        /\ (prog.next[c] # Nil) ~> (prog.st[c] = "deleted")
        /\ (prog.cw[c] > 0 /\ ~prog.wfc[c]) ~> (prog.cw[c] = 0 \/ prog.st[c] = "deleted")

===============================================================================
