---------------------------- MODULE EvLoopProofs ----------------------------
(***************************************************************************)
(* The event loop, for any number of connections and any sizes: what asked *)
(* to be deleted is in two lists at most, a connection that this side      *)
(* closes without an error has sent all it had to send, and the count of   *)
(* the events that wait for output misses none. All rest on what the       *)
(* deletion lists and the CheckSent timers are at every step. A TLS        *)
(* connection of the loop never sleeps with data that it could send.       *)
(***************************************************************************)
EXTENDS EvLoop, TcpSsl, Integers, SequenceTheorems, FiniteSetTheorems,
        WellFoundedInduction, TLAPS

\* CheckSent timers are allocated: there is always memory for the one that looks
\* after the connections and for the one that ends.
TwoTimers == \E t, u \in Timers : t # u

-----------------------------------------------------------------------------
\* The inductive invariant

Ptr == Events \cup {Nil}
Prog == [st : [Events -> {"live", "deleted", "free"}], waiting : [Events -> SUBSET {"inp", "out", "pendingo"}],
         errors : [Events -> SUBSET {"rdhup", "hup", "err"}], next : [Events -> Ptr], last : Ptr,
         timer : Timers \cup {Nil}, nb : Int, cw : [Conns -> Nat], wfc : [Conns -> BOOLEAN], cnt : BOOLEAN]
Socket == [conn : {"pending", "ok", "refused"}, rcv : Nat, got : Nat, snd : 0 .. Space,
           full : BOOLEAN, fin : BOOLEAN, rst : BOOLEAN]

LoopType ==
    /\ prog \in Prog
    /\ net \in [sock : [Conns -> Socket], armed : SUBSET Events]
    /\ pc \in {"wait", "next", "out", "inp", "errs", "delete", "ran", "done"}
    /\ DOMAIN batch \subseteq Events
    /\ rq \in Ptr

\* What the thread looks at exists: epoll reports no event that was deleted.
Where ==
    /\ rq # Nil <=> pc = "delete"
    /\ pc \in {"out", "inp", "errs"} => cur \in DOMAIN batch
    /\ pc \in {"wait", "delete", "ran", "done"} => DOMAIN batch = {}
    /\ \A e \in net.armed \cup DOMAIN batch : prog.st[e] = "live"

\* The list of n events that begins at `head': f[n], f[n - 1], ... f[1].
IsList(p, f, n, head) ==
    /\ head = IF n = 0 THEN Nil ELSE f[n]
    /\ \A i \in 1 .. n : p.st[f[i]] = "live"
    /\ \A i \in 1 .. n : p.next[f[i]] = IF i = 1 THEN f[i] ELSE f[i - 1]
    /\ \A i, j \in 1 .. n : f[i] = f[j] => i = j

\* The events that asked to be deleted are in the list being made or in the one
\* being walked, a timer that ends in the latter.
Lists(f, n, g, m) ==
    /\ IsList(prog, f, n, prog.last) /\ IsList(prog, g, m, rq)
    /\ \A i \in 1 .. n, j \in 1 .. m : f[i] # g[j]
    /\ \A e \in Events : prog.next[e] # Nil => (\E i \in 1 .. n : e = f[i]) \/ (\E j \in 1 .. m : e = g[j])
    /\ \A i \in 1 .. n : f[i] \in Timers => prog.timer = Nil /\ pc # "delete"
TwoLists == \E n, m \in Nat : \E f \in [1 .. n -> Events], g \in [1 .. m -> Events] : Lists(f, n, g, m)

\* One timer at most is ending, and another one at most is in use.
Dying(t) == t \in Timers /\ prog.st[t] = "live" /\ t # prog.timer
TimersRight ==
    /\ prog.timer # Nil => /\ prog.st[prog.timer] = "live" /\ prog.next[prog.timer] = Nil
                           /\ prog.waiting[prog.timer] = {"inp"}
    /\ \A t \in Timers : prog.st[t] # "deleted" /\ (prog.st[t] = "live" => prog.waiting[t] \subseteq {"inp"})
    /\ \A t \in Timers \cap DOMAIN batch : batch[t] \subseteq {"inp"}
    /\ \A t \in Timers : Dying(t) =>
          /\ prog.next[t] # Nil \/ (pc = "errs" /\ cur = t /\ prog.waiting[t] = {})
          /\ pc # "delete" => prog.timer = Nil
    /\ \A t, u \in Timers : Dying(t) /\ Dying(u) => t = u

\* A connection with data to send is not connected yet, waits for room or is
\* in error.
Connecting ==
    /\ \A c \in Conns : net.sock[c].conn = "pending" => ~net.sock[c].rst /\ net.sock[c].rcv = 0 /\ ~net.sock[c].fin
    /\ \A c \in Conns : prog.wfc[c] => net.sock[c].snd = 0
    /\ \A c \in Conns : c \in DOMAIN batch /\ prog.wfc[c] => "out" \in batch[c]
    /\ \A c \in Conns : pc \in {"inp", "errs"} /\ cur = c /\ prog.next[c] = Nil => ~prog.wfc[c]
Unsent ==
    /\ \A c \in Conns : prog.st[c] # "free"
    /\ \A c \in Conns : prog.st[c] = "live" /\ prog.next[c] = Nil /\ ~prog.wfc[c] /\ prog.errors[c] = {}
                           => prog.cw[c] = 0 \/ "out" \in prog.waiting[c]
    /\ \A c \in Conns : prog.next[c] # Nil /\ prog.errors[c] = {} => prog.cw[c] = 0

LoopInv == LoopType /\ Where /\ TwoLists /\ TimersRight /\ Connecting /\ Unsent /\ ClosedAfterSent

-----------------------------------------------------------------------------
\* The methods of an event

\* q is p after calls of methods of e: e may have registered itself, the other
\* events are as they were.
Handled(p, q, e) ==
    /\ q \in Prog /\ q.st = p.st /\ q.timer = p.timer
    /\ \A x \in Events : x # e => q.waiting[x] = p.waiting[x] /\ q.errors[x] = p.errors[x] /\ q.next[x] = p.next[x]
    /\ \A c \in Conns : c # e => q.cw[c] = p.cw[c] /\ q.wfc[c] = p.wfc[c]
    /\ p.errors[e] \subseteq q.errors[e]
    /\ \/ q.last = p.last /\ q.next[e] = p.next[e]
       \/ p.next[e] = Nil /\ q.last = e /\ q.next[e] = IF p.last # Nil THEN p.last ELSE e

\* What the flags and the data of e become, when e does not register itself.
SameList(p, q) == q.last = p.last /\ q.next = p.next
SameData(p, q) == q.cw = p.cw /\ q.wfc = p.wfc

LEMMA HandledTwice ==
    ASSUME NEW p \in Prog, NEW q, NEW r, NEW e \in Events, Handled(p, q, e), Handled(q, r, e)
    PROVE  Handled(p, r, e)
  BY EvLoopAssumption DEF Handled, Prog, Events

LEMMA RegIs ==
    ASSUME NEW p \in Prog, NEW e \in Events
    PROVE  LET q == RegForDeletion(p, e)
           IN /\ Handled(p, q, e) /\ SameData(p, q) /\ q.next[e] # Nil
              /\ q.errors = p.errors /\ q.waiting = p.waiting
<1> DEFINE q == RegForDeletion(p, e)
<1>1. CASE p.next[e] # Nil
  BY <1>1 DEF RegForDeletion, Handled, SameData
<1>2. CASE p.next[e] = Nil
  <2> DEFINE to == IF p.last # Nil THEN p.last ELSE e
             n == [p.next EXCEPT ![e] = to]
  <2>1. q = [p EXCEPT !.next = n, !.last = e]
    BY <1>2 DEF RegForDeletion
  <2>2. n \in [Events -> Ptr] /\ n[e] = to /\ (\A x \in Events : x # e => n[x] = p.next[x]) /\ e \in Ptr
    BY DEF Prog, Ptr
  <2>3. to # Nil
    BY EvLoopAssumption DEF Events
  <2> HIDE DEF n
  <2>4. q \in Prog
    BY <2>1, <2>2 DEF Prog
  <2>5. /\ q.next = n /\ q.last = e /\ q.st = p.st /\ q.timer = p.timer
        /\ q.waiting = p.waiting /\ q.errors = p.errors /\ q.cw = p.cw /\ q.wfc = p.wfc
    BY <2>1 DEF Prog
  <2> HIDE DEF q
  <2>6. Handled(p, q, e) /\ SameData(p, q) /\ q.next[e] # Nil /\ q.errors = p.errors /\ q.waiting = p.waiting
    BY <1>2, <2>2, <2>3, <2>4, <2>5 DEF Handled, SameData
  <2> QED
    BY <2>6 DEF q
<1> QED
  BY <1>1, <1>2

LEMMA WaitForMoreOutIs ==
    ASSUME NEW p \in Prog, NEW e \in Events
    PROVE  LET q == WaitForMoreOut(p, e)
           IN /\ Handled(p, q, e) /\ SameList(p, q) /\ SameData(p, q) /\ q.errors = p.errors
              /\ q.waiting[e] = p.waiting[e] \cup {"out"}
<1>1. CASE "out" \in p.waiting[e]
  <2>1. p.waiting[e] \cup {"out"} = p.waiting[e]
    BY <1>1
  <2> QED
    BY <1>1, <2>1 DEF WaitForMoreOut, Handled, SameList, SameData
<1>2. CASE "out" \notin p.waiting[e]
  <2> DEFINE w == [p.waiting EXCEPT ![e] = @ \cup {"out"}]
             k == p.nb + 1
             q == [p EXCEPT !.nb = k, !.waiting = w]
  <2>1. WaitForMoreOut(p, e) = q
    BY <1>2 DEF WaitForMoreOut
  <2>2. /\ w \in [Events -> SUBSET {"inp", "out", "pendingo"}]
        /\ w[e] = p.waiting[e] \cup {"out"} /\ \A x \in Events : x # e => w[x] = p.waiting[x]
    BY DEF Prog
  <2>3. k \in Int
    BY DEF Prog
  <2> HIDE DEF w, k
  <2>4. q \in Prog
    BY <2>2, <2>3 DEF Prog
  <2>5. /\ q.waiting = w /\ q.st = p.st /\ q.timer = p.timer /\ q.errors = p.errors
        /\ q.next = p.next /\ q.last = p.last /\ q.cw = p.cw /\ q.wfc = p.wfc
    BY DEF Prog
  <2> HIDE DEF q
  <2> QED
    BY <2>1, <2>2, <2>4, <2>5 DEF Handled, SameList, SameData
<1> QED
  BY <1>1, <1>2

LEMMA NoMoreOutIs ==
    ASSUME NEW p \in Prog, NEW e \in Events
    PROVE  LET q == NoMoreOut(p, e)
           IN /\ Handled(p, q, e) /\ SameList(p, q) /\ SameData(p, q) /\ q.errors = p.errors
              /\ q.waiting[e] = p.waiting[e] \ {"out"}
<1>1. CASE "out" \notin p.waiting[e]
  <2>1. p.waiting[e] \ {"out"} = p.waiting[e]
    BY <1>1
  <2> QED
    BY <1>1, <2>1 DEF NoMoreOut, Handled, SameList, SameData
<1>2. CASE "out" \in p.waiting[e]
  <2> DEFINE w == [p.waiting EXCEPT ![e] = @ \ {"out"}]
             k == p.nb - 1
             q == [p EXCEPT !.waiting = w, !.nb = k]
  <2>1. NoMoreOut(p, e) = q
    BY <1>2 DEF NoMoreOut
  <2>2. /\ w \in [Events -> SUBSET {"inp", "out", "pendingo"}]
        /\ w[e] = p.waiting[e] \ {"out"} /\ \A x \in Events : x # e => w[x] = p.waiting[x]
    BY DEF Prog
  <2>3. k \in Int
    BY DEF Prog
  <2> HIDE DEF w, k
  <2>4. q \in Prog
    BY <2>2, <2>3 DEF Prog
  <2>5. /\ q.waiting = w /\ q.st = p.st /\ q.timer = p.timer /\ q.errors = p.errors
        /\ q.next = p.next /\ q.last = p.last /\ q.cw = p.cw /\ q.wfc = p.wfc
    BY DEF Prog
  <2> HIDE DEF q
  <2> QED
    BY <2>1, <2>2, <2>4, <2>5 DEF Handled, SameList, SameData
<1> QED
  BY <1>1, <1>2

LEMMA WaitForMoreInpIs ==
    ASSUME NEW p \in Prog, NEW e \in Events
    PROVE  LET q == WaitForMoreInp(p, e)
           IN /\ Handled(p, q, e) /\ SameList(p, q) /\ SameData(p, q) /\ q.errors = p.errors
              /\ q.waiting[e] = p.waiting[e] \cup {"inp"}
  BY DEF WaitForMoreInp, Handled, SameList, SameData, Prog

LEMMA NoMoreInpIs ==
    ASSUME NEW p \in Prog, NEW e \in Events
    PROVE  LET q == NoMoreInp(p, e)
           IN /\ Handled(p, q, e) /\ SameList(p, q) /\ SameData(p, q) /\ q.errors = p.errors
              /\ q.waiting[e] = p.waiting[e] \ {"inp"}
  BY DEF NoMoreInp, Handled, SameList, SameData, Prog

LEMMA ErrorIs ==
    ASSUME NEW p \in Prog, NEW e \in Events, NEW f \in {"rdhup", "hup", "err"}
    PROVE  LET q == Error(p, e, f)
           IN Handled(p, q, e) /\ SameData(p, q) /\ q.next[e] # Nil /\ q.errors[e] # {} /\ q.waiting = p.waiting
<1> DEFINE r == [p EXCEPT !.errors[e] = @ \cup {f}]
<1>1. r \in Prog /\ Handled(p, r, e) /\ SameData(p, r) /\ r.errors[e] # {} /\ r.waiting = p.waiting
  BY DEF Handled, SameData, Prog
<1> HIDE DEF r
<1>2. Error(p, e, f) = RegForDeletion(r, e)
  BY DEF Error, r
<1> QED
  BY <1>1, <1>2, RegIs, HandledTwice DEF SameData

-----------------------------------------------------------------------------
\* The calls of the loop

\* What is not sent waits for room, unless the connection is over.
FlushedRight(p, q, c) ==
    /\ Handled(p, q, c) /\ q.wfc = p.wfc /\ q.cw[c] <= p.cw[c] /\ p.waiting[c] \subseteq q.waiting[c]
    /\ p.wfc[c] => q = p
    /\ ~p.wfc[c] /\ q.errors[c] = {} => q.cw[c] = 0 \/ "out" \in q.waiting[c]
    /\ p.next[c] = Nil /\ q.next[c] # Nil => q.errors[c] # {}
    /\ p.next[c] # Nil => q.next = p.next

LEMMA FlushIs ==
    ASSUME net.sock \in [Conns -> Socket], NEW p \in Prog, NEW c \in Conns
    PROVE  /\ FlushedRight(p, Flush(p, c), c)
           /\ Dead(net.sock[c]) /\ ~p.wfc[c] /\ p.cw[c] # 0 => Flush(p, c).errors[c] # {}
           /\ p.cw[c] - Flush(p, c).cw[c] \in 0 .. Space - net.sock[c].snd
<1> DEFINE sk == net.sock[c]
           sent == Smaller(p.cw[c], Space - sk.snd)
           f == [p.cw EXCEPT ![c] = @ - sent]
           q == [p EXCEPT !.cw = f]
<1>1. c \in Events /\ Space \in Nat /\ sk.snd \in 0 .. Space /\ p.cw[c] \in Nat /\ Space - sk.snd \in Nat
  BY EvLoopAssumption DEF Events, Socket, Prog
<1>2. CASE p.wfc[c] \/ p.cw[c] = 0
  <2>1. Flush(p, c) = p
    BY <1>2 DEF Flush
  <2> QED
    BY <1>1, <1>2, <2>1 DEF FlushedRight, Handled
<1>3. CASE ~(p.wfc[c] \/ p.cw[c] = 0) /\ Dead(sk)
  <2>1. Flush(p, c) = Error(p, c, "hup")
    BY <1>3 DEF Flush
  <2>2. Flush(p, c).cw = p.cw /\ Flush(p, c).wfc = p.wfc /\ Handled(p, Flush(p, c), c)
        /\ Flush(p, c).errors[c] # {} /\ Flush(p, c).waiting = p.waiting
    BY <1>1, <2>1, ErrorIs DEF SameData
  <2>3. p.next[c] # Nil => Flush(p, c).next = p.next
    BY <2>1 DEF Error, RegForDeletion, Prog
  <2> QED
    BY <1>1, <1>3, <2>2, <2>3 DEF FlushedRight
<1>4. CASE ~(p.wfc[c] \/ p.cw[c] = 0) /\ ~Dead(sk)
  <2>1. Flush(p, c) = IF sent < p.cw[c] THEN WaitForMoreOut(q, c) ELSE q
    BY <1>4 DEF Flush
  <2>2. sent \in 0 .. Space - sk.snd /\ p.cw[c] - sent \in Nat
    BY <1>1 DEF Smaller
  <2>3. f \in [Conns -> Nat] /\ f[c] = p.cw[c] - sent /\ \A d \in Conns : d # c => f[d] = p.cw[d]
    <3>1. p.cw \in [Conns -> Nat]
      BY DEF Prog
    <3> HIDE DEF sent
    <3> QED
      BY <2>2, <3>1
  <2>4. f[c] <= p.cw[c] /\ p.cw[c] - f[c] \in 0 .. Space - sk.snd
    <3> HIDE DEF sent, f
    <3> QED
      BY <1>1, <2>2, <2>3
  <2> HIDE DEF f, sent
  <2>5. q \in Prog
    BY <2>3 DEF Prog
  <2>6. /\ q.cw = f /\ q.wfc = p.wfc /\ q.st = p.st /\ q.timer = p.timer /\ q.errors = p.errors
        /\ q.waiting = p.waiting /\ q.next = p.next /\ q.last = p.last
    BY DEF Prog
  <2> HIDE DEF q
  <2>7. Handled(p, q, c)
    BY <2>3, <2>5, <2>6 DEF Handled
  <2>8. CASE sent < p.cw[c]
    <3> DEFINE r == WaitForMoreOut(q, c)
    <3>1. /\ Handled(q, r, c) /\ r.next = q.next /\ r.cw = q.cw /\ r.wfc = q.wfc /\ r.errors = q.errors
          /\ r.waiting[c] = q.waiting[c] \cup {"out"}
      BY <1>1, <2>5, WaitForMoreOutIs DEF SameList, SameData
    <3>2. Handled(p, r, c)
      BY <1>1, <2>7, <3>1, HandledTwice
    <3>3. Flush(p, c) = r
      BY <2>1, <2>8
    <3> HIDE DEF r
    <3>4. FlushedRight(p, r, c)
      BY <1>4, <2>6, <2>4, <3>1, <3>2 DEF FlushedRight
    <3>5. r.cw[c] = f[c]
      BY <2>6, <3>1
    <3>6. p.cw[c] - r.cw[c] \in 0 .. Space - sk.snd
      BY <2>4, <3>5
    <3>7. ~Dead(net.sock[c])
      BY <1>4
    <3> QED
      BY <3>3, <3>4, <3>6, <3>7
  <2>9. CASE ~(sent < p.cw[c])
    <3>1. f[c] = 0
      BY <1>1, <2>2, <2>3, <2>9
    <3>2. Flush(p, c) = q
      BY <2>1, <2>9
    <3>3. FlushedRight(p, q, c)
      BY <1>4, <2>6, <2>7, <2>4, <3>1 DEF FlushedRight
    <3>4. p.cw[c] - q.cw[c] \in 0 .. Space - sk.snd
      BY <2>6, <2>4
    <3>5. ~Dead(net.sock[c])
      BY <1>4
    <3> QED
      BY <3>2, <3>3, <3>4, <3>5
  <2> QED
    BY <2>8, <2>9
<1> QED
  BY <1>2, <1>3, <1>4

-----------------------------------------------------------------------------
\* The lists

Pushed(f, n, e) == [i \in 1 .. n + 1 |-> IF i = n + 1 THEN e ELSE f[i]]
Popped(f, n) == [i \in 1 .. n - 1 |-> f[i]]

\* e is linked to the list of p.
PutIn(p, q, f, n, e) ==
    /\ IsList(p, f, n, p.last) /\ q.st[e] = "live" /\ q.next[e] = IF p.last # Nil THEN p.last ELSE e
    /\ \A i \in 1 .. n : f[i] # e /\ q.st[f[i]] = p.st[f[i]] /\ q.next[f[i]] = p.next[f[i]]

LEMMA PushIs ==
    ASSUME NEW p, NEW q, NEW n \in Nat, NEW f \in [1 .. n -> Events], NEW e \in Events, PutIn(p, q, f, n, e)
    PROVE  IsList(q, Pushed(f, n, e), n + 1, e)
<1> DEFINE h == Pushed(f, n, e)
<1>1. h \in [1 .. n + 1 -> Events] /\ h[n + 1] = e /\ \A i \in 1 .. n : h[i] = f[i]
  BY DEF Pushed
<1>2. ASSUME NEW i \in 1 .. n + 1 PROVE i \in 1 .. n \/ i = n + 1
  BY <1>2
<1>3. p.last = Nil <=> n = 0
  BY EvLoopAssumption DEF IsList, PutIn, Events
<1> HIDE DEF h
<1>4. \A i \in 1 .. n + 1 : q.st[h[i]] = "live"
  BY <1>1, <1>2 DEF IsList, PutIn
<1>5. ASSUME NEW i \in 1 .. n + 1 PROVE q.next[h[i]] = IF i = 1 THEN h[i] ELSE h[i - 1]
  <2>1. CASE i \in 1 .. n
    <3>1. q.next[h[i]] = IF i = 1 THEN f[i] ELSE f[i - 1]
      BY <1>1, <2>1 DEF IsList, PutIn
    <3>2. i # 1 => i - 1 \in 1 .. n
      BY <2>1
    <3> QED
      BY <1>1, <2>1, <3>1, <3>2
  <2>2. CASE i = n + 1 /\ n = 0
    BY <1>1, <1>3, <2>2 DEF PutIn
  <2>3. CASE i = n + 1 /\ n # 0
    <3>1. q.next[h[i]] = f[n] /\ i # 1 /\ i - 1 = n /\ n \in 1 .. n
      BY <1>1, <1>3, <2>3 DEF IsList, PutIn
    <3> QED
      BY <1>1, <3>1
  <2> QED
    BY <1>2, <2>1, <2>2, <2>3
<1>6. \A i, j \in 1 .. n + 1 : h[i] = h[j] => i = j
  BY <1>1, <1>2 DEF IsList, PutIn
<1>7. e = IF n + 1 = 0 THEN Nil ELSE h[n + 1]
  BY <1>1
<1> QED
  BY <1>1, <1>4, <1>5, <1>6, <1>7 DEF IsList, PutIn, h

LEMMA PopIs ==
    ASSUME NEW p, NEW n \in Nat, NEW f \in [1 .. n -> Events], NEW head, head # Nil, IsList(p, f, n, head)
    PROVE  IsList(p, Popped(f, n), n - 1, IF p.next[head] = head THEN Nil ELSE p.next[head])
<1> DEFINE h == Popped(f, n)
           to == IF p.next[head] = head THEN Nil ELSE p.next[head]
<1>1. n \in Nat \ {0} /\ n - 1 \in Nat /\ f[n] = head /\ n \in 1 .. n
  BY DEF IsList
<1>2. h \in [1 .. n - 1 -> Events] /\ \A i \in 1 .. n - 1 : h[i] = f[i]
  BY <1>1 DEF Popped
<1>3. ASSUME NEW i \in 1 .. n - 1 PROVE i \in 1 .. n /\ f[i] # head /\ i # n
  BY <1>1 DEF IsList
<1>4. p.next[head] = (IF n = 1 THEN f[n] ELSE f[n - 1]) /\ head \in Events /\ p.st[head] = "live"
  BY <1>1 DEF IsList
<1>5. n # 1 => n - 1 \in 1 .. n - 1
  BY <1>1
<1>6. to = (IF n - 1 = 0 THEN Nil ELSE f[n - 1]) /\ p.next[head] \in Events
  BY <1>1, <1>3, <1>4, <1>5
<1> HIDE DEF h, to
<1>7. to = IF n - 1 = 0 THEN Nil ELSE h[n - 1]
  BY <1>2, <1>1, <1>5, <1>6
<1>8. \A i \in 1 .. n - 1 : p.st[h[i]] = "live"
  BY <1>2, <1>3 DEF IsList
<1>9. ASSUME NEW i \in 1 .. n - 1 PROVE p.next[h[i]] = IF i = 1 THEN h[i] ELSE h[i - 1]
  <2>1. p.next[h[i]] = IF i = 1 THEN f[i] ELSE f[i - 1]
    BY <1>2, <1>3 DEF IsList
  <2>2. i # 1 => i - 1 \in 1 .. n - 1
    BY <1>1
  <2> QED
    BY <1>2, <2>1, <2>2
<1>10. \A i, j \in 1 .. n - 1 : h[i] = h[j] => i = j
  BY <1>2, <1>3 DEF IsList
<1>11. IsList(p, h, n - 1, to)
  BY <1>7, <1>8, <1>9, <1>10 DEF IsList
<1> QED
  BY <1>11 DEF h, to

LEMMA KeptIs ==
    ASSUME NEW p, NEW q, NEW n \in Nat, NEW f \in [1 .. n -> Events], NEW head, IsList(p, f, n, head),
           \A i \in 1 .. n : q.st[f[i]] = p.st[f[i]] /\ q.next[f[i]] = p.next[f[i]]
    PROVE  IsList(q, f, n, head)
  BY DEF IsList

\* What is in a list asked to be deleted.
LEMMA ListedIs ==
    ASSUME NEW p, NEW n \in Nat, NEW f \in [1 .. n -> Events], NEW head, IsList(p, f, n, head), NEW i \in 1 .. n
    PROVE  f[i] \in Events /\ p.next[f[i]] \in Events /\ p.next[f[i]] # Nil
<1>1. i # 1 => i - 1 \in 1 .. n
  OBVIOUS
<1>2. p.next[f[i]] = IF i = 1 THEN f[i] ELSE f[i - 1]
  BY DEF IsList
<1>3. f[i] \in Events /\ p.next[f[i]] \in Events
  BY <1>1, <1>2
<1> QED
  BY <1>3, EvLoopAssumption DEF Events

\* A step that registers and deletes nothing.
LEMMA ListsSame ==
    ASSUME TwoLists, prog'.st = prog.st, prog'.next = prog.next, prog'.last = prog.last,
           prog'.timer \in {Nil, prog.timer}, rq' = rq, pc' = pc \/ pc' # "delete"
    PROVE  TwoLists'
<1>1. PICK n \in Nat, m \in Nat : \E f \in [1 .. n -> Events], g \in [1 .. m -> Events] : Lists(f, n, g, m)
  BY DEF TwoLists
<1>2. PICK f \in [1 .. n -> Events], g \in [1 .. m -> Events] : Lists(f, n, g, m)
  BY <1>1
<1>3. IsList(prog', f, n, prog'.last) /\ IsList(prog', g, m, rq')
  BY <1>2 DEF Lists, IsList
<1>4. Lists(f, n, g, m)'
  BY <1>2, <1>3 DEF Lists
<1> QED
  BY <1>4 DEF TwoLists

\* An event that is handled is put in the list once, whatever its methods do.
LEMMA ListsHandled ==
    ASSUME LoopType, Where, TwoLists, pc \in {"out", "inp", "errs"}, NEW e \in Events,
           prog.st[e] = "live", Handled(prog, prog', e), rq' = rq, pc' # "delete",
           e \in Timers /\ prog'.next[e] # prog.next[e] => prog.timer = Nil
    PROVE  TwoLists'
<1>1. PICK n \in Nat, m \in Nat : \E f \in [1 .. n -> Events], g \in [1 .. m -> Events] : Lists(f, n, g, m)
  BY DEF TwoLists
<1>2. PICK f \in [1 .. n -> Events], g \in [1 .. m -> Events] : Lists(f, n, g, m)
  BY <1>1
<1>3. IsList(prog, f, n, prog.last) /\ IsList(prog, g, m, rq)
  BY <1>2 DEF Lists
<1>4. prog'.st = prog.st /\ prog'.timer = prog.timer
  BY DEF Handled
<1>5. CASE prog'.last = prog.last /\ prog'.next[e] = prog.next[e]
  <2>1. \A x \in Events : prog'.next[x] = prog.next[x]
    BY <1>5 DEF Handled
  <2>2. /\ IsList(prog, f, n, prog.last) /\ IsList(prog, g, m, rq)
        /\ \A i \in 1 .. n : f[i] \in Events
        /\ \A i \in 1 .. m : g[i] \in Events
    BY <1>2 DEF Lists
  <2>3. IsList(prog', f, n, prog'.last) /\ IsList(prog', g, m, rq')
    BY <1>4, <1>5, <2>1, <2>2 DEF IsList
  <2>4. Lists(f, n, g, m)'
    BY <1>2, <1>4, <2>1, <2>3 DEF Lists
  <2> QED
    BY <2>4 DEF TwoLists
<1>6. CASE prog.next[e] = Nil /\ prog'.last = e /\ prog'.next[e] = IF prog.last # Nil THEN prog.last ELSE e
  <2> DEFINE h == Pushed(f, n, e)
  <2>1. /\ \A i \in 1 .. n : f[i] \in Events /\ f[i] # e /\ prog'.next[f[i]] = prog.next[f[i]]
        /\ \A i \in 1 .. m : g[i] \in Events /\ g[i] # e /\ prog'.next[g[i]] = prog.next[g[i]]
    <3>1. \A i \in 1 .. n : prog.next[f[i]] # Nil
      BY <1>3, ListedIs
    <3>2. \A i \in 1 .. m : prog.next[g[i]] # Nil
      BY <1>3, ListedIs
    <3> QED
      BY <1>2, <1>6, <3>1, <3>2 DEF Handled
  <2>2. /\ h \in [1 .. n + 1 -> Events] /\ h[n + 1] = e /\ \A i \in 1 .. n : h[i] = f[i]
        /\ IsList(prog', h, n + 1, prog'.last)
    <3>1. PutIn(prog, prog', f, n, e)
      BY <1>4, <1>6, <1>3, <2>1 DEF PutIn
    <3>2. h \in [1 .. n + 1 -> Events] /\ h[n + 1] = e /\ \A i \in 1 .. n : h[i] = f[i]
      BY DEF Pushed
    <3>3. IsList(prog', h, n + 1, e)
      BY <3>1, PushIs
    <3> QED
      BY <1>6, <3>2, <3>3
  <2>3. IsList(prog', g, m, rq')
    BY <1>4, <1>3, <2>1, KeptIs
  <2> HIDE DEF h
  <2>4. \A i \in 1 .. n + 1 : i \in 1 .. n \/ i = n + 1
    BY <1>2
  <2>5. \A i \in 1 .. n : i \in 1 .. n + 1
    BY <1>2
  <2>6. n + 1 \in Nat /\ n + 1 \in 1 .. n + 1
    BY <1>2
  <2>7. \A i \in 1 .. n + 1, j \in 1 .. m : h[i] # g[j]
    BY <1>2, <2>1, <2>2, <2>4 DEF Lists
  <2>8. \A x \in Events : prog'.next[x] # Nil => (\E i \in 1 .. n + 1 : x = h[i]) \/ (\E j \in 1 .. m : x = g[j])
    <3>1. ASSUME NEW x \in Events, prog'.next[x] # Nil, x # e
          PROVE  (\E i \in 1 .. n : x = f[i]) \/ (\E j \in 1 .. m : x = g[j])
      BY <1>2, <3>1 DEF Handled, Lists
    <3> QED
      BY <2>2, <2>5, <2>6, <3>1
  <2>9. \A i \in 1 .. n + 1 : h[i] \in Timers => prog'.timer = Nil /\ pc' # "delete"
    <3>1. e \in Timers => prog.timer = Nil
      BY <1>6, EvLoopAssumption DEF LoopType, Prog, Ptr, Events
    <3> QED
      BY <1>2, <1>4, <2>2, <2>4, <3>1 DEF Lists
  <2>10. Lists(h, n + 1, g, m)'
    BY <2>2, <2>3, <2>7, <2>8, <2>9 DEF Lists
  <2> QED
    BY <2>2, <2>6, <2>10 DEF TwoLists
<1> QED
  BY <1>5, <1>6 DEF Handled

\* The list that was made is taken, the next one is empty.
LEMMA ListsTake ==
    ASSUME LoopType, Where, TwoLists, TakeDeletions
    PROVE  TwoLists'
<1>1. PICK n \in Nat, m \in Nat : \E f \in [1 .. n -> Events], g \in [1 .. m -> Events] : Lists(f, n, g, m)
  BY DEF TwoLists
<1>2. PICK f \in [1 .. n -> Events], g \in [1 .. m -> Events] : Lists(f, n, g, m)
  BY <1>1
<1>3. prog'.st = prog.st /\ prog'.next = prog.next /\ prog'.last = Nil /\ prog'.timer = prog.timer /\ rq' = prog.last
  BY DEF TakeDeletions, LoopType, Prog
<1>4. IsList(prog, f, n, prog.last) /\ IsList(prog, g, m, rq) /\ rq = Nil
  BY <1>2 DEF Lists, Where, TakeDeletions
<1>5. m = 0
  BY <1>4, EvLoopAssumption DEF IsList, Events
<1>6. IsList(prog', g, m, prog'.last) /\ IsList(prog', f, n, rq')
  BY <1>3, <1>4, <1>5 DEF IsList
<1>7. Lists(g, m, f, n)'
  BY <1>2, <1>3, <1>5, <1>6 DEF Lists
<1> QED
  BY <1>7 DEF TwoLists

-----------------------------------------------------------------------------
\* The end of an event

\* Timers are as they were, or one that was free is in use.
OneTimer(p, q) ==
    \/ /\ p.timer # Nil /\ q.timer = p.timer
       /\ \A t \in Timers : q.st[t] = p.st[t] /\ q.next[t] = p.next[t] /\ q.waiting[t] = p.waiting[t]
    \/ /\ p.timer = Nil /\ q.timer \in Timers /\ p.st[q.timer] = "free"
       /\ q.st[q.timer] = "live" /\ q.next[q.timer] = Nil /\ q.waiting[q.timer] = {"inp"}
       /\ \A t \in Timers : t # q.timer =>
             q.st[t] = p.st[t] /\ q.next[t] = p.next[t] /\ q.waiting[t] = p.waiting[t]

SameConn(p, q, c) == q.st[c] = p.st[c] /\ q.next[c] = p.next[c] /\ q.waiting[c] = p.waiting[c]

LEMMA WithTimerIs ==
    ASSUME NEW p \in Prog, p.timer # Nil \/ \E t \in Timers : p.st[t] = "free"
    PROVE  LET q == WithTimer(p)
           IN /\ q \in Prog /\ q.errors = p.errors /\ q.last = p.last /\ SameData(p, q)
              /\ OneTimer(p, q) /\ \A c \in Conns : SameConn(p, q, c)
<1>1. CASE p.timer # Nil
  BY <1>1 DEF WithTimer, OneTimer, SameConn, SameData
<1>2. CASE p.timer = Nil
  <2> DEFINE t == NewTimer(p)
             a == [p.st EXCEPT ![t] = "live"]
             w == [p.waiting EXCEPT ![t] = {"inp"}]
             n == [p.next EXCEPT ![t] = Nil]
             q == [p EXCEPT !.timer = t, !.st = a, !.waiting = w, !.next = n]
  <2>1. t \in Timers /\ p.st[t] = "free"
    BY <1>2 DEF NewTimer
  <2>2. WithTimer(p) = q
    BY <1>2 DEF WithTimer
  <2> HIDE DEF t
  <2>3. t \in Events /\ \A c \in Conns : c # t /\ c \in Events
    BY <2>1, EvLoopAssumption DEF Events
  <2>4. /\ a \in [Events -> {"live", "deleted", "free"}] /\ a[t] = "live"
        /\ \A x \in Events : x # t => a[x] = p.st[x]
    BY <2>3 DEF Prog
  <2>5. /\ w \in [Events -> SUBSET {"inp", "out", "pendingo"}] /\ w[t] = {"inp"}
        /\ \A x \in Events : x # t => w[x] = p.waiting[x]
    BY <2>3 DEF Prog
  <2>6. n \in [Events -> Ptr] /\ n[t] = Nil /\ \A x \in Events : x # t => n[x] = p.next[x]
    BY <2>3 DEF Prog, Ptr
  <2> HIDE DEF a, w, n
  <2>7. q \in Prog
    BY <2>1, <2>4, <2>5, <2>6 DEF Prog
  <2>8. /\ q.timer = t /\ q.st = a /\ q.waiting = w /\ q.next = n
        /\ q.errors = p.errors /\ q.last = p.last /\ q.cw = p.cw /\ q.wfc = p.wfc
    BY DEF Prog
  <2> HIDE DEF q
  <2>9. OneTimer(p, q)
    BY <1>2, <2>1, <2>4, <2>5, <2>6, <2>8 DEF OneTimer, Events
  <2>10. \A c \in Conns : SameConn(p, q, c)
    BY <2>3, <2>4, <2>5, <2>6, <2>8 DEF SameConn
  <2> QED
    BY <2>2, <2>7, <2>8, <2>9, <2>10 DEF SameData
<1> QED
  BY <1>1, <1>2

LEMMA CheckLaterIs ==
    ASSUME NEW p \in Prog, NEW e \in Conns, p.timer # Nil \/ \E t \in Timers : p.st[t] = "free"
    PROVE  LET q == CheckLater(p, e)
           IN /\ q \in Prog /\ q.errors = p.errors /\ SameData(p, q) /\ OneTimer(p, q)
              /\ q.last = e /\ q.next[e] = (IF p.last # Nil THEN p.last ELSE e) /\ q.st[e] = p.st[e]
              /\ \A c \in Conns : c # e => SameConn(p, q, c)
<1> DEFINE r == WithTimer(p)
           n == [r.next EXCEPT ![e] = IF p.last # Nil THEN p.last ELSE e]
           w == [r.waiting EXCEPT ![e] = @ \cup {"pendingo"}]
           k == r.nb + 1
           q == [r EXCEPT !.next = n, !.last = e, !.waiting = w, !.nb = k]
<1>1. /\ r \in Prog /\ r.errors = p.errors /\ r.last = p.last /\ SameData(p, r)
      /\ OneTimer(p, r) /\ \A c \in Conns : SameConn(p, r, c)
  BY WithTimerIs
<1>2. e \in Events /\ e \in Ptr /\ p.last \in Ptr /\ \A t \in Timers : t # e /\ t \in Events
  BY EvLoopAssumption DEF Events, Ptr, Prog
<1>3. CheckLater(p, e) = q
  BY DEF CheckLater
<1> HIDE DEF r
<1>4. /\ n \in [Events -> Ptr] /\ n[e] = (IF p.last # Nil THEN p.last ELSE e)
      /\ \A x \in Events : x # e => n[x] = r.next[x]
  BY <1>1, <1>2 DEF Prog
<1>5. /\ w \in [Events -> SUBSET {"inp", "out", "pendingo"}]
      /\ \A x \in Events : x # e => w[x] = r.waiting[x]
  BY <1>1, <1>2 DEF Prog
<1>6. k \in Int
  BY <1>1 DEF Prog
<1> HIDE DEF n, w, k
<1>7. q \in Prog
  BY <1>1, <1>2, <1>4, <1>5, <1>6 DEF Prog
<1>8. /\ q.timer = r.timer /\ q.st = r.st /\ q.waiting = w /\ q.next = n
      /\ q.errors = r.errors /\ q.last = e /\ q.cw = r.cw /\ q.wfc = r.wfc
  BY <1>1 DEF Prog
<1> HIDE DEF q
<1>9. OneTimer(p, q)
  BY <1>1, <1>2, <1>4, <1>5, <1>8 DEF OneTimer
<1>10. \A c \in Conns : c # e => SameConn(p, q, c)
  BY <1>1, <1>4, <1>5, <1>8 DEF SameConn, Events
<1>11. q.st[e] = p.st[e]
  BY <1>1, <1>8 DEF SameConn
<1> QED
  BY <1>1, <1>3, <1>4, <1>7, <1>8, <1>9, <1>10, <1>11 DEF SameData

LEMMA DeletedIs ==
    ASSUME NEW p \in Prog, NEW e \in Events
    PROVE  LET q == Deleted(p, e)
           IN /\ q \in Prog /\ q.errors = p.errors /\ q.waiting = p.waiting /\ q.last = p.last /\ q.timer = p.timer
              /\ SameData(p, q) /\ q.next[e] = Nil /\ q.st[e] = IF e \in Conns THEN "deleted" ELSE "free"
              /\ \A x \in Events : x # e => q.st[x] = p.st[x] /\ q.next[x] = p.next[x]
<1> DEFINE a == [p.st EXCEPT ![e] = IF e \in Conns THEN "deleted" ELSE "free"]
           n == [p.next EXCEPT ![e] = Nil]
           q == [p EXCEPT !.st = a, !.next = n]
<1>1. /\ a \in [Events -> {"live", "deleted", "free"}] /\ a[e] = (IF e \in Conns THEN "deleted" ELSE "free")
      /\ \A x \in Events : x # e => a[x] = p.st[x]
  BY DEF Prog
<1>2. n \in [Events -> Ptr] /\ n[e] = Nil /\ \A x \in Events : x # e => n[x] = p.next[x]
  BY DEF Prog, Ptr
<1>3. Deleted(p, e) = q
  BY DEF Deleted
<1> HIDE DEF a, n
<1>4. q \in Prog
  BY <1>1, <1>2 DEF Prog
<1>5. /\ q.st = a /\ q.next = n /\ q.errors = p.errors /\ q.waiting = p.waiting
      /\ q.last = p.last /\ q.timer = p.timer /\ q.cw = p.cw /\ q.wfc = p.wfc
  BY DEF Prog
<1> QED
  BY <1>1, <1>2, <1>3, <1>4, <1>5 DEF SameData

LEMMA NoMorePendingIs ==
    ASSUME NEW p \in Prog, NEW e \in Events
    PROVE  LET q == NoMorePending(p, e)
           IN /\ q \in Prog /\ q.st = p.st /\ q.errors = p.errors /\ q.waiting = p.waiting /\ q.next = p.next
              /\ q.last = p.last /\ q.timer = p.timer /\ SameData(p, q)
  BY DEF NoMorePending, SameData, Prog

\* There is memory for a new timer: no more than one is ending.
LEMMA TimerIsFree ==
    ASSUME TwoTimers, LoopType, TimersRight
    PROVE  prog.timer # Nil \/ \E t \in Timers : prog.st[t] = "free"
<1> SUFFICES ASSUME prog.timer = Nil, \A t \in Timers : prog.st[t] # "free" PROVE FALSE
  OBVIOUS
<1>1. \A t \in Timers : Dying(t)
  BY EvLoopAssumption DEF Dying, LoopType, Prog, Events, TimersRight
<1> QED
  BY <1>1 DEF TwoTimers, TimersRight

\* What a step of the deletions does to e: it is deleted, or registered again
\* for the timer, only if it is a connection with data the kernel has not sent.
Ended(p, q, e) ==
    \/ /\ e \in Conns /\ q.last = e /\ q.next[e] = (IF p.last # Nil THEN p.last ELSE e) /\ q.st[e] = p.st[e]
       /\ OneTimer(p, q) /\ \A c \in Conns : c # e => SameConn(p, q, c)
    \/ /\ q.last = p.last /\ q.timer = p.timer /\ q.waiting = p.waiting /\ q.next[e] = Nil
       /\ q.st[e] = IF e \in Conns THEN "deleted" ELSE "free"
       /\ \A x \in Events : x # e => q.st[x] = p.st[x] /\ q.next[x] = p.next[x]
       /\ e \in Conns => ~(p.errors[e] = {} /\ net.sock[e].snd > 0)

LEMMA EndedIs ==
    ASSUME TwoTimers, LoopType, TimersRight, Delete, rq \in Events
    PROVE  prog' \in Prog /\ prog'.errors = prog.errors /\ SameData(prog, prog') /\ Ended(prog, prog', rq)
<1> DEFINE p == NoMorePending(prog, rq)
<1>1. /\ p \in Prog /\ p.st = prog.st /\ p.errors = prog.errors /\ p.waiting = prog.waiting
      /\ p.next = prog.next /\ p.last = prog.last /\ p.timer = prog.timer /\ SameData(prog, p)
  BY NoMorePendingIs DEF LoopType
<1>2. prog' = IF Pending(p, rq) THEN CheckLater(p, rq) ELSE Deleted(p, rq)
  BY DEF Delete
<1> HIDE DEF p
<1>3. CASE Pending(p, rq)
  <2>1. rq \in Conns /\ prog' = CheckLater(p, rq)
    BY <1>2, <1>3 DEF Pending, HasOut
  <2>2. p.timer # Nil \/ \E t \in Timers : p.st[t] = "free"
    BY <1>1, TimerIsFree
  <2>3. /\ prog' \in Prog /\ prog'.errors = p.errors /\ SameData(p, prog') /\ OneTimer(p, prog')
        /\ prog'.last = rq /\ prog'.next[rq] = (IF p.last # Nil THEN p.last ELSE rq) /\ prog'.st[rq] = p.st[rq]
        /\ \A c \in Conns : c # rq => SameConn(p, prog', c)
    BY <1>1, <2>1, <2>2, CheckLaterIs
  <2>4. OneTimer(prog, prog') /\ \A c \in Conns : c # rq => SameConn(prog, prog', c)
    BY <1>1, <2>3 DEF OneTimer, SameConn
  <2> QED
    BY <1>1, <2>1, <2>3, <2>4 DEF Ended, SameData
<1>4. CASE ~Pending(p, rq)
  <2>1. prog' = Deleted(p, rq)
    BY <1>2, <1>4
  <2>2. /\ prog' \in Prog /\ prog'.errors = p.errors /\ prog'.waiting = p.waiting /\ prog'.last = p.last
        /\ prog'.timer = p.timer /\ SameData(p, prog') /\ prog'.next[rq] = Nil
        /\ prog'.st[rq] = (IF rq \in Conns THEN "deleted" ELSE "free")
        /\ \A x \in Events : x # rq => prog'.st[x] = p.st[x] /\ prog'.next[x] = p.next[x]
    BY <1>1, <2>1, DeletedIs
  <2>3. rq \in Conns => ~(p.errors[rq] = {} /\ net.sock[rq].snd > 0)
    BY <1>4 DEF Pending, HasOut
  <2> QED
    BY <1>1, <2>2, <2>3 DEF Ended, SameData
<1> QED
  BY <1>3, <1>4

LEMMA ListsDelete ==
    ASSUME TwoTimers, LoopType, Where, TwoLists, TimersRight, Delete
    PROVE  /\ TwoLists' /\ rq \in Events /\ prog.st[rq] = "live" /\ prog.next[rq] # Nil
           /\ Ended(prog, prog', rq) /\ prog' \in Prog /\ prog'.errors = prog.errors /\ SameData(prog, prog')
           /\ rq' \in Ptr
           /\ rq' = Nil => \A t \in Timers : t # rq => prog.next[t] = Nil
<1>1. PICK n \in Nat, m \in Nat : \E f \in [1 .. n -> Events], g \in [1 .. m -> Events] : Lists(f, n, g, m)
  BY DEF TwoLists
<1>2. PICK f \in [1 .. n -> Events], g \in [1 .. m -> Events] : Lists(f, n, g, m)
  BY <1>1
<1>3. IsList(prog, f, n, prog.last) /\ IsList(prog, g, m, rq) /\ rq # Nil /\ pc = "delete"
  BY <1>2 DEF Lists, Where, Delete
<1> DEFINE h == Popped(g, m)
<1>4. rq \in Events /\ m \in 1 .. m /\ m - 1 \in Nat /\ g[m] = rq /\ prog.next[rq] \in Events
      /\ prog.next[rq] # Nil /\ prog.st[rq] = "live"
  <2>1. m \in 1 .. m /\ m - 1 \in Nat /\ g[m] = rq
    BY <1>3 DEF IsList
  <2>2. prog.st[g[m]] = "live"
    BY <1>3, <2>1 DEF IsList
  <2> QED
    BY <1>3, <2>1, <2>2, ListedIs
<1>5. /\ m - 1 \in Nat /\ m \in 1 .. m /\ g[m] = rq /\ rq \in Events /\ prog.st[rq] = "live" /\ prog.next[rq] \in Events
      /\ h \in [1 .. m - 1 -> Events]
      /\ \A i \in 1 .. m - 1 : i \in 1 .. m /\ h[i] = g[i] /\ g[i] # rq
      /\ \A i \in 1 .. m : i \in 1 .. m - 1 \/ i = m
      /\ IsList(prog, h, m - 1, IF prog.next[rq] = rq THEN Nil ELSE prog.next[rq])
  <2>1. h \in [1 .. m - 1 -> Events] /\ \A i \in 1 .. m - 1 : h[i] = g[i]
    BY <1>4 DEF Popped
  <2>2. \A i \in 1 .. m - 1 : i \in 1 .. m /\ g[i] # rq
    BY <1>3, <1>4 DEF IsList
  <2>3. \A i \in 1 .. m : i \in 1 .. m - 1 \/ i = m
    OBVIOUS
  <2>4. IsList(prog, h, m - 1, IF prog.next[rq] = rq THEN Nil ELSE prog.next[rq])
    BY <1>3, PopIs
  <2> QED
    BY <1>4, <2>1, <2>2, <2>3, <2>4
<1>6. rq' = (IF prog.next[rq] = rq THEN Nil ELSE prog.next[rq]) /\ rq' \in Ptr
  BY <1>5 DEF Delete, Ptr
<1>7. /\ prog' \in Prog /\ prog'.errors = prog.errors /\ SameData(prog, prog') /\ Ended(prog, prog', rq)
  BY <1>5, EndedIs
<1>8. \A i \in 1 .. n : f[i] \in Conns /\ f[i] # rq /\ f[i] \in Events /\ prog.st[f[i]] = "live"
  <2>1. \A i \in 1 .. n : f[i] \in Events /\ f[i] \notin Timers /\ f[i] # rq /\ prog.st[f[i]] = "live"
    BY <1>2, <1>3, <1>5 DEF Lists, IsList
  <2> QED
    BY <2>1 DEF Events
<1> HIDE DEF h
<1>9. \A i \in 1 .. m - 1 : h[i] \in Events /\ h[i] # rq /\ prog.st[h[i]] = "live"
  BY <1>5 DEF IsList
<1>10. ASSUME NEW x \in Events, x # rq, prog.st[x] = "live"
      PROVE  prog'.st[x] = prog.st[x] /\ prog'.next[x] = prog.next[x]
  BY <1>7, <1>10 DEF Ended, OneTimer, SameConn, Events
<1>11. IsList(prog', h, m - 1, rq')
  <2>1. \A i \in 1 .. m - 1 : prog'.st[h[i]] = prog.st[h[i]] /\ prog'.next[h[i]] = prog.next[h[i]]
    BY <1>9, <1>10
  <2> QED
    BY <1>5, <1>6, <2>1 DEF IsList
<1>12. ASSUME NEW x \in Events, x # rq, prog'.next[x] # Nil
       PROVE  (\E i \in 1 .. n : x = f[i]) \/ (\E j \in 1 .. m - 1 : x = h[j])
  <2>1. prog.next[x] # Nil
    BY <1>7, <1>12 DEF Ended, OneTimer, SameConn, Events
  <2>2. (\E i \in 1 .. n : x = f[i]) \/ (\E j \in 1 .. m : x = g[j])
    BY <1>2, <2>1 DEF Lists
  <2> QED
    BY <1>5, <1>12, <2>2
<1>13. \A i \in 1 .. n, j \in 1 .. m - 1 : f[i] # h[j]
  BY <1>2, <1>5 DEF Lists
<1>14. TwoLists'
  <2>1. CASE prog'.last = prog.last /\ prog'.next[rq] = Nil
    <3>1. IsList(prog', f, n, prog'.last)
      <4>1. \A i \in 1 .. n : prog'.st[f[i]] = prog.st[f[i]] /\ prog'.next[f[i]] = prog.next[f[i]]
        BY <1>8, <1>10
      <4> QED
        BY <1>3, <2>1, <4>1 DEF IsList
    <3>2. \A i \in 1 .. n : f[i] \notin Timers
      BY <1>8, EvLoopAssumption
    <3>3. Lists(f, n, h, m - 1)'
      BY <1>11, <1>12, <1>13, <2>1, <3>1, <3>2 DEF Lists
    <3> QED
      BY <1>5, <3>3 DEF TwoLists
  <2>2. CASE rq \in Conns /\ prog'.last = rq /\ prog'.st[rq] = prog.st[rq]
             /\ prog'.next[rq] = IF prog.last # Nil THEN prog.last ELSE rq
    <3>1. PICK e \in Events : e = rq
      BY <1>5
    <3> DEFINE l == Pushed(f, n, e)
    <3>2. PutIn(prog, prog', f, n, e)
      <4>1. \A i \in 1 .. n : f[i] # rq /\ prog'.st[f[i]] = prog.st[f[i]] /\ prog'.next[f[i]] = prog.next[f[i]]
        BY <1>8, <1>10
      <4> QED
        BY <1>3, <1>5, <2>2, <3>1, <4>1 DEF PutIn
    <3>3. l \in [1 .. n + 1 -> Events] /\ l[n + 1] = rq /\ \A i \in 1 .. n : l[i] = f[i]
      BY <3>1 DEF Pushed
    <3>4. IsList(prog', l, n + 1, e)
      BY <3>2, PushIs
    <3> HIDE DEF l
    <3>5. /\ n + 1 \in Nat /\ n + 1 \in 1 .. n + 1
          /\ \A i \in 1 .. n + 1 : i \in 1 .. n \/ i = n + 1
          /\ \A i \in 1 .. n : i \in 1 .. n + 1
      BY <1>1
    <3>6. \A i \in 1 .. n + 1 : l[i] \notin Timers
      BY <1>8, <2>2, <3>3, <3>5, EvLoopAssumption
    <3>7. \A i \in 1 .. n + 1, j \in 1 .. m - 1 : l[i] # h[j]
      BY <1>9, <1>13, <3>3, <3>5
    <3>8. \A x \in Events : prog'.next[x] # Nil => (\E i \in 1 .. n + 1 : x = l[i]) \/ (\E j \in 1 .. m - 1 : x = h[j])
      BY <1>12, <3>3, <3>5
    <3>9. IsList(prog', l, n + 1, prog'.last)
      BY <2>2, <3>4, <3>1
    <3>10. Lists(l, n + 1, h, m - 1)'
      BY <1>11, <3>6, <3>7, <3>8, <3>9 DEF Lists
    <3> QED
      BY <1>5, <3>3, <3>5, <3>10 DEF TwoLists
  <2> QED
    BY <1>7, <2>1, <2>2 DEF Ended
<1>15. ASSUME rq' = Nil, NEW t \in Timers, t # rq PROVE prog.next[t] = Nil
  <2>1. m - 1 = 0
    BY <1>5, <1>6, <1>11, <1>15, EvLoopAssumption DEF IsList, Events
  <2>2. t \in Events /\ \A i \in 1 .. n : t # f[i]
    BY <1>8, EvLoopAssumption DEF Events
  <2>3. \A j \in 1 .. m : t # g[j]
    BY <1>5, <1>15, <2>1
  <2> QED
    BY <1>2, <2>2, <2>3 DEF Lists
<1> QED
  BY <1>5, <1>6, <1>7, <1>14, <1>15, <1>4

\* The walk of the deletions.
LEMMA DeleteInv == ASSUME TwoTimers, LoopInv, Delete PROVE LoopInv'
<1>1. LoopType /\ Where /\ TwoLists /\ TimersRight /\ Connecting /\ Unsent /\ ClosedAfterSent
  BY DEF LoopInv
<1>2. /\ TwoLists' /\ rq \in Events /\ prog.st[rq] = "live" /\ prog.next[rq] # Nil
      /\ Ended(prog, prog', rq) /\ prog' \in Prog /\ prog'.errors = prog.errors /\ SameData(prog, prog')
      /\ rq' \in Ptr
      /\ rq' = Nil => \A t \in Timers : t # rq => prog.next[t] = Nil
  BY <1>1, ListsDelete
<1>3. /\ pc = "delete" /\ DOMAIN batch = {} /\ batch' = batch /\ cur' = cur
      /\ net' = (IF prog'.st[rq] = "live" THEN net ELSE [net EXCEPT !.armed = @ \ {rq}])
      /\ pc' = IF rq' # Nil THEN "delete" ELSE IF prog.cnt THEN "wait" ELSE "ran"
  BY <1>1 DEF Delete, Where
<1>4. ASSUME NEW x \in Events, x # rq, prog.st[x] = "live"
      PROVE  prog'.st[x] = "live"
  BY <1>2, <1>4 DEF Ended, OneTimer, SameConn, Events
<1>5. /\ net' \in [sock : [Conns -> Socket], armed : SUBSET Events] /\ net'.sock = net.sock
       /\ net'.armed \subseteq net.armed /\ (prog'.st[rq] # "live" => rq \notin net'.armed)
  BY <1>1, <1>3 DEF LoopType
<1>6. LoopType'
  BY <1>1, <1>2, <1>3, <1>5 DEF LoopType
<1>7. Where'
  <2>1. \A e \in net'.armed : prog'.st[e] = "live"
    BY <1>1, <1>4, <1>5 DEF Where, LoopType
  <2> QED
    BY <1>3, <2>1 DEF Where
<1>8. TimersRight'
  <2>1. /\ prog.timer # Nil => /\ prog.st[prog.timer] = "live" /\ prog.next[prog.timer] = Nil
                               /\ prog.waiting[prog.timer] = {"inp"}
        /\ \A t \in Timers : prog.st[t] # "deleted" /\ (prog.st[t] = "live" => prog.waiting[t] \subseteq {"inp"})
        /\ \A t \in Timers : Dying(t) => prog.next[t] # Nil
        /\ \A t, u \in Timers : Dying(t) /\ Dying(u) => t = u
    BY <1>1, <1>3 DEF TimersRight
  <2>2. \A t \in Timers : t \in Events /\ t \notin Conns /\ t # Nil
    BY EvLoopAssumption DEF Events
  <2>3. prog.timer # Nil => prog.timer \in Timers /\ prog.timer # rq /\ prog'.timer = prog.timer
    BY <1>1, <1>2, <2>1 DEF LoopType, Prog, Ended, OneTimer
  <2>4. prog'.timer # Nil => /\ prog'.st[prog'.timer] = "live" /\ prog'.next[prog'.timer] = Nil
                             /\ prog'.waiting[prog'.timer] = {"inp"}
    BY <1>2, <2>1, <2>2, <2>3 DEF Ended, OneTimer
  <2>5. ASSUME NEW t \in Timers
        PROVE  prog'.st[t] # "deleted" /\ (prog'.st[t] = "live" => prog'.waiting[t] \subseteq {"inp"})
    BY <1>2, <2>1, <2>2 DEF Ended, OneTimer
  <2>6. ASSUME NEW t \in Timers, prog'.st[t] = "live", t # prog'.timer
        PROVE  Dying(t) /\ t # rq /\ prog'.next[t] # Nil
    <3>1. t # rq /\ prog.st[t] = "live" /\ t # prog.timer /\ prog'.next[t] = prog.next[t]
      BY <1>2, <2>2, <2>3, <2>6 DEF Ended, OneTimer
    <3>2. Dying(t)
      BY <3>1 DEF Dying
    <3> QED
      BY <2>1, <3>1, <3>2
  <2>7. ASSUME NEW t \in Timers, Dying(t)' PROVE Dying(t) /\ t # rq /\ prog'.next[t] # Nil
    BY <2>6, <2>7 DEF Dying
  <2>8. ASSUME NEW t \in Timers, Dying(t)', pc' # "delete" PROVE FALSE
    BY <1>2, <1>3, <2>1, <2>7, <2>8
  <2> QED
    BY <1>3, <2>1, <2>4, <2>5, <2>7, <2>8 DEF TimersRight
<1>9. Connecting'
  BY <1>1, <1>2, <1>3, <1>5 DEF Connecting, SameData
<1>10. ASSUME NEW c \in Conns, c # rq PROVE SameConn(prog, prog', c)
  BY <1>2, <1>10 DEF Ended, SameConn, Events
<1>11. rq \in Conns => (prog'.st[rq] = "live" /\ prog'.next[rq] # Nil) \/ (prog'.st[rq] = "deleted" /\ prog'.next[rq] = Nil)
  BY <1>2, EvLoopAssumption DEF Ended, Events
<1>12. Unsent'
  BY <1>1, <1>2, <1>10, <1>11 DEF Unsent, SameConn, SameData
<1>13. ClosedAfterSent'
  <2>1. ASSUME rq \in Conns, prog'.st[rq] = "deleted", prog.errors[rq] = {}
        PROVE  prog.cw[rq] = 0 /\ net.sock[rq].snd = 0
    <3>1. prog.cw[rq] = 0
      BY <1>1, <1>2, <2>1 DEF Unsent
    <3>2. ~(net.sock[rq].snd > 0)
      BY <1>2, <2>1 DEF Ended
    <3>3. net.sock[rq].snd \in 0 .. Space /\ Space \in Nat
      BY <1>1, <2>1, EvLoopAssumption DEF LoopType, Socket
    <3> QED
      BY <3>1, <3>2, <3>3
  <2> QED
    BY <1>1, <1>2, <1>5, <1>10, <2>1 DEF ClosedAfterSent, SameConn, SameData
<1> QED
  BY <1>2, <1>6, <1>7, <1>8, <1>9, <1>12, <1>13 DEF LoopInv

-----------------------------------------------------------------------------
\* The kernel

\* What a change of the socket of c must keep.
SocketRight(sk, c) ==
    /\ sk \in Socket
    /\ sk.conn = "pending" => ~sk.rst /\ sk.rcv = 0 /\ ~sk.fin
    /\ prog.wfc[c] => sk.snd = 0

LEMMA SocketInv ==
    ASSUME LoopInv, NEW c \in Conns, NEW sk, SocketRight(sk, c), prog.st[c] = "live",
           net' \in [sock : {[net.sock EXCEPT ![c] = sk]}, armed : SUBSET (net.armed \cup {c})],
           UNCHANGED <<prog, pc, batch, cur, rq>>
    PROVE  LoopInv'
<1>1. LoopType /\ Where /\ TwoLists /\ TimersRight /\ Connecting /\ Unsent /\ ClosedAfterSent
  BY DEF LoopInv
<1>2. /\ net'.sock \in [Conns -> Socket] /\ net'.sock[c] = sk /\ \A d \in Conns : d # c => net'.sock[d] = net.sock[d]
      /\ net'.armed \subseteq net.armed \cup {c} /\ c \in Events
  BY <1>1 DEF LoopType, SocketRight, Events
<1>3. LoopType'
  BY <1>1, <1>2 DEF LoopType
<1>4. Where'
  BY <1>1, <1>2 DEF Where
<1>5. TwoLists'
  BY <1>1, ListsSame
<1>6. TimersRight'
  BY <1>1 DEF TimersRight, Dying
<1>7. Connecting'
  BY <1>1, <1>2 DEF Connecting, SocketRight
<1>8. Unsent' /\ ClosedAfterSent'
  BY <1>1, <1>2 DEF Unsent, ClosedAfterSent
<1> QED
  BY <1>3, <1>4, <1>5, <1>6, <1>7, <1>8 DEF LoopInv

LEMMA NetworkInv == ASSUME LoopInv, Network PROVE LoopInv'
<1>1. LoopType /\ Where /\ TwoLists /\ TimersRight /\ Connecting /\ Unsent /\ ClosedAfterSent
  BY DEF LoopInv
<1>2. ASSUME NEW c \in Conns, NEW sk, Kernel(c, sk), SocketRight(sk, c) PROVE LoopInv'
  BY <1>2, SocketInv DEF Kernel
<1>3. ASSUME NEW c \in Conns
      PROVE  /\ net.sock[c] \in Socket /\ (prog.wfc[c] => net.sock[c].snd = 0)
             /\ net.sock[c].conn = "pending" => ~net.sock[c].rst /\ net.sock[c].rcv = 0 /\ ~net.sock[c].fin
  BY <1>1 DEF LoopType, Connecting
<1>4. ASSUME NEW c \in Conns, Established(c) PROVE LoopInv'
  <2>1. SocketRight([net.sock[c] EXCEPT !.conn = "ok"], c)
    BY <1>3 DEF SocketRight, Socket
  <2> QED
    BY <1>2, <1>4, <2>1 DEF Established
<1>5. ASSUME NEW c \in Conns, Refused(c) PROVE LoopInv'
  <2>1. SocketRight([net.sock[c] EXCEPT !.conn = "refused"], c)
    BY <1>3 DEF SocketRight, Socket
  <2> QED
    BY <1>2, <1>5, <2>1 DEF Refused
<1>6. ASSUME NEW c \in Conns, Arrived(c) PROVE LoopInv'
  <2>1. SocketRight([net.sock[c] EXCEPT !.rcv = @ + 1, !.got = @ + 1], c)
    <3>1. net.sock[c] \in Socket /\ net.sock[c].conn = "ok"
      BY <1>3, <1>6 DEF Arrived, Usable
    <3>2. net.sock[c].rcv + 1 \in Nat /\ net.sock[c].got + 1 \in Nat
      BY <3>1 DEF Socket
    <3> QED
      BY <1>3, <3>1, <3>2 DEF SocketRight, Socket
  <2> QED
    BY <1>2, <1>6, <2>1 DEF Arrived
<1>7. ASSUME NEW c \in Conns, Finished(c) PROVE LoopInv'
  <2>1. SocketRight([net.sock[c] EXCEPT !.fin = TRUE], c)
    BY <1>3, <1>7 DEF SocketRight, Socket, Finished, Usable
  <2> QED
    BY <1>2, <1>7, <2>1 DEF Finished
<1>8. ASSUME NEW c \in Conns, Reset(c) PROVE LoopInv'
  <2>1. SocketRight([net.sock[c] EXCEPT !.rst = TRUE, !.rcv = 0, !.snd = 0], c)
    <3>1. net.sock[c] \in Socket /\ net.sock[c].conn = "ok"
      BY <1>3, <1>8 DEF Reset, Usable
    <3>2. 0 \in 0 .. Space
      BY EvLoopAssumption
    <3> QED
      BY <3>1, <3>2 DEF SocketRight, Socket
  <2> QED
    BY <1>2, <1>8, <2>1 DEF Reset
<1>9. ASSUME NEW c \in Conns, Acked(c) PROVE LoopInv'
  <2> DEFINE sk == [net.sock[c] EXCEPT !.snd = @ - 1, !.full = FALSE]
  <2>1. SocketRight(sk, c)
    <3>1. net.sock[c] \in Socket /\ net.sock[c].conn = "ok" /\ net.sock[c].snd > 0
      BY <1>3, <1>9 DEF Acked, Usable
    <3>2. net.sock[c].snd \in 0 .. Space
      BY <3>1 DEF Socket
    <3>3. net.sock[c].snd - 1 \in 0 .. Space /\ net.sock[c].snd # 0
      BY <3>1, <3>2, EvLoopAssumption
    <3> QED
      BY <1>3, <3>1, <3>3 DEF SocketRight, Socket
  <2>2. [net.sock EXCEPT ![c].snd = @ - 1, ![c].full = FALSE] = [net.sock EXCEPT ![c] = sk]
    BY <1>1 DEF LoopType
  <2>3. /\ net' \in [sock : {[net.sock EXCEPT ![c] = sk]}, armed : SUBSET (net.armed \cup {c})]
        /\ prog.st[c] = "live" /\ UNCHANGED <<prog, pc, batch, cur, rq>>
    BY <1>9, <2>2 DEF Acked
  <2> HIDE DEF sk
  <2> QED
    BY <2>1, <2>3, SocketInv
<1>10. ASSUME NEW t \in Timers, Expired(t) PROVE LoopInv'
  <2>1. /\ net' \in [sock : [Conns -> Socket], armed : SUBSET Events] /\ net'.sock = net.sock
        /\ net'.armed = net.armed \cup {t} /\ prog.st[t] = "live" /\ UNCHANGED <<prog, pc, batch, cur, rq>>
    BY <1>1, <1>10 DEF Expired, LoopType, Events
  <2>2. LoopType' /\ Where'
    BY <1>1, <2>1 DEF LoopType, Where
  <2>3. TwoLists'
    BY <1>1, <2>1, ListsSame
  <2>4. TimersRight' /\ Connecting' /\ Unsent' /\ ClosedAfterSent'
    BY <1>1, <2>1 DEF TimersRight, Dying, Connecting, Unsent, ClosedAfterSent
  <2> QED
    BY <2>2, <2>3, <2>4 DEF LoopInv
<1> QED
  BY <1>4, <1>5, <1>6, <1>7, <1>8, <1>9, <1>10 DEF Network

\* A socket epoll has something to say of, if its connection is not known to be
\* made, can be written to or is dead.
LEMMA EpollWaitInv == ASSUME LoopInv, EpollWait PROVE LoopInv'
<1>1. LoopType /\ Where /\ TwoLists /\ TimersRight /\ Connecting /\ Unsent /\ ClosedAfterSent
  BY DEF LoopInv
<1> DEFINE reported == {e \in net.armed : Mask(e) # {}}
<1>2. /\ pc = "wait" /\ pc' = "next" /\ UNCHANGED <<prog, cur, rq>>
      /\ batch' = [e \in reported |-> Mask(e)] /\ net' = [sock |-> [c \in Conns |-> Polled(c)], armed |-> {}]
  BY DEF EpollWait
<1>3. reported \subseteq Events /\ \A e \in reported : prog.st[e] = "live"
  BY <1>1 DEF LoopType, Where
<1>4. DOMAIN batch' = reported /\ \A e \in reported : batch'[e] = Mask(e) /\ Mask(e) # {}
  BY <1>2
<1>5. ASSUME NEW c \in Conns
      PROVE  /\ net'.sock[c] \in Socket /\ net'.sock[c].conn = net.sock[c].conn /\ net'.sock[c].rst = net.sock[c].rst
             /\ net'.sock[c].fin = net.sock[c].fin /\ net'.sock[c].rcv = net.sock[c].rcv /\ net'.sock[c].snd = net.sock[c].snd
  <2>1. net'.sock[c] = Polled(c) /\ net.sock[c] \in Socket
    BY <1>1, <1>2 DEF LoopType
  <2> QED
    BY <2>1 DEF Polled, Socket
<1>6. ASSUME NEW c \in Conns, c \in reported, prog.wfc[c] PROVE "out" \in Mask(c)
  <2>1. /\ net.sock[c] \in Socket /\ net.sock[c].snd = 0 /\ c \notin Timers
        /\ net.sock[c].conn = "pending" => ~net.sock[c].rst /\ net.sock[c].rcv = 0 /\ ~net.sock[c].fin
    BY <1>1, <1>6, EvLoopAssumption DEF LoopType, Connecting
  <2>2. net.sock[c].snd < Space
    BY <2>1, EvLoopAssumption
  <2>3. CASE net.sock[c].conn = "pending"
    <3>1. ~Dead(net.sock[c]) /\ net.sock[c].rcv = 0 /\ ~net.sock[c].fin
      BY <2>1, <2>3 DEF Dead
    <3>2. Mask(c) = {}
      BY <2>1, <2>3, <3>1 DEF Mask
    <3> QED
      BY <1>6, <3>2
  <2>4. CASE net.sock[c].conn # "pending"
    <3>1. Dead(net.sock[c]) \/ net.sock[c].conn = "ok"
      BY <2>1, <2>4 DEF Dead, Socket
    <3> QED
      BY <2>1, <2>2, <3>1 DEF Mask
  <2> QED
    BY <2>3, <2>4
<1> HIDE DEF reported
<1>7. LoopType'
  <2>1. net' \in [sock : [Conns -> Socket], armed : SUBSET Events]
    BY <1>2, <1>5
  <2> QED
    BY <1>1, <1>2, <1>3, <1>4, <2>1 DEF LoopType
<1>8. Where'
  BY <1>1, <1>2, <1>3, <1>4 DEF Where
<1>9. TwoLists'
  BY <1>1, <1>2, ListsSame
<1>10. TimersRight'
  <2>1. \A t \in Timers : t \in reported => batch'[t] \subseteq {"inp"}
    BY <1>4 DEF Mask
  <2> QED
    BY <1>1, <1>2, <1>4, <2>1 DEF TimersRight, Dying
<1>11. Connecting'
  BY <1>1, <1>2, <1>4, <1>5, <1>6 DEF Connecting
<1>12. Unsent' /\ ClosedAfterSent'
  BY <1>1, <1>2, <1>5 DEF Unsent, ClosedAfterSent
<1> QED
  BY <1>7, <1>8, <1>9, <1>10, <1>11, <1>12 DEF LoopInv

-----------------------------------------------------------------------------
\* The events that are handled

\* What the methods of a connection must leave right.
ConnRight(p, sk, c) ==
    /\ sk.conn = "pending" => ~sk.rst /\ sk.rcv = 0 /\ ~sk.fin
    /\ p.wfc[c] => sk.snd = 0 /\ prog.wfc[c]
    /\ p.next[c] = Nil => ~p.wfc[c]
    /\ p.next[c] = Nil /\ p.errors[c] = {} => p.cw[c] = 0 \/ "out" \in p.waiting[c]
    /\ p.next[c] # Nil /\ p.errors[c] = {} => p.cw[c] = 0

LEMMA ConnHandled ==
    ASSUME LoopInv, pc \in {"out", "inp"}, pc' \in {"inp", "errs"}, UNCHANGED <<batch, cur, rq>>, cur \in Conns,
           Handled(prog, prog', cur), net' \in [sock : [Conns -> Socket], armed : {net.armed}],
           \A c \in Conns : c # cur => net'.sock[c] = net.sock[c],
           ConnRight(prog', net'.sock[cur], cur)
    PROVE  LoopInv'
<1>1. LoopType /\ Where /\ TwoLists /\ TimersRight /\ Connecting /\ Unsent /\ ClosedAfterSent
  BY DEF LoopInv
<1>2. /\ cur \in Events /\ cur \notin Timers /\ cur \in DOMAIN batch /\ prog.st[cur] = "live"
      /\ prog'.st = prog.st /\ prog'.timer = prog.timer /\ prog' \in Prog
  BY <1>1, EvLoopAssumption DEF Where, Events, Handled
<1>3. \A t \in Timers : t \in Events /\ t # cur /\ prog'.next[t] = prog.next[t] /\ prog'.waiting[t] = prog.waiting[t]
  BY <1>2 DEF Handled, Events
<1>4. LoopType'
  BY <1>1, <1>2 DEF LoopType
<1>5. Where'
  BY <1>1, <1>2 DEF Where
<1>6. TwoLists'
  BY <1>1, <1>2, ListsHandled
<1>7. TimersRight'
  <2>1. prog.timer # Nil => prog.timer \in Timers
    BY <1>1 DEF LoopType, Prog
  <2> QED
    BY <1>1, <1>2, <1>3, <2>1 DEF TimersRight, Dying
<1>8. \A c \in Conns : c # cur => /\ prog'.next[c] = prog.next[c] /\ prog'.waiting[c] = prog.waiting[c]
                                  /\ prog'.errors[c] = prog.errors[c] /\ prog'.cw[c] = prog.cw[c]
                                  /\ prog'.wfc[c] = prog.wfc[c] /\ net'.sock[c] = net.sock[c]
  BY DEF Handled, Events
<1>9. Connecting'
  BY <1>1, <1>8 DEF Connecting, ConnRight
<1>10. Unsent' /\ ClosedAfterSent'
  BY <1>1, <1>2, <1>8 DEF Unsent, ClosedAfterSent, ConnRight
<1> QED
  BY <1>4, <1>5, <1>6, <1>7, <1>9, <1>10 DEF LoopInv

\* A step of the loop that leaves the program and the kernel as they are.
LEMMA NothingDone ==
    ASSUME LoopInv, UNCHANGED <<net, prog, rq>>, DOMAIN batch' = DOMAIN batch, \A e \in DOMAIN batch : batch'[e] = batch[e],
           pc' \in {"wait", "next", "out", "inp", "errs", "ran", "done"}, pc # "delete", pc' = "wait" => DOMAIN batch = {},
           pc' \in {"ran", "done"} => DOMAIN batch = {},
           pc' \in {"out", "inp", "errs"} => cur' \in DOMAIN batch,
           pc = "errs" => pc' = "errs" /\ cur' = cur,
           \A c \in Conns : pc' \in {"inp", "errs"} /\ cur' = c /\ prog.next[c] = Nil => ~prog.wfc[c]
    PROVE  LoopInv'
<1>1. LoopType /\ Where /\ TwoLists /\ TimersRight /\ Connecting /\ Unsent /\ ClosedAfterSent
  BY DEF LoopInv
<1>2. LoopType' /\ Where'
  BY <1>1 DEF LoopType, Where
<1>3. TwoLists'
  BY <1>1, ListsSame
<1>4. TimersRight'
  BY <1>1 DEF TimersRight, Dying
<1>5. Connecting' /\ Unsent' /\ ClosedAfterSent'
  BY <1>1 DEF Connecting, Unsent, ClosedAfterSent
<1> QED
  BY <1>2, <1>3, <1>4, <1>5 DEF LoopInv

LEMMA OpenedIs ==
    ASSUME NEW p \in Prog, NEW c \in Conns
    PROVE  LET q == Opened(p, c)
           IN /\ Handled(p, q, c) /\ q.cw = p.cw /\ q.errors = p.errors /\ q.waiting = p.waiting /\ q.wfc[c] = FALSE
              /\ p.next[c] = Nil /\ q.next[c] # Nil => Dead(net.sock[c])
<1> DEFINE w == [p.wfc EXCEPT ![c] = FALSE]
           r == [p EXCEPT !.wfc = w]
<1>1. c \in Events
  BY DEF Events
<1>2. w \in [Conns -> BOOLEAN] /\ w[c] = FALSE /\ \A d \in Conns : d # c => w[d] = p.wfc[d]
  BY DEF Prog
<1>3. Opened(p, c) = IF p.wfc[c] /\ Dead(net.sock[c]) THEN RegForDeletion(r, c) ELSE r
  BY DEF Opened
<1> HIDE DEF w
<1>4. r \in Prog
  BY <1>2 DEF Prog
<1>5. /\ r.wfc = w /\ r.cw = p.cw /\ r.errors = p.errors /\ r.waiting = p.waiting /\ r.next = p.next
      /\ r.last = p.last /\ r.st = p.st /\ r.timer = p.timer
  BY DEF Prog
<1> HIDE DEF r
<1>6. Handled(p, r, c)
  BY <1>2, <1>4, <1>5 DEF Handled
<1>7. CASE ~(p.wfc[c] /\ Dead(net.sock[c]))
  BY <1>2, <1>3, <1>5, <1>6, <1>7
<1>8. CASE p.wfc[c] /\ Dead(net.sock[c])
  <2>1. /\ Handled(r, RegForDeletion(r, c), c) /\ RegForDeletion(r, c).wfc = r.wfc /\ RegForDeletion(r, c).cw = r.cw
        /\ RegForDeletion(r, c).errors = r.errors /\ RegForDeletion(r, c).waiting = r.waiting
    BY <1>1, <1>4, RegIs DEF SameData
  <2>2. Handled(p, RegForDeletion(r, c), c)
    BY <1>1, <1>6, <2>1, HandledTwice
  <2> QED
    BY <1>2, <1>3, <1>5, <1>8, <2>1, <2>2
<1> QED
  BY <1>7, <1>8

LEMMA HandleOutInv == ASSUME LoopInv, HandleOut PROVE LoopInv'
<1>1. LoopType /\ Where /\ TwoLists /\ TimersRight /\ Connecting /\ Unsent /\ ClosedAfterSent
  BY DEF LoopInv
<1>2. pc = "out" /\ pc' = "inp" /\ UNCHANGED <<batch, cur, rq>> /\ cur \in DOMAIN batch /\ cur \in Events
  BY <1>1 DEF HandleOut, Where, LoopType
<1>3. CASE ~Asked("out")
  <2>1. UNCHANGED <<net, prog>>
    BY <1>3 DEF HandleOut
  <2>2. \A c \in Conns : cur' = c /\ prog.next[c] = Nil => ~prog.wfc[c]
    BY <1>1, <1>2, <1>3 DEF Asked, Connecting
  <2> QED
    BY <1>2, <2>1, <2>2, NothingDone
<1>4. CASE Asked("out")
  <2> DEFINE o == NoMoreOut(prog, cur)
             p == Opened(o, cur)
             q == Flush(p, cur)
  <2>1. cur \in Conns /\ prog.next[cur] = Nil
    BY <1>1, <1>2, <1>4 DEF Asked, TimersRight, Events
  <2>2. prog' = q /\ net' = [net EXCEPT !.sock[cur] = Sent(p, q, cur, @)]
    BY <1>4 DEF HandleOut
  <2>3. /\ Handled(prog, o, cur) /\ SameList(prog, o) /\ SameData(prog, o) /\ o.errors = prog.errors /\ o \in Prog
    BY <1>1, <1>2, NoMoreOutIs DEF LoopType, Handled
  <2> HIDE DEF o
  <2>4. /\ Handled(o, p, cur) /\ p.cw = o.cw /\ p.errors = o.errors /\ p.waiting = o.waiting /\ p.wfc[cur] = FALSE
        /\ o.next[cur] = Nil /\ p.next[cur] # Nil => Dead(net.sock[cur])
    BY <2>1, <2>3, OpenedIs
  <2>5. p \in Prog /\ Handled(prog, p, cur)
    BY <1>1, <1>2, <2>3, <2>4, HandledTwice DEF Handled, LoopType
  <2> HIDE DEF p
  <2>6. /\ FlushedRight(p, q, cur)
        /\ Dead(net.sock[cur]) /\ ~p.wfc[cur] /\ p.cw[cur] # 0 => q.errors[cur] # {}
        /\ p.cw[cur] - q.cw[cur] \in 0 .. Space - net.sock[cur].snd
    BY <1>1, <2>1, <2>5, FlushIs DEF LoopType
  <2>7. Handled(prog, q, cur) /\ q \in Prog
    BY <1>1, <1>2, <2>5, <2>6, HandledTwice DEF FlushedRight, LoopType, Handled
  <2> HIDE DEF q
  <2>8. p.cw[cur] \in Nat /\ q.cw[cur] \in Nat /\ q.cw[cur] <= p.cw[cur]
    BY <2>1, <2>5, <2>6, <2>7 DEF Prog, FlushedRight
  <2>9. q.next[cur] # Nil /\ q.errors[cur] = {} => q.cw[cur] = 0
    <3>1. CASE p.next[cur] = Nil
      BY <2>6, <3>1 DEF FlushedRight
    <3>2. CASE p.next[cur] # Nil
      <4>1. Dead(net.sock[cur])
        BY <2>1, <2>3, <2>4, <3>2 DEF SameList
      <4>2. q.errors[cur] = {} => p.cw[cur] = 0
        BY <2>4, <2>6, <4>1
      <4> QED
        BY <2>8, <4>2
    <3> QED
      BY <3>1, <3>2
  <2>10. /\ net' \in [sock : [Conns -> Socket], armed : {net.armed}]
         /\ \A c \in Conns : c # cur => net'.sock[c] = net.sock[c]
         /\ net'.sock[cur].conn = net.sock[cur].conn /\ net'.sock[cur].rst = net.sock[cur].rst
         /\ net'.sock[cur].rcv = net.sock[cur].rcv /\ net'.sock[cur].fin = net.sock[cur].fin
    <3> DEFINE sk == Sent(p, q, cur, net.sock[cur])
    <3>1. net.sock[cur] \in Socket
      BY <1>1, <2>1 DEF LoopType
    <3>2. net.sock[cur].snd + (p.cw[cur] - q.cw[cur]) \in 0 .. Space
      <4>1. net.sock[cur].snd \in 0 .. Space /\ Space \in Nat
        BY <3>1, EvLoopAssumption DEF Socket
      <4> QED
        BY <2>6, <2>8, <4>1
    <3>3. sk \in Socket /\ sk.conn = net.sock[cur].conn /\ sk.rst = net.sock[cur].rst
          /\ sk.rcv = net.sock[cur].rcv /\ sk.fin = net.sock[cur].fin
      BY <3>1, <3>2 DEF Sent, Socket
    <3>4. net' = [net EXCEPT !.sock[cur] = sk]
      BY <2>2
    <3> HIDE DEF sk
    <3> QED
      BY <1>1, <2>1, <3>3, <3>4 DEF LoopType
  <2>11. q.wfc[cur] = FALSE
    BY <2>4, <2>6 DEF FlushedRight
  <2>12. ConnRight(q, net'.sock[cur], cur)
    <3>1. net.sock[cur].conn = "pending" => ~net.sock[cur].rst /\ net.sock[cur].rcv = 0 /\ ~net.sock[cur].fin
      BY <1>1, <2>1 DEF Connecting
    <3>2. q.errors[cur] = {} => q.cw[cur] = 0 \/ "out" \in q.waiting[cur]
      BY <2>4, <2>6 DEF FlushedRight
    <3> QED
      BY <2>9, <2>10, <2>11, <3>1, <3>2 DEF ConnRight
  <2> QED
    BY <1>2, <2>1, <2>2, <2>7, <2>10, <2>12, ConnHandled
<1> QED
  BY <1>3, <1>4

LEMMA AnsweredIs ==
    ASSUME NEW p \in Prog, NEW c \in Conns, NEW k \in 0 .. 1, NEW b \in BOOLEAN
    PROVE  LET q == Answered([p EXCEPT !.cnt = b], c, k)
           IN /\ Handled(p, q, c) /\ SameList(p, q) /\ q.errors = p.errors
              /\ q.waiting = p.waiting /\ q.wfc = p.wfc
<1> DEFINE v == Smaller(p.cw[c] + k, MaxOut)
           w == [p.cw EXCEPT ![c] = v]
           q == [p EXCEPT !.cnt = b, !.cw = w]
<1>1. v \in Nat
  BY EvLoopAssumption DEF Prog, Smaller
<1>2. Answered([p EXCEPT !.cnt = b], c, k) = q
  BY DEF Answered, Prog
<1> HIDE DEF v
<1>3. w \in [Conns -> Nat] /\ \A d \in Conns : d # c => w[d] = p.cw[d]
  BY <1>1 DEF Prog
<1> HIDE DEF w
<1>4. q \in Prog
  BY <1>3 DEF Prog
<1>5. /\ q.cw = w /\ q.wfc = p.wfc /\ q.errors = p.errors /\ q.waiting = p.waiting /\ q.next = p.next
      /\ q.last = p.last /\ q.st = p.st /\ q.timer = p.timer
  BY DEF Prog
<1> HIDE DEF q
<1> QED
  BY <1>2, <1>3, <1>4, <1>5 DEF Handled, SameList

\* A connection that is read is connected and is not to be deleted.
LEMMA ReadRight ==
    ASSUME LoopInv, pc = "inp", cur \in Conns, Asked("inp")
    PROVE  /\ cur \in Events /\ prog \in Prog /\ net \in [sock : [Conns -> Socket], armed : SUBSET Events]
           /\ net.sock[cur] \in Socket /\ prog.next[cur] = Nil /\ ~prog.wfc[cur]
           /\ net.sock[cur].conn = "pending" => ~net.sock[cur].rst /\ net.sock[cur].rcv = 0 /\ ~net.sock[cur].fin
           /\ prog.errors[cur] = {} => prog.cw[cur] = 0 \/ "out" \in prog.waiting[cur]
<1>1. LoopType /\ Where /\ Connecting /\ Unsent
  BY DEF LoopInv
<1>2. cur \in Events /\ prog.st[cur] = "live" /\ prog.next[cur] = Nil
  BY <1>1 DEF Where, Events, Asked
<1>3. ~prog.wfc[cur]
  BY <1>1, <1>2 DEF Connecting
<1> QED
  BY <1>1, <1>2, <1>3 DEF LoopType, Connecting, Unsent

LEMMA HandleInpInv ==
    ASSUME LoopInv, NEW k \in 0 .. 1, NEW go \in BOOLEAN, NEW stop \in BOOLEAN, HandleInp(k, go, stop)
    PROVE  LoopInv'
<1> DEFINE r == NoMoreInp(prog, cur)
           b == r.cnt /\ ~stop
           p == Answered([r EXCEPT !.cnt = b], cur, k)
           q == Flush(p, cur)
           sk == net.sock[cur]
<1>1. /\ pc = "inp" /\ pc' = "errs" /\ cur \in Conns /\ Asked("inp") /\ UNCHANGED <<batch, cur, rq>>
      /\ prog' = (IF ~go THEN q ELSE IF sk.fin THEN Error(q, cur, "hup") ELSE WaitForMoreInp(q, cur))
      /\ net' = [net EXCEPT !.sock[cur] = [Sent(p, q, cur, @) EXCEPT !.rcv = 0]]
  BY DEF HandleInp
<1>2. /\ cur \in Events /\ prog \in Prog /\ net \in [sock : [Conns -> Socket], armed : SUBSET Events]
      /\ sk \in Socket /\ prog.next[cur] = Nil /\ ~prog.wfc[cur]
      /\ sk.conn = "pending" => ~sk.rst /\ sk.rcv = 0 /\ ~sk.fin
  BY <1>1, ReadRight
<1>3. Handled(prog, r, cur) /\ SameList(prog, r) /\ SameData(prog, r) /\ r \in Prog /\ b \in BOOLEAN
  <2>1. Handled(prog, r, cur) /\ SameList(prog, r) /\ SameData(prog, r)
    BY <1>2, NoMoreInpIs
  <2> QED
    BY <2>1 DEF Handled, Prog
<1> HIDE DEF r, b
<1>4. /\ Handled(r, p, cur) /\ SameList(r, p) /\ p.wfc = r.wfc /\ p \in Prog
  <2>1. cur \in Conns
    BY <1>1
  <2>2. Handled(r, p, cur) /\ SameList(r, p) /\ p.wfc = r.wfc
    BY <1>3, <2>1, AnsweredIs
  <2> HIDE DEF p
  <2> QED
    BY <2>2 DEF Handled
<1>5. Handled(prog, p, cur) /\ p.next[cur] = Nil /\ ~p.wfc[cur]
  BY <1>2, <1>3, <1>4, HandledTwice DEF SameList, SameData
<1> HIDE DEF p
<1>6. /\ FlushedRight(p, q, cur) /\ p.cw[cur] - q.cw[cur] \in 0 .. Space - sk.snd
  BY <1>1, <1>2, <1>4, FlushIs
<1>7. /\ Handled(prog, q, cur) /\ q \in Prog /\ ~q.wfc[cur]
      /\ q.next[cur] # Nil => q.errors[cur] # {}
      /\ q.errors[cur] = {} => q.cw[cur] = 0 \/ "out" \in q.waiting[cur]
  BY <1>2, <1>5, <1>6, HandledTwice DEF FlushedRight, Handled
<1> HIDE DEF q
<1>8. /\ Handled(prog, prog', cur) /\ ~prog'.wfc[cur]
      /\ prog'.next[cur] # Nil => prog'.errors[cur] # {}
      /\ prog'.errors[cur] = {} => prog'.cw[cur] = 0 \/ "out" \in prog'.waiting[cur]
  <2>1. CASE prog' = q
    BY <1>7, <2>1
  <2>2. CASE prog' = Error(q, cur, "hup")
    <3>1. Handled(q, prog', cur) /\ SameData(q, prog') /\ prog'.errors[cur] # {}
      BY <1>2, <1>7, <2>2, ErrorIs
    <3> QED
      BY <1>2, <1>7, <3>1, HandledTwice DEF SameData
  <2>3. CASE prog' = WaitForMoreInp(q, cur)
    <3>1. /\ Handled(q, prog', cur) /\ SameList(q, prog') /\ SameData(q, prog') /\ prog'.errors = q.errors
          /\ prog'.waiting[cur] = q.waiting[cur] \cup {"inp"}
      BY <1>2, <1>7, <2>3, WaitForMoreInpIs
    <3> QED
      BY <1>2, <1>7, <3>1, HandledTwice DEF SameData, SameList
  <2> QED
    BY <1>1, <2>1, <2>2, <2>3
<1>9. /\ net' \in [sock : [Conns -> Socket], armed : {net.armed}]
      /\ \A c \in Conns : c # cur => net'.sock[c] = net.sock[c]
      /\ net'.sock[cur].conn = "pending" => ~net'.sock[cur].rst /\ net'.sock[cur].rcv = 0 /\ ~net'.sock[cur].fin
  <2> DEFINE s == [Sent(p, q, cur, sk) EXCEPT !.rcv = 0]
  <2>1. sk.snd + (p.cw[cur] - q.cw[cur]) \in 0 .. Space
    <3>1. sk.snd \in 0 .. Space /\ Space \in Nat
      BY <1>2, EvLoopAssumption DEF Socket
    <3>2. p.cw[cur] \in Nat /\ q.cw[cur] \in Nat
      BY <1>1, <1>4, <1>7 DEF Prog
    <3> QED
      BY <1>6, <3>1, <3>2
  <2>2. s \in Socket /\ s.conn = sk.conn /\ s.rst = sk.rst /\ s.rcv = 0 /\ s.fin = sk.fin
    BY <1>2, <2>1 DEF Sent, Socket
  <2>3. net' = [net EXCEPT !.sock[cur] = s]
    BY <1>1
  <2>4. cur \in Conns
    BY <1>1
  <2> HIDE DEF s
  <2>5. net'.sock = [net.sock EXCEPT ![cur] = s] /\ net'.armed = net.armed /\ net' \in [sock : {net'.sock}, armed : {net.armed}]
    BY <1>2, <2>3, <2>4
  <2> QED
    BY <1>2, <2>2, <2>4, <2>5
<1>10. ConnRight(prog', net'.sock[cur], cur)
  BY <1>8, <1>9 DEF ConnRight
<1> QED
  BY <1>1, <1>8, <1>9, <1>10, ConnHandled

LEMMA HandleNoInpInv == ASSUME LoopInv, HandleNoInp PROVE LoopInv'
<1>1. /\ pc = "inp" /\ pc' = "errs" /\ cur \in Conns /\ Asked("inp") /\ UNCHANGED <<net, batch, cur, rq>>
      /\ prog' = Error(NoMoreInp(prog, cur), cur, "hup") \/ prog' = WaitForMoreInp(prog, cur)
  BY DEF HandleNoInp
<1>2. /\ cur \in Events /\ prog \in Prog /\ net \in [sock : [Conns -> Socket], armed : SUBSET Events]
      /\ net.sock[cur] \in Socket /\ prog.next[cur] = Nil /\ ~prog.wfc[cur]
      /\ net.sock[cur].conn = "pending" => ~net.sock[cur].rst /\ net.sock[cur].rcv = 0 /\ ~net.sock[cur].fin
      /\ prog.errors[cur] = {} => prog.cw[cur] = 0 \/ "out" \in prog.waiting[cur]
  BY <1>1, ReadRight
<1>3. /\ Handled(prog, prog', cur) /\ ~prog'.wfc[cur]
      /\ prog'.next[cur] # Nil => prog'.errors[cur] # {}
      /\ prog'.errors[cur] = {} => prog'.cw[cur] = 0 \/ "out" \in prog'.waiting[cur]
  <2>1. CASE prog' = Error(NoMoreInp(prog, cur), cur, "hup")
    <3> DEFINE r == NoMoreInp(prog, cur)
    <3>1. Handled(prog, r, cur) /\ SameData(prog, r) /\ r \in Prog
      BY <1>2, NoMoreInpIs DEF Handled
    <3> HIDE DEF r
    <3>2. Handled(r, prog', cur) /\ SameData(r, prog') /\ prog'.errors[cur] # {}
      BY <1>2, <2>1, <3>1, ErrorIs DEF r
    <3> QED
      BY <1>2, <3>1, <3>2, HandledTwice DEF SameData
  <2>2. CASE prog' = WaitForMoreInp(prog, cur)
    <3>1. /\ Handled(prog, prog', cur) /\ SameList(prog, prog') /\ SameData(prog, prog') /\ prog'.errors = prog.errors
          /\ prog'.waiting[cur] = prog.waiting[cur] \cup {"inp"}
      BY <1>2, <2>2, WaitForMoreInpIs
    <3> QED
      BY <1>2, <3>1 DEF SameData, SameList
  <2> QED
    BY <1>1, <2>1, <2>2
<1>4. ConnRight(prog', net'.sock[cur], cur) /\ net' \in [sock : [Conns -> Socket], armed : {net.armed}]
  BY <1>1, <1>2, <1>3 DEF ConnRight
<1> QED
  BY <1>1, <1>3, <1>4, ConnHandled

\* A timer that is handled is the one in use: it goes on, or begins to end.
LEMMA HandleTimerInv == ASSUME LoopInv, HandleTimer PROVE LoopInv'
<1>1. LoopType /\ Where /\ TwoLists /\ TimersRight /\ Connecting /\ Unsent /\ ClosedAfterSent
  BY DEF LoopInv
<1>2. /\ pc = "inp" /\ pc' = "errs" /\ cur \in Timers /\ cur \in Events /\ cur \notin Conns /\ prog.next[cur] = Nil
      /\ prog.st[cur] = "live" /\ UNCHANGED <<net, batch, cur, rq>> /\ prog \in Prog
      /\ prog' = Timeout(NoMoreInp(prog, cur), cur)
  BY <1>1, EvLoopAssumption DEF HandleTimer, Asked, Where, LoopType, Events
<1>3. prog.timer = cur /\ prog.timer # Nil /\ prog.waiting[cur] = {"inp"} /\ \A t \in Timers : ~Dying(t)
  <2>1. ~Dying(cur)
    BY <1>1, <1>2 DEF TimersRight
  <2>2. prog.timer = cur /\ cur # Nil
    BY <1>2, <2>1, EvLoopAssumption DEF Dying
  <2> QED
    BY <1>1, <1>2, <2>2 DEF TimersRight
<1> DEFINE r == NoMoreInp(prog, cur)
<1>4. /\ Handled(prog, r, cur) /\ SameList(prog, r) /\ SameData(prog, r) /\ r.errors = prog.errors
      /\ r.waiting[cur] = {} /\ r \in Prog
  <2>1. /\ Handled(prog, r, cur) /\ SameList(prog, r) /\ SameData(prog, r) /\ r.errors = prog.errors
        /\ r.waiting[cur] = prog.waiting[cur] \ {"inp"}
    BY <1>2, NoMoreInpIs
  <2> QED
    BY <1>3, <2>1 DEF Handled
<1> HIDE DEF r
<1>5. /\ prog' \in Prog /\ prog'.st = prog.st /\ prog'.next = prog.next /\ prog'.last = prog.last
      /\ prog'.errors = prog.errors /\ prog'.cw = prog.cw /\ prog'.wfc = prog.wfc
      /\ \A x \in Events : x # cur => prog'.waiting[x] = prog.waiting[x]
      /\ \/ prog'.timer = Nil /\ prog'.waiting[cur] = {}
         \/ prog'.timer = cur /\ prog'.waiting[cur] = {"inp"}
  <2>1. CASE r.last = Nil
    <3>1. prog' = [r EXCEPT !.timer = Nil]
      BY <1>2, <2>1 DEF Timeout, r
    <3>2. /\ prog' \in Prog /\ prog'.timer = Nil /\ prog'.st = r.st /\ prog'.next = r.next /\ prog'.last = r.last
          /\ prog'.errors = r.errors /\ prog'.waiting = r.waiting /\ prog'.cw = r.cw /\ prog'.wfc = r.wfc
      BY <1>4, <3>1 DEF Prog
    <3> QED
      BY <1>4, <3>2 DEF Handled, SameList, SameData
  <2>2. CASE r.last # Nil
    <3>1. prog' = WaitForMoreInp(r, cur)
      BY <1>2, <2>2 DEF Timeout, r
    <3>2. /\ Handled(r, prog', cur) /\ SameList(r, prog') /\ SameData(r, prog') /\ prog'.errors = r.errors
          /\ prog'.waiting[cur] = r.waiting[cur] \cup {"inp"}
      BY <1>2, <1>4, <3>1, WaitForMoreInpIs
    <3> QED
      BY <1>3, <1>4, <3>2 DEF Handled, SameList, SameData
  <2> QED
    BY <2>1, <2>2
<1>6. LoopType' /\ Where'
  BY <1>1, <1>2, <1>5 DEF LoopType, Where
<1>7. TwoLists'
  BY <1>1, <1>2, <1>3, <1>5, ListsSame
<1>8. TimersRight'
  <2>1. ASSUME NEW t \in Timers, Dying(t)' PROVE t = cur /\ prog'.timer = Nil /\ prog'.waiting[cur] = {}
    BY <1>3, <1>5, <2>1 DEF Dying
  <2>2. \A t \in Timers : t \in Events
    BY DEF Events
  <2>3. \A t \in Timers : prog'.waiting[t] \subseteq {"inp"} \/ (t # cur /\ prog'.waiting[t] = prog.waiting[t])
    BY <1>5, <2>2
  <2> QED
    BY <1>1, <1>2, <1>3, <1>5, <2>1, <2>2, <2>3 DEF TimersRight
<1>9. Connecting' /\ Unsent' /\ ClosedAfterSent'
  <2>1. \A c \in Conns : c # cur /\ prog'.waiting[c] = prog.waiting[c]
    BY <1>2, <1>5 DEF Events
  <2> QED
    BY <1>1, <1>2, <1>5, <2>1 DEF Connecting, Unsent, ClosedAfterSent
<1> QED
  BY <1>6, <1>7, <1>8, <1>9 DEF LoopInv

LEMMA ErrorsIs ==
    ASSUME prog \in Prog, cur \in Events
    PROVE  LET q == Errors(prog)
               found == batch[cur] \cap {"rdhup", "hup", "err"}
           IN /\ Handled(prog, q, cur) /\ SameData(prog, q) /\ q.waiting = prog.waiting
              /\ q.errors[cur] = prog.errors[cur] \cup found
              /\ IF found # {} \/ prog.waiting[cur] = {} THEN q.next[cur] # Nil ELSE q.next[cur] = prog.next[cur]
<1> DEFINE found == batch[cur] \cap {"rdhup", "hup", "err"}
           w == [prog.errors EXCEPT ![cur] = @ \cup found]
           q == [prog EXCEPT !.errors = w]
<1>1. w \in [Events -> SUBSET {"rdhup", "hup", "err"}] /\ w[cur] = prog.errors[cur] \cup found
      /\ \A x \in Events : x # cur => w[x] = prog.errors[x]
  BY DEF Prog
<1>2. Errors(prog) = IF found # {} \/ q.waiting[cur] = {} THEN RegForDeletion(q, cur) ELSE q
  BY DEF Errors
<1> HIDE DEF w, found
<1>3. q \in Prog
  BY <1>1 DEF Prog
<1>4. /\ q.errors = w /\ q.cw = prog.cw /\ q.wfc = prog.wfc /\ q.waiting = prog.waiting /\ q.next = prog.next
      /\ q.last = prog.last /\ q.st = prog.st /\ q.timer = prog.timer
  BY DEF Prog
<1> HIDE DEF q
<1>5. Handled(prog, q, cur)
  BY <1>1, <1>3, <1>4 DEF Handled
<1>6. CASE ~(found # {} \/ prog.waiting[cur] = {})
  BY <1>1, <1>2, <1>4, <1>5, <1>6 DEF SameData, found
<1>7. CASE found # {} \/ prog.waiting[cur] = {}
  <2> DEFINE d == RegForDeletion(q, cur)
  <2>1. Errors(prog) = d
    BY <1>2, <1>4, <1>7
  <2>2. Handled(q, d, cur) /\ SameData(q, d) /\ d.next[cur] # Nil /\ d.errors = q.errors /\ d.waiting = q.waiting
    BY <1>3, RegIs
  <2> HIDE DEF d
  <2>3. Handled(prog, d, cur)
    BY <1>5, <2>2, HandledTwice
  <2> QED
    BY <1>1, <1>4, <1>7, <2>1, <2>2, <2>3 DEF SameData, found
<1> QED
  BY <1>6, <1>7

\* An event without anything to wait for is to be deleted; if it is a connection
\* that had no error, it has nothing to send.
LEMMA HandleErrorsInv == ASSUME LoopInv, HandleErrors PROVE LoopInv'
<1>1. LoopType /\ Where /\ TwoLists /\ TimersRight /\ Connecting /\ Unsent /\ ClosedAfterSent
  BY DEF LoopInv
<1> DEFINE found == batch[cur] \cap {"rdhup", "hup", "err"}
<1>2. /\ pc = "errs" /\ pc' = "next" /\ cur \in DOMAIN batch /\ cur \in Events /\ prog.st[cur] = "live"
      /\ UNCHANGED <<net, rq>> /\ prog' = Errors(prog) /\ batch' = [e \in DOMAIN batch \ {cur} |-> batch[e]]
      /\ prog \in Prog
  BY <1>1 DEF HandleErrors, Where, LoopType
<1>3. /\ Handled(prog, prog', cur) /\ SameData(prog, prog') /\ prog'.waiting = prog.waiting
      /\ prog'.errors[cur] = prog.errors[cur] \cup found
      /\ IF found # {} \/ prog.waiting[cur] = {} THEN prog'.next[cur] # Nil ELSE prog'.next[cur] = prog.next[cur]
  BY <1>2, ErrorsIs
<1>4. DOMAIN batch' \subseteq DOMAIN batch /\ \A e \in DOMAIN batch' : batch'[e] = batch[e]
  BY <1>2
<1>5. cur \in Timers => found = {}
  BY <1>1, <1>2 DEF TimersRight
<1> HIDE DEF found
<1>6. cur \in Timers /\ prog'.next[cur] # prog.next[cur] => prog.timer = Nil
  <2> SUFFICES ASSUME cur \in Timers, prog'.next[cur] # prog.next[cur] PROVE prog.timer = Nil
    OBVIOUS
  <2>1. prog.waiting[cur] = {}
    BY <1>3, <1>5
  <2>2. cur # prog.timer
    BY <1>1, <2>1, EvLoopAssumption DEF TimersRight
  <2>3. Dying(cur)
    BY <1>2, <2>2 DEF Dying
  <2> QED
    BY <1>1, <1>2, <2>3 DEF TimersRight
<1>7. prog' \in Prog /\ prog'.st = prog.st /\ prog'.timer = prog.timer
      /\ \A x \in Events : x # cur => prog'.next[x] = prog.next[x] /\ prog'.errors[x] = prog.errors[x]
  BY <1>3 DEF Handled
<1>8. LoopType' /\ Where'
  BY <1>1, <1>2, <1>4, <1>7 DEF LoopType, Where
<1>9. TwoLists'
  BY <1>1, <1>2, <1>3, <1>6, ListsHandled
<1>10. TimersRight'
  <2>1. \A t \in Timers : t \in Events
    BY DEF Events
  <2>2. prog.timer # Nil => prog'.next[prog.timer] = Nil
    <3> SUFFICES ASSUME prog.timer # Nil PROVE prog'.next[prog.timer] = Nil
      OBVIOUS
    <3>1. prog.timer \in Timers /\ prog.next[prog.timer] = Nil
      BY <1>1 DEF LoopType, Prog, TimersRight
    <3> QED
      BY <1>6, <1>7, <2>1, <3>1
  <2>3. ASSUME NEW t \in Timers, Dying(t)' PROVE Dying(t) /\ prog'.next[t] # Nil
    <3>1. Dying(t)
      BY <1>7, <2>3 DEF Dying
    <3>2. prog.next[t] # Nil \/ (t = cur /\ prog.waiting[t] = {})
      BY <1>1, <3>1 DEF TimersRight
    <3> QED
      BY <1>3, <1>7, <2>1, <3>1, <3>2
  <2> QED
    BY <1>1, <1>2, <1>3, <1>4, <1>7, <2>1, <2>2, <2>3 DEF TimersRight
<1>11. Connecting'
  BY <1>1, <1>2, <1>3, <1>4 DEF Connecting, SameData
<1>12. \A c \in Conns : c \in Events
  BY DEF Events
<1>13. Unsent'
  <2>1. ASSUME cur \in Conns, prog'.errors[cur] = {}
        PROVE  IF prog'.next[cur] = Nil
               THEN prog.next[cur] = Nil /\ prog.errors[cur] = {}
               ELSE prog.cw[cur] = 0
    <3>1. found = {} /\ prog.errors[cur] = {}
      BY <1>3, <2>1
    <3>2. CASE prog.next[cur] # Nil
      <4>1. prog.cw[cur] = 0
        BY <1>1, <2>1, <3>1, <3>2 DEF Unsent
      <4>2. prog'.next[cur] # Nil
        BY <1>3, <3>1, <3>2
      <4> QED
        BY <4>1, <4>2
    <3>3. CASE prog.next[cur] = Nil
      <4>1. ~prog.wfc[cur]
        BY <1>1, <1>2, <2>1, <3>3 DEF Connecting
      <4>2. prog.cw[cur] = 0 \/ "out" \in prog.waiting[cur]
        BY <1>1, <1>2, <2>1, <3>1, <3>3, <4>1 DEF Unsent
      <4> QED
        BY <1>3, <3>1, <3>3, <4>2
    <3> QED
      BY <3>2, <3>3
  <2> QED
    BY <1>1, <1>3, <1>7, <1>12, <2>1 DEF Unsent, SameData
<1>14. ClosedAfterSent'
  <2>1. \A c \in Conns : prog'.errors[c] = {} => prog.errors[c] = {}
    BY <1>3, <1>7, <1>12
  <2> QED
    BY <1>1, <1>2, <1>3, <1>7, <2>1 DEF ClosedAfterSent, SameData
<1> QED
  BY <1>8, <1>9, <1>10, <1>11, <1>13, <1>14 DEF LoopInv

LEMMA TakeDeletionsInv == ASSUME LoopInv, TakeDeletions PROVE LoopInv'
<1>1. LoopType /\ Where /\ TwoLists /\ TimersRight /\ Connecting /\ Unsent /\ ClosedAfterSent
  BY DEF LoopInv
<1>2. /\ pc = "next" /\ DOMAIN batch = {} /\ UNCHANGED <<net, batch, cur>> /\ rq' = prog.last
      /\ pc' = (IF rq' # Nil THEN "delete" ELSE IF prog.cnt THEN "wait" ELSE "ran")
  BY DEF TakeDeletions
<1>3. /\ prog' \in Prog /\ prog'.st = prog.st /\ prog'.next = prog.next /\ prog'.timer = prog.timer /\ rq' \in Ptr
      /\ prog'.waiting = prog.waiting /\ prog'.errors = prog.errors /\ prog'.cw = prog.cw /\ prog'.wfc = prog.wfc
  BY <1>1 DEF TakeDeletions, LoopType, Prog, Ptr
<1>4. LoopType' /\ Where'
  BY <1>1, <1>2, <1>3 DEF LoopType, Where
<1>5. TwoLists'
  BY <1>1, ListsTake
<1>6. TimersRight'
  BY <1>1, <1>2, <1>3 DEF TimersRight, Dying
<1>7. Connecting' /\ Unsent' /\ ClosedAfterSent'
  BY <1>1, <1>2, <1>3 DEF Connecting, Unsent, ClosedAfterSent
<1> QED
  BY <1>4, <1>5, <1>6, <1>7 DEF LoopInv

LEMMA RunAgainInv == ASSUME LoopInv, RunAgain PROVE LoopInv'
<1>1. LoopType /\ Where /\ TwoLists /\ TimersRight /\ Connecting /\ Unsent /\ ClosedAfterSent
  BY DEF LoopInv
<1>2. /\ prog' \in Prog /\ prog'.st = prog.st /\ prog'.next = prog.next /\ prog'.timer = prog.timer /\ prog'.last = prog.last
      /\ prog'.waiting = prog.waiting /\ prog'.errors = prog.errors /\ prog'.cw = prog.cw /\ prog'.wfc = prog.wfc
      /\ pc = "ran" /\ pc' = "wait" /\ UNCHANGED <<net, batch, cur, rq>>
  BY <1>1 DEF RunAgain, LoopType, Prog
<1>3. LoopType' /\ Where'
  BY <1>1, <1>2 DEF LoopType, Where
<1>4. TwoLists'
  BY <1>1, <1>2, ListsSame
<1>5. TimersRight' /\ Connecting' /\ Unsent' /\ ClosedAfterSent'
  BY <1>1, <1>2 DEF TimersRight, Dying, Connecting, Unsent, ClosedAfterSent
<1> QED
  BY <1>3, <1>4, <1>5 DEF LoopInv

LEMMA QuietInv == ASSUME LoopInv, NextEvent \/ SkipInp \/ AllSent PROVE LoopInv'
<1>1. LoopType /\ Where /\ Connecting
  BY DEF LoopInv
<1>2. CASE NextEvent
  <2>1. /\ pc = "next" /\ pc' = "out" /\ cur' \in DOMAIN batch /\ UNCHANGED <<net, prog, batch, rq>>
    BY <1>2 DEF NextEvent
  <2> QED
    BY <2>1, NothingDone
<1>3. CASE SkipInp
  <2>1. /\ pc = "inp" /\ pc' = "errs" /\ cur' = cur /\ UNCHANGED <<net, prog, batch, rq>>
    BY <1>3 DEF SkipInp
  <2>2. cur' \in DOMAIN batch /\ \A c \in Conns : cur' = c /\ prog.next[c] = Nil => ~prog.wfc[c]
    BY <1>1, <2>1 DEF Where, Connecting
  <2> QED
    BY <2>1, <2>2, NothingDone
<1>4. CASE AllSent
  <2>1. /\ pc = "ran" /\ pc' = "done" /\ cur' = cur /\ UNCHANGED <<net, prog, batch, rq>> /\ DOMAIN batch = {}
    BY <1>1, <1>4 DEF AllSent, Where
  <2> QED
    BY <2>1, NothingDone
<1> QED
  BY <1>2, <1>3, <1>4

-----------------------------------------------------------------------------
\* The theorem

LEMMA LoopInitInv == Init => LoopInv
<1> SUFFICES ASSUME Init PROVE LoopInv
  OBVIOUS
<1>1. \A c \in Conns : c \in Events /\ c \notin Timers
  BY EvLoopAssumption DEF Events
<1>2. \A t \in Timers : t \in Events /\ t \notin Conns
  BY EvLoopAssumption DEF Events
<1>3. /\ prog.st = [e \in Events |-> IF e \in Conns THEN "live" ELSE "free"]
      /\ prog.waiting = [e \in Events |-> {"inp"}] /\ prog.errors = [e \in Events |-> {}]
      /\ prog.next = [e \in Events |-> Nil] /\ prog.last = Nil /\ prog.timer = Nil /\ prog.nb = 0
      /\ prog.cw \in [Conns -> {0, MaxOut}] /\ prog.wfc = [c \in Conns |-> TRUE] /\ prog.cnt = TRUE
      /\ prog \in [st : {prog.st}, waiting : {prog.waiting}, errors : {prog.errors}, next : {prog.next},
                    last : {prog.last}, timer : {prog.timer}, nb : {prog.nb}, cw : {prog.cw}, wfc : {prog.wfc},
                    cnt : {prog.cnt}]
  BY DEF Init
<1>4. prog \in Prog
  <2>1. /\ prog.st \in [Events -> {"live", "deleted", "free"}] /\ prog.next \in [Events -> Ptr]
        /\ prog.waiting \in [Events -> SUBSET {"inp", "out", "pendingo"}]
        /\ prog.errors \in [Events -> SUBSET {"rdhup", "hup", "err"}]
    BY <1>3 DEF Ptr
  <2>2. prog.cw \in [Conns -> Nat]
    BY <1>3, EvLoopAssumption
  <2>3. prog.last \in Ptr /\ prog.timer \in Timers \cup {Nil} /\ prog.nb \in Int
    BY <1>3 DEF Ptr
  <2>4. prog.wfc \in [Conns -> BOOLEAN]
    BY <1>3
  <2>5. prog.cnt \in BOOLEAN
    <3>1. prog.cnt = TRUE
      BY <1>3
    <3> QED
      BY <3>1, Zenon
  <2> QED
    BY <1>3, <2>1, <2>2, <2>3, <2>4, <2>5 DEF Prog
<1>5. /\ net \in [sock : [Conns -> Socket], armed : SUBSET Events] /\ net.armed = Conns
      /\ \A c \in Conns : net.sock[c].snd = 0 /\ net.sock[c].rcv = 0 /\ ~net.sock[c].fin /\ ~net.sock[c].rst
  <2>1. 0 \in 0 .. Space
    BY EvLoopAssumption
  <2>2. Conns \subseteq Events
    BY DEF Events
  <2> QED
    BY <2>1, <2>2 DEF Init, Socket
<1>6. pc = "wait" /\ DOMAIN batch = {} /\ rq = Nil
  BY DEF Init
<1>7. LoopType /\ Where
  BY <1>1, <1>3, <1>4, <1>5, <1>6 DEF LoopType, Where, Ptr
<1>8. TwoLists
  <2> DEFINE f == [i \in 1 .. 0 |-> Nil]
  <2>1. f \in [1 .. 0 -> Events]
    OBVIOUS
  <2>2. Lists(f, 0, f, 0)
    BY <1>3, <1>6 DEF Lists, IsList
  <2> QED
    BY <2>1, <2>2 DEF TwoLists
<1>9. TimersRight
  BY <1>2, <1>3, <1>6 DEF TimersRight, Dying
<1>10. Connecting /\ Unsent /\ ClosedAfterSent
  BY <1>1, <1>3, <1>5, <1>6 DEF Connecting, Unsent, ClosedAfterSent
<1> QED
  BY <1>7, <1>8, <1>9, <1>10 DEF LoopInv

LEMMA LoopNextInv == ASSUME TwoTimers, LoopInv, [Next]_vars PROVE LoopInv'
<1>1. CASE UNCHANGED vars
  <2>1. UNCHANGED <<net, prog, pc, batch, cur, rq>>
    BY <1>1 DEF vars
  <2>2. LoopType' /\ Where' /\ TimersRight' /\ Connecting' /\ Unsent' /\ ClosedAfterSent'
    BY <2>1 DEF LoopInv, LoopType, Where, TimersRight, Dying, Connecting, Unsent, ClosedAfterSent
  <2>3. TwoLists'
    BY <2>1, ListsSame DEF LoopInv
  <2> QED
    BY <2>2, <2>3 DEF LoopInv
<1>2. CASE Loop
  <2>1. ASSUME NEW k \in 0 .. 1, NEW go \in BOOLEAN, NEW stop \in BOOLEAN, HandleInp(k, go, stop) PROVE LoopInv'
    BY <2>1, HandleInpInv
  <2> QED
    BY <1>2, <2>1, EpollWaitInv, QuietInv, HandleOutInv, HandleNoInpInv, HandleTimerInv, HandleErrorsInv,
       TakeDeletionsInv, DeleteInv, RunAgainInv DEF Loop
<1>3. CASE Network
  BY <1>3, NetworkInv
<1> QED
  BY <1>1, <1>2, <1>3 DEF Next

\* What asked to be deleted is in one of two chains that share nothing and end,
\* also while one is walked and the other made (EvLoop.cpp:91-127, Event.cpp:44-52),
\* and the timer in use is in neither (CheckSent.cpp).
THEOREM ListsAreRight == TwoTimers => (Spec => [](TwoLists /\ TimersRight))
<1> SUFFICES ASSUME TwoTimers PROVE Spec => [](TwoLists /\ TimersRight)
  OBVIOUS
<1>1. Init => LoopInv
  BY LoopInitInv
<1>2. LoopInv /\ [Next]_vars => LoopInv'
  BY LoopNextInv
<1>3. LoopInv => TwoLists /\ TimersRight
  BY DEF LoopInv
<1> QED
  BY <1>1, <1>2, <1>3, PTL DEF Spec

InList(f, n) == {f[i] : i \in 1 .. n}

\* The events of a list are those that its first event leads to.
LEMMA ChainIs ==
    ASSUME NEW n \in Nat, NEW f \in [1 .. n -> Events], NEW head, IsList(prog, f, n, head)
    PROVE  Listed(head) = InList(f, n)
<1>1. InList(f, n) \in SUBSET Events /\ Nil \notin Events
  BY EvLoopAssumption DEF Events, InList
<1>2. \A y \in InList(f, n) : prog.next[y] \in InList(f, n)
  <2>1. ASSUME NEW i \in 1 .. n PROVE prog.next[f[i]] \in InList(f, n)
    <3>1. CASE i = 1
      BY <3>1, <2>1 DEF IsList, InList
    <3>2. CASE i # 1
      <4>1. i - 1 \in 1 .. n /\ prog.next[f[i]] = f[i - 1]
        BY <3>2, <2>1 DEF IsList
      <4>2. QED
        BY <4>1 DEF InList
    <3>3. QED
      BY <3>1, <3>2
  <2>2. QED
    BY <2>1 DEF InList
<1>3. {head} \ {Nil} \subseteq InList(f, n)
  <2>1. n # 0 => n \in 1 .. n
    OBVIOUS
  <2>2. QED
    BY <2>1 DEF IsList, InList
<1>4. Listed(head) \subseteq InList(f, n)
  BY <1>1, <1>2, <1>3 DEF Listed
<1>5. ASSUME NEW S \in SUBSET Events, {head} \ {Nil} \subseteq S,
             \A y \in S : prog.next[y] \in S \cup {Nil}, NEW i \in 1 .. n, f[i] \notin S
      PROVE  FALSE
  <2> DEFINE Far == {d \in 0 .. n - 1 : f[n - d] \notin S}
  <2>1. n - i \in Far
    <3>1. n - i \in 0 .. n - 1 /\ n - (n - i) = i
      OBVIOUS
    <3>2. QED
      BY <3>1, <1>5
  <2>2. Far \subseteq Nat /\ Far # {}
    <3>1. 0 .. n - 1 \subseteq Nat
      OBVIOUS
    <3>2. QED
      BY <2>1, <3>1
  <2>3. PICK d \in Far : \A x \in Far : ~(x < d)
    <3> HIDE DEF Far
    <3>1. PICK d \in Far : \A x \in Far : <<x, d>> \notin OpToRel(<, Nat)
      BY <2>2, NatLessThanWellFounded, WFMin
    <3>2. \A x \in Far : x \in Nat /\ d \in Nat
      BY <2>2
    <3>3. \A x \in Far : ~(x < d)
      BY <3>1, <3>2 DEF OpToRel
    <3>4. QED
      BY <3>3
  <2>4. d \in 0 .. n - 1 /\ n - d \in 1 .. n /\ f[n - d] \notin S /\ f[n - d] \in Events
    BY <2>3
  <2>5. CASE d = 0
    <3>1. head = f[n] /\ f[n] \in Events
      BY <2>4, <2>5 DEF IsList
    <3>2. QED
      BY <3>1, <2>4, <2>5, <1>1, <1>5
  <2>6. CASE d # 0
    <3>1. PICK j \in 1 .. n : j = n - (d - 1)
      BY <2>4, <2>6
    <3>2. d - 1 \in 0 .. n - 1 /\ d - 1 < d
      BY <2>4, <2>6
    <3>3. f[j] \in S
      BY <3>1, <3>2, <2>3
    <3>4. j # 1 /\ j - 1 = n - d
      BY <3>1, <2>4
    <3>5. prog.next[f[j]] = f[n - d]
      BY <3>4 DEF IsList
    <3>6. QED
      BY <3>3, <3>5, <2>4, <1>1, <1>5
  <2>7. QED
    BY <2>5, <2>6
<1>6. InList(f, n) \subseteq Listed(head)
  <2>1. ASSUME NEW i \in 1 .. n PROVE f[i] \in Listed(head)
    BY <1>5, <1>1, <2>1 DEF Listed
  <2>2. QED
    BY <2>1 DEF InList
<1>7. QED
  BY <1>4, <1>6

\* A list that is not empty has one end, its first element.
LEMMA OneEnd ==
    ASSUME NEW n \in Nat, NEW f \in [1 .. n -> Events], NEW head, IsList(prog, f, n, head), head # Nil
    PROVE  Cardinality({x \in Listed(head) : prog.next[x] = x}) = 1
<1>1. n # 0 /\ 1 \in 1 .. n
  BY DEF IsList
<1>2. ASSUME NEW i \in 1 .. n, i # 1 PROVE prog.next[f[i]] # f[i]
  <2>1. i - 1 \in 1 .. n /\ i - 1 # i /\ prog.next[f[i]] = f[i - 1]
    BY <1>2 DEF IsList
  <2>2. QED
    BY <2>1 DEF IsList
<1>3. prog.next[f[1]] = f[1]
  BY <1>1 DEF IsList
<1>4. {x \in InList(f, n) : prog.next[x] = x} = {f[1]}
  BY <1>1, <1>2, <1>3 DEF InList
<1>5. QED
  BY <1>4, ChainIs, FS_Singleton

\* What asked to be deleted is in one list, once, and the list ends: the walk
\* of EvLoop.cpp:91-127 deletes every event that registered itself, also those
\* that do while it goes on, and deletes none twice.
THEOREM DeletionsAreListed == TwoTimers => (Spec => []DeletionsListed)
<1>1. ASSUME TwoLists, TimersRight PROVE DeletionsListed
  <2>1. PICK n \in Nat, m \in Nat : \E f \in [1 .. n -> Events], g \in [1 .. m -> Events] : Lists(f, n, g, m)
    BY <1>1 DEF TwoLists
  <2>2. PICK f \in [1 .. n -> Events], g \in [1 .. m -> Events] : Lists(f, n, g, m)
    BY <2>1
  <2>3. IsList(prog, f, n, prog.last) /\ IsList(prog, g, m, rq) /\ Nil \notin Events
    BY <2>2, EvLoopAssumption DEF Lists, Events
  <2>4. Listed(prog.last) = InList(f, n) /\ Listed(rq) = InList(g, m)
    BY <2>3, ChainIs
  <2>5. /\ \A i \in 1 .. n : f[i] \in Events /\ prog.st[f[i]] = "live" /\ prog.next[f[i]] # Nil
        /\ \A i \in 1 .. m : g[i] \in Events /\ prog.st[g[i]] = "live" /\ prog.next[g[i]] # Nil
    <3>1. ASSUME NEW k \in Nat, NEW h \in [1 .. k -> Events], NEW head, IsList(prog, h, k, head),
                 NEW i \in 1 .. k
          PROVE  h[i] \in Events /\ prog.st[h[i]] = "live" /\ prog.next[h[i]] # Nil
      <4>1. h[i] \in Events /\ (i # 1 => h[i - 1] \in Events)
        BY <3>1
      <4>2. QED
        BY <4>1, <3>1, <2>3 DEF IsList
    <3>2. QED
      BY <3>1, <2>3
  <2>6. Listed(prog.last) \cup Listed(rq) = {e \in Events : prog.next[e] # Nil}
    BY <2>2, <2>4, <2>5 DEF Lists, InList
  <2>7. Listed(prog.last) \cap Listed(rq) = {}
    BY <2>2, <2>4 DEF Lists, InList
  <2> DEFINE both == Listed(prog.last) \cup Listed(rq)
  <2>0. \A e \in both : prog.st[e] = "live"
    BY <2>4, <2>5 DEF InList
  <2>8. \A e \in {prog.last, rq} \ {Nil} : Cardinality({x \in Listed(e) : prog.next[x] = x}) = 1
    BY <2>3, OneEnd
  <2>9. QED
    BY <1>1, <2>0, <2>6, <2>7, <2>8 DEF DeletionsListed, TimersRight
<1>2. QED
  BY <1>1, ListsAreRight, PTL

\* A connection that the loop closes without an error has sent all it had to
\* send, in the program and in the kernel, however its writes, the events of
\* epoll, the deletions and their timer come (EvLoop.cpp:102-121).
THEOREM ClosesAfterSending == TwoTimers => (Spec => []ClosedAfterSent)
<1> SUFFICES ASSUME TwoTimers PROVE Spec => []ClosedAfterSent
  OBVIOUS
<1>1. Init => LoopInv
  BY LoopInitInv
<1>2. LoopInv /\ [Next]_vars => LoopInv'
  BY LoopNextInv
<1>3. LoopInv => ClosedAfterSent
  BY DEF LoopInv
<1> QED
  BY <1>1, <1>2, <1>3, PTL DEF Spec

-----------------------------------------------------------------------------
\* The count of the events that wait for output

Waiters(p, f) == {e \in Events : p.st[e] = "live" /\ f \in p.waiting[e]}
One(p, f, e) == IF f \in p.waiting[e] THEN 1 ELSE 0

\* The methods of e change the count as they change what e waits for.
Balanced(p, q, e) ==
    q.nb = p.nb + One(q, "out", e) - One(p, "out", e) /\ One(q, "pendingo", e) = One(p, "pendingo", e)

LEMMA BalancedTwice ==
    ASSUME NEW p \in Prog, NEW q \in Prog, NEW r \in Prog, NEW e \in Events, Balanced(p, q, e), Balanced(q, r, e)
    PROVE  Balanced(p, r, e)
  BY DEF Balanced, One, Prog

LEMMA SameBalanced ==
    ASSUME NEW p \in Prog, NEW q, NEW e \in Events, q.nb = p.nb, q.waiting = p.waiting
    PROVE  Balanced(p, q, e)
  BY DEF Balanced, One, Prog

LEMMA RegBalanced ==
    ASSUME NEW p \in Prog, NEW e \in Events
    PROVE  Balanced(p, RegForDeletion(p, e), e)
<1>1. RegForDeletion(p, e).nb = p.nb
  BY DEF RegForDeletion, Prog
<1>2. RegForDeletion(p, e).waiting = p.waiting
  BY RegIs
<1> QED
  BY <1>1, <1>2, SameBalanced

LEMMA ErrorBalanced ==
    ASSUME NEW p \in Prog, NEW e \in Events, NEW f \in {"rdhup", "hup", "err"}
    PROVE  Balanced(p, Error(p, e, f), e)
<1>1. Error(p, e, f).nb = p.nb
  BY DEF Error, RegForDeletion, Prog
<1>2. Error(p, e, f).waiting = p.waiting
  BY ErrorIs
<1> QED
  BY <1>1, <1>2, SameBalanced

LEMMA WaitForMoreOutBalanced ==
    ASSUME NEW p \in Prog, NEW e \in Events
    PROVE  Balanced(p, WaitForMoreOut(p, e), e)
  BY DEF Balanced, One, WaitForMoreOut, Prog

LEMMA NoMoreOutBalanced ==
    ASSUME NEW p \in Prog, NEW e \in Events
    PROVE  Balanced(p, NoMoreOut(p, e), e)
  BY DEF Balanced, One, NoMoreOut, Prog

LEMMA WaitForMoreInpBalanced ==
    ASSUME NEW p \in Prog, NEW e \in Events
    PROVE  Balanced(p, WaitForMoreInp(p, e), e)
  BY DEF Balanced, One, WaitForMoreInp, Prog

LEMMA NoMoreInpBalanced ==
    ASSUME NEW p \in Prog, NEW e \in Events
    PROVE  Balanced(p, NoMoreInp(p, e), e)
  BY DEF Balanced, One, NoMoreInp, Prog

LEMMA FlushBalanced ==
    ASSUME net.sock \in [Conns -> Socket], NEW p \in Prog, NEW c \in Conns
    PROVE  Balanced(p, Flush(p, c), c)
<1> DEFINE sent == Smaller(p.cw[c], Space - net.sock[c].snd)
           f == [p.cw EXCEPT ![c] = @ - sent]
           q == [p EXCEPT !.cw = f]
<1>1. c \in Events
  BY DEF Events
<1>2. CASE p.wfc[c] \/ p.cw[c] = 0
  <2>1. Flush(p, c) = p
    BY <1>2 DEF Flush
  <2> QED
    BY <1>1, <2>1, SameBalanced
<1>3. CASE ~(p.wfc[c] \/ p.cw[c] = 0) /\ Dead(net.sock[c])
  <2>1. Flush(p, c) = Error(p, c, "hup")
    BY <1>3 DEF Flush
  <2> QED
    BY <1>1, <2>1, ErrorBalanced
<1>4. CASE ~(p.wfc[c] \/ p.cw[c] = 0) /\ ~Dead(net.sock[c])
  <2>1. Flush(p, c) = WaitForMoreOut(q, c) \/ Flush(p, c) = q
    BY <1>4 DEF Flush
  <2>2. sent \in Nat /\ p.cw[c] - sent \in Nat
    BY EvLoopAssumption DEF Smaller, Prog, Socket
  <2> HIDE DEF sent
  <2>3. f \in [Conns -> Nat]
    BY <2>2 DEF Prog
  <2> HIDE DEF f
  <2>4. q \in Prog /\ q.nb = p.nb /\ q.waiting = p.waiting
    BY <2>3 DEF Prog
  <2> HIDE DEF q
  <2>5. Balanced(p, q, c)
    BY <1>1, <2>4, SameBalanced
  <2>6. Balanced(q, WaitForMoreOut(q, c), c) /\ WaitForMoreOut(q, c) \in Prog
    BY <1>1, <2>4, WaitForMoreOutBalanced, WaitForMoreOutIs DEF Handled
  <2> QED
    BY <1>1, <2>1, <2>4, <2>5, <2>6, BalancedTwice
<1> QED
  BY <1>2, <1>3, <1>4

LEMMA OpenedBalanced ==
    ASSUME NEW p \in Prog, NEW c \in Conns
    PROVE  Balanced(p, Opened(p, c), c)
<1>1. c \in Events
  BY DEF Events
<1>2. Opened(p, c).waiting = p.waiting
  BY OpenedIs
<1>3. Opened(p, c).nb = p.nb
  BY DEF Opened, RegForDeletion, Prog
<1> QED
  BY <1>1, <1>2, <1>3, SameBalanced

LEMMA AnsweredBalanced ==
    ASSUME NEW p \in Prog, NEW c \in Conns, NEW k \in 0 .. 1, NEW b \in BOOLEAN
    PROVE  Balanced(p, Answered([p EXCEPT !.cnt = b], c, k), c)
<1>1. c \in Events
  BY DEF Events
<1>2. Answered([p EXCEPT !.cnt = b], c, k).waiting = p.waiting
  BY AnsweredIs
<1>3. Answered([p EXCEPT !.cnt = b], c, k).nb = p.nb
  BY DEF Answered, Prog
<1> QED
  BY <1>1, <1>2, <1>3, SameBalanced

\* A handler of one event: it is live, and only its flags change.
OneBalanced ==
    /\ cur \in Events /\ prog \in Prog /\ prog' \in Prog /\ prog.st[cur] = "live" /\ prog'.st = prog.st
    /\ \A x \in Events : x # cur => prog'.waiting[x] = prog.waiting[x]
    /\ Balanced(prog, prog', cur)

LEMMA HandledBalanced ==
    ASSUME LoopInv, pc \in {"out", "inp", "errs"}, Handled(prog, prog', cur), Balanced(prog, prog', cur)
    PROVE  OneBalanced
  BY DEF LoopInv, LoopType, Where, Handled, OneBalanced

LEMMA HandleOutBalanced == ASSUME LoopInv, HandleOut, Asked("out") PROVE OneBalanced
<1> DEFINE o == NoMoreOut(prog, cur)
           p == Opened(o, cur)
<1>1. LoopType /\ Where /\ TimersRight
  BY DEF LoopInv
<1>2. /\ pc = "out" /\ cur \in Events /\ cur \in Conns /\ prog \in Prog /\ net.sock \in [Conns -> Socket]
      /\ prog' = Flush(p, cur)
  BY <1>1 DEF HandleOut, Asked, Where, LoopType, TimersRight, Events
<1>3. Handled(prog, o, cur) /\ Balanced(prog, o, cur)
  BY <1>2, NoMoreOutIs, NoMoreOutBalanced
<1>4. o \in Prog
  BY <1>3 DEF Handled
<1> HIDE DEF o
<1>5. Handled(o, p, cur) /\ Balanced(o, p, cur)
  BY <1>2, <1>4, OpenedIs, OpenedBalanced
<1>6. p \in Prog
  BY <1>5 DEF Handled
<1> HIDE DEF p
<1>7. Handled(p, prog', cur) /\ Balanced(p, prog', cur)
  BY <1>2, <1>6, FlushIs, FlushBalanced DEF FlushedRight
<1>8. prog' \in Prog
  BY <1>7 DEF Handled
<1>9. Handled(prog, p, cur) /\ Balanced(prog, p, cur)
  BY <1>2, <1>3, <1>4, <1>5, <1>6, HandledTwice, BalancedTwice
<1>10. Handled(prog, prog', cur) /\ Balanced(prog, prog', cur)
  BY <1>2, <1>6, <1>7, <1>8, <1>9, HandledTwice, BalancedTwice
<1> QED
  BY <1>2, <1>10, HandledBalanced

LEMMA HandleInpBalanced ==
    ASSUME LoopInv, NEW k \in 0 .. 1, NEW go \in BOOLEAN, NEW stop \in BOOLEAN, HandleInp(k, go, stop)
    PROVE  OneBalanced
<1> DEFINE r == NoMoreInp(prog, cur)
           b == r.cnt /\ ~stop
           p == Answered([r EXCEPT !.cnt = b], cur, k)
           q == Flush(p, cur)
<1>1. LoopType
  BY DEF LoopInv
<1>2. /\ pc = "inp" /\ cur \in Conns /\ cur \in Events /\ prog \in Prog /\ net.sock \in [Conns -> Socket]
      /\ prog' \in {q, Error(q, cur, "hup"), WaitForMoreInp(q, cur)}
  BY <1>1 DEF HandleInp, LoopType, Events
<1>3. Handled(prog, r, cur) /\ Balanced(prog, r, cur)
  BY <1>2, NoMoreInpIs, NoMoreInpBalanced
<1>4. r \in Prog /\ b \in BOOLEAN
  BY <1>3 DEF Handled, Prog
<1> HIDE DEF r, b
<1>5. Handled(r, p, cur) /\ Balanced(r, p, cur)
  BY <1>2, <1>4, AnsweredIs, AnsweredBalanced
<1>6. p \in Prog
  BY <1>5 DEF Handled
<1> HIDE DEF p
<1>7. Handled(p, q, cur) /\ Balanced(p, q, cur)
  BY <1>2, <1>6, FlushIs, FlushBalanced DEF FlushedRight
<1>8. q \in Prog
  BY <1>7 DEF Handled
<1>9. Handled(prog, p, cur) /\ Balanced(prog, p, cur)
  BY <1>2, <1>3, <1>4, <1>5, <1>6, HandledTwice, BalancedTwice
<1>10. Handled(prog, q, cur) /\ Balanced(prog, q, cur)
  BY <1>2, <1>6, <1>7, <1>8, <1>9, HandledTwice, BalancedTwice
<1> HIDE DEF q
<1>11. CASE prog' = q
  BY <1>2, <1>10, <1>11, HandledBalanced
<1>12. CASE prog' = Error(q, cur, "hup") \/ prog' = WaitForMoreInp(q, cur)
  <2>1. Handled(q, prog', cur) /\ Balanced(q, prog', cur)
    BY <1>2, <1>8, <1>12, ErrorIs, ErrorBalanced, WaitForMoreInpIs, WaitForMoreInpBalanced
  <2>2. prog' \in Prog
    BY <2>1 DEF Handled
  <2>3. Handled(prog, prog', cur) /\ Balanced(prog, prog', cur)
    BY <1>2, <1>8, <1>10, <2>1, <2>2, HandledTwice, BalancedTwice
  <2> QED
    BY <1>2, <2>3, HandledBalanced
<1> QED
  BY <1>2, <1>11, <1>12

LEMMA HandleNoInpBalanced == ASSUME LoopInv, HandleNoInp PROVE OneBalanced
<1> DEFINE r == NoMoreInp(prog, cur)
<1>1. LoopType
  BY DEF LoopInv
<1>2. /\ pc = "inp" /\ cur \in Conns /\ cur \in Events /\ prog \in Prog
      /\ prog' \in {Error(r, cur, "hup"), WaitForMoreInp(prog, cur)}
  BY <1>1 DEF HandleNoInp, LoopType, Events
<1>3. Handled(prog, r, cur) /\ Balanced(prog, r, cur)
  BY <1>2, NoMoreInpIs, NoMoreInpBalanced
<1>4. r \in Prog
  BY <1>3 DEF Handled
<1> HIDE DEF r
<1>5. CASE prog' = Error(r, cur, "hup")
  <2>1. Handled(r, prog', cur) /\ Balanced(r, prog', cur)
    BY <1>2, <1>4, <1>5, ErrorIs, ErrorBalanced
  <2>2. prog' \in Prog
    BY <2>1 DEF Handled
  <2>3. Handled(prog, prog', cur) /\ Balanced(prog, prog', cur)
    BY <1>2, <1>3, <1>4, <2>1, <2>2, HandledTwice, BalancedTwice
  <2> QED
    BY <1>2, <2>3, HandledBalanced
<1>6. CASE prog' = WaitForMoreInp(prog, cur)
  BY <1>2, <1>6, WaitForMoreInpIs, WaitForMoreInpBalanced, HandledBalanced
<1> QED
  BY <1>2, <1>5, <1>6

LEMMA HandleErrorsBalanced == ASSUME LoopInv, HandleErrors PROVE OneBalanced
<1>1. pc = "errs" /\ cur \in Events /\ prog \in Prog /\ prog' = Errors(prog)
  BY DEF LoopInv, LoopType, Where, HandleErrors
<1>2. Handled(prog, prog', cur) /\ prog'.waiting = prog.waiting
  BY <1>1, ErrorsIs
<1>3. prog'.nb = prog.nb
  BY <1>1 DEF Errors, RegForDeletion, Prog
<1> QED
  BY <1>1, <1>2, <1>3, SameBalanced, HandledBalanced

LEMMA HandleTimerBalanced == ASSUME LoopInv, HandleTimer PROVE OneBalanced
<1> DEFINE r == NoMoreInp(prog, cur)
<1>1. LoopType /\ Where
  BY DEF LoopInv
<1>2. /\ pc = "inp" /\ cur \in Events /\ prog \in Prog /\ prog' = Timeout(r, cur) /\ prog.st[cur] = "live"
  BY <1>1 DEF HandleTimer, LoopType, Where
<1>3. Handled(prog, r, cur) /\ Balanced(prog, r, cur)
  BY <1>2, NoMoreInpIs, NoMoreInpBalanced
<1>4. r \in Prog
  BY <1>3 DEF Handled
<1> HIDE DEF r
<1>5. CASE prog' = [r EXCEPT !.timer = Nil]
  <2>1. prog' \in Prog /\ prog'.st = r.st /\ prog'.waiting = r.waiting /\ prog'.nb = r.nb
    BY <1>4, <1>5 DEF Prog
  <2>2. Balanced(prog, prog', cur)
    BY <1>2, <1>3, <1>4, <2>1, SameBalanced, BalancedTwice
  <2> QED
    BY <1>2, <1>3, <2>1, <2>2 DEF Handled, OneBalanced
<1>6. CASE prog' = WaitForMoreInp(r, cur)
  <2>1. Handled(r, prog', cur) /\ Balanced(r, prog', cur)
    BY <1>2, <1>4, <1>6, WaitForMoreInpIs, WaitForMoreInpBalanced
  <2>2. prog' \in Prog
    BY <2>1 DEF Handled
  <2>3. Handled(prog, prog', cur) /\ Balanced(prog, prog', cur)
    BY <1>2, <1>3, <1>4, <2>1, <2>2, HandledTwice, BalancedTwice
  <2> QED
    BY <1>2, <2>3, HandledBalanced
<1> QED
  BY <1>2, <1>5, <1>6 DEF Timeout

\* A set that differs from another one by e at most.
LEMMA DifferByOne ==
    ASSUME NEW S, NEW T, NEW e, IsFiniteSet(S), IsFiniteSet(T), S \ {e} = T \ {e}
    PROVE  /\ Cardinality(S) \in Nat /\ Cardinality(T) \in Nat
           /\ Cardinality(S) - (IF e \in S THEN 1 ELSE 0) = Cardinality(T) - (IF e \in T THEN 1 ELSE 0)
<1>1. Cardinality(S) \in Nat /\ Cardinality(T) \in Nat
  BY FS_CardinalityType
<1>2. Cardinality(S \ {e}) = Cardinality(S) - (IF e \in S THEN 1 ELSE 0)
  BY <1>1, FS_RemoveElement
<1>3. Cardinality(T \ {e}) = Cardinality(T) - (IF e \in T THEN 1 ELSE 0)
  BY <1>1, FS_RemoveElement
<1> QED
  BY <1>1, <1>2, <1>3

LEMMA WaitersAre ==
    ASSUME IsFiniteSet(Events), NEW p, NEW f
    PROVE  IsFiniteSet(Waiters(p, f)) /\ Cardinality(Waiters(p, f)) \in Nat
<1>1. Waiters(p, f) \in SUBSET Events
  BY DEF Waiters
<1> QED
  BY <1>1, FS_Subset, FS_CardinalityType

LEMMA CountedIs == WaitersCounted <=> prog.nb >= Cardinality(Waiters(prog, "out")) + Cardinality(Waiters(prog, "pendingo"))
  BY DEF WaitersCounted, Waiters

LEMMA SameCount ==
    ASSUME WaitersCounted, prog'.st = prog.st, prog'.waiting = prog.waiting, prog'.nb = prog.nb
    PROVE  WaitersCounted'
  BY DEF WaitersCounted

LEMMA OneCount == ASSUME IsFiniteSet(Events), WaitersCounted, OneBalanced PROVE WaitersCounted'
<1> DEFINE out == Waiters(prog, "out")
           pend == Waiters(prog, "pendingo")
<1>1. out' \ {cur} = out \ {cur} /\ pend' \ {cur} = pend \ {cur}
  BY DEF Waiters, OneBalanced
<1>2. /\ cur \in out <=> "out" \in prog.waiting[cur]
      /\ cur \in out' <=> "out" \in prog'.waiting[cur]
      /\ cur \in pend <=> "pendingo" \in prog.waiting[cur]
      /\ cur \in pend' <=> "pendingo" \in prog'.waiting[cur]
  BY DEF Waiters, OneBalanced
<1>3. IsFiniteSet(out) /\ IsFiniteSet(pend) /\ IsFiniteSet(out') /\ IsFiniteSet(pend')
  BY WaitersAre
<1>4. prog.nb \in Int /\ prog.nb >= Cardinality(out) + Cardinality(pend)
  BY CountedIs DEF OneBalanced, Prog
<1> HIDE DEF out, pend
<1>5. /\ Cardinality(out) \in Nat /\ Cardinality(out') \in Nat
      /\ Cardinality(out') - One(prog', "out", cur) = Cardinality(out) - One(prog, "out", cur)
  BY <1>1, <1>2, <1>3, DifferByOne DEF One
<1>6. /\ Cardinality(pend) \in Nat /\ Cardinality(pend') \in Nat
      /\ Cardinality(pend') - One(prog', "pendingo", cur) = Cardinality(pend) - One(prog, "pendingo", cur)
  BY <1>1, <1>2, <1>3, DifferByOne DEF One
<1>7. /\ One(prog, "out", cur) \in Nat /\ One(prog', "out", cur) \in Nat
      /\ One(prog, "pendingo", cur) \in Nat /\ One(prog', "pendingo", cur) \in Nat
  BY DEF One
<1>8. /\ prog'.nb = prog.nb + One(prog', "out", cur) - One(prog, "out", cur)
      /\ One(prog', "pendingo", cur) = One(prog, "pendingo", cur)
  BY DEF OneBalanced, Balanced
<1>9. prog'.nb >= Cardinality(out') + Cardinality(pend')
  BY <1>4, <1>5, <1>6, <1>7, <1>8
<1> QED
  BY <1>9, CountedIs DEF Waiters, WaitersCounted, out, pend

LEMMA CheckLaterCounts ==
    ASSUME NEW p \in Prog, NEW e \in Conns, p.timer # Nil \/ \E t \in Timers : p.st[t] = "free"
    PROVE  CheckLater(p, e).nb = p.nb + 1 /\ CheckLater(p, e).waiting[e] = p.waiting[e] \cup {"pendingo"}
<1> DEFINE r == WithTimer(p)
<1>1. r \in Prog /\ r.waiting[e] = p.waiting[e] /\ e \in Events
  BY WithTimerIs DEF SameConn, Events
<1>2. r.nb = p.nb
  BY DEF WithTimer, Prog
<1> HIDE DEF r
<1>3. CheckLater(p, e).nb = r.nb + 1
  BY <1>1 DEF CheckLater, r, Prog
<1>4. CheckLater(p, e).waiting[e] = r.waiting[e] \cup {"pendingo"}
  BY <1>1 DEF CheckLater, r, Prog
<1> QED
  BY <1>1, <1>2, <1>3, <1>4

LEMMA DeleteCount ==
    ASSUME IsFiniteSet(Events), TwoTimers, LoopInv, WaitersCounted, Delete
    PROVE  WaitersCounted'
<1>1. LoopType /\ Where /\ TwoLists /\ TimersRight
  BY DEF LoopInv
<1>2. rq \in Events /\ prog.st[rq] = "live" /\ Ended(prog, prog', rq) /\ prog \in Prog /\ prog' \in Prog
  BY <1>1, ListsDelete DEF LoopType
<1> DEFINE p == NoMorePending(prog, rq)
           out == Waiters(prog, "out")
           pend == Waiters(prog, "pendingo")
<1>3. /\ p \in Prog /\ p.waiting = prog.waiting /\ p.st = prog.st /\ p.timer = prog.timer
      /\ p.nb = prog.nb - One(prog, "pendingo", rq)
  <2>1. p.nb = prog.nb - One(prog, "pendingo", rq)
    BY <1>2 DEF NoMorePending, One, Prog
  <2> QED
    BY <1>2, <2>1, NoMorePendingIs
<1>4. prog' = IF Pending(p, rq) THEN CheckLater(p, rq) ELSE Deleted(p, rq)
  BY DEF Delete
<1>5. ASSUME NEW x \in Events, x # rq, NEW f \in {"out", "pendingo"}
      PROVE  prog'.st[x] = "live" /\ f \in prog'.waiting[x] <=> prog.st[x] = "live" /\ f \in prog.waiting[x]
  BY <1>2, <1>5 DEF Ended, OneTimer, SameConn, Events
<1>6. out' \ {rq} = out \ {rq} /\ pend' \ {rq} = pend \ {rq}
  BY <1>5 DEF Waiters
<1>7. IsFiniteSet(out) /\ IsFiniteSet(pend) /\ IsFiniteSet(out') /\ IsFiniteSet(pend')
  BY WaitersAre
<1>8. prog.nb \in Int /\ prog.nb >= Cardinality(out) + Cardinality(pend)
  BY <1>2, CountedIs DEF Prog
<1>9. (rq \in out <=> "out" \in prog.waiting[rq]) /\ (rq \in pend <=> "pendingo" \in prog.waiting[rq])
  BY <1>2 DEF Waiters
<1>10. prog'.nb >= Cardinality(out') + Cardinality(pend')
  <2>1. CASE Pending(p, rq)
    <3>1. rq \in Conns /\ prog' = CheckLater(p, rq)
      BY <1>4, <2>1 DEF Pending, HasOut
    <3>2. p.timer # Nil \/ \E t \in Timers : p.st[t] = "free"
      BY <1>1, <1>3, TimerIsFree
    <3>3. prog'.nb = p.nb + 1 /\ prog'.waiting[rq] = prog.waiting[rq] \cup {"pendingo"} /\ prog'.st[rq] = "live"
      BY <1>2, <1>3, <3>1, <3>2, CheckLaterCounts, CheckLaterIs
    <3>4. (rq \in out' <=> "out" \in prog.waiting[rq]) /\ rq \in pend'
      BY <1>2, <3>3 DEF Waiters
    <3> HIDE DEF out, pend, p
    <3>5. /\ Cardinality(out) \in Nat /\ Cardinality(out') \in Nat /\ Cardinality(out') = Cardinality(out)
      BY <1>6, <1>7, <1>9, <3>4, DifferByOne
    <3>6. /\ Cardinality(pend) \in Nat /\ Cardinality(pend') \in Nat
          /\ Cardinality(pend') - 1 = Cardinality(pend) - One(prog, "pendingo", rq)
      BY <1>6, <1>7, <1>9, <3>4, DifferByOne DEF One
    <3>7. One(prog, "pendingo", rq) \in Nat /\ prog'.nb = prog.nb - One(prog, "pendingo", rq) + 1
      BY <1>3, <3>3 DEF One
    <3> QED
      BY <1>8, <3>5, <3>6, <3>7
  <2>2. CASE ~Pending(p, rq)
    <3>1. prog' = Deleted(p, rq)
      BY <1>4, <2>2
    <3>2. prog'.nb = p.nb
      BY <1>3, <3>1 DEF Deleted, Prog
    <3>3. prog'.st[rq] # "live"
      BY <1>2, <1>3, <3>1, DeletedIs
    <3>4. rq \notin out' /\ rq \notin pend'
      BY <3>3 DEF Waiters
    <3> HIDE DEF out, pend, p
    <3>5. /\ Cardinality(out) \in Nat /\ Cardinality(out') \in Nat /\ Cardinality(out') <= Cardinality(out)
      BY <1>6, <1>7, <3>4, DifferByOne
    <3>6. /\ Cardinality(pend) \in Nat /\ Cardinality(pend') \in Nat
          /\ Cardinality(pend') = Cardinality(pend) - One(prog, "pendingo", rq)
      BY <1>6, <1>7, <1>9, <3>4, DifferByOne DEF One
    <3>7. One(prog, "pendingo", rq) \in Nat /\ prog'.nb = prog.nb - One(prog, "pendingo", rq)
      BY <1>3, <3>2 DEF One
    <3> QED
      BY <1>8, <3>5, <3>6, <3>7
  <2> QED
    BY <2>1, <2>2
<1> QED
  BY <1>10, CountedIs DEF Waiters, WaitersCounted, out, pend

LEMMA CountNextInv ==
    ASSUME IsFiniteSet(Events), TwoTimers, LoopInv, WaitersCounted, [Next]_vars
    PROVE  WaitersCounted'
<1>1. CASE UNCHANGED prog
  BY <1>1, SameCount
<1>2. CASE HandleOut
  <2>1. CASE Asked("out")
    BY <1>2, <2>1, HandleOutBalanced, OneCount
  <2>2. CASE ~Asked("out")
    BY <1>1, <1>2, <2>2 DEF HandleOut
  <2> QED
    BY <2>1, <2>2
<1>3. ASSUME NEW k \in 0 .. 1, NEW go \in BOOLEAN, NEW stop \in BOOLEAN, HandleInp(k, go, stop) PROVE WaitersCounted'
  BY <1>3, HandleInpBalanced, OneCount
<1>4. CASE HandleNoInp
  BY <1>4, HandleNoInpBalanced, OneCount
<1>5. CASE HandleTimer
  BY <1>5, HandleTimerBalanced, OneCount
<1>6. CASE HandleErrors
  BY <1>6, HandleErrorsBalanced, OneCount
<1>7. CASE TakeDeletions \/ RunAgain
  <2>1. prog'.st = prog.st /\ prog'.waiting = prog.waiting /\ prog'.nb = prog.nb
    BY <1>7 DEF TakeDeletions, RunAgain, LoopInv, LoopType, Prog
  <2> QED
    BY <2>1, SameCount
<1>8. CASE Delete
  BY <1>8, DeleteCount
<1>9. CASE EpollWait \/ NextEvent \/ SkipInp \/ AllSent
  BY <1>1, <1>9 DEF EpollWait, NextEvent, SkipInp, AllSent
<1>10. CASE Network
  BY <1>1, <1>10 DEF Network, Established, Refused, Arrived, Finished, Reset, Acked, Expired, Kernel
<1> QED
  BY <1>1, <1>2, <1>3, <1>4, <1>5, <1>6, <1>7, <1>8, <1>9, <1>10 DEF Next, Loop, vars

\* wait_for_data_to_be_sent, which stops when nb_out_waiting is zero, never does
\* while an event waits for output or for its data to leave the kernel
\* (EvLoop.cpp:94-138, Event.cpp:36-41).
THEOREM WaitersAreCounted == TwoTimers /\ IsFiniteSet(Events) => (Spec => []WaitersCounted)
<1> SUFFICES ASSUME TwoTimers, IsFiniteSet(Events) PROVE Spec => []WaitersCounted
  OBVIOUS
<1>1. Init => LoopInv /\ WaitersCounted
  <2> SUFFICES ASSUME Init PROVE WaitersCounted
    BY LoopInitInv
  <2>1. Waiters(prog, "out") = {} /\ Waiters(prog, "pendingo") = {} /\ prog.nb = 0
    BY DEF Init, Waiters
  <2> QED
    BY <2>1, FS_EmptySet, CountedIs
<1>2. LoopInv /\ WaitersCounted /\ [Next]_vars => (LoopInv /\ WaitersCounted)'
  BY LoopNextInv, CountNextInv
<1> QED
  BY <1>1, <1>2, PTL DEF Spec

-----------------------------------------------------------------------------
\* The TLS connection

Records == {"hs", "data", "ask", "close"}
States == {"ok", "wants_inp", "wants_out"}
SockType == [in : Seq(Records), snd : Nat, full : BOOLEAN]
LibType == [need : Nat, owe : BOOLEAN, sent : BOOLEAN]

SslType ==
    /\ sock \in SockType /\ told \in BOOLEAN /\ lib \in LibType
    /\ conn \in [write : States, read : States, cw : Nat, waiting : SUBSET {"inp", "out"},
                 first : BOOLEAN, over : BOOLEAN, stop : BOOLEAN]
    /\ left \in [hs : Nat, rec : Nat]

\* What is missing of the handshake is the records to come and the one to read,
\* which is the first: the library never finds one it does not expect.
Shaken(in, need) ==
    /\ need = left.hs + (IF in # <<>> /\ in[1] = "hs" THEN 1 ELSE 0)
    /\ \A i \in 2 .. Len(in) : in[i] # "hs"

Stuck(s) == s.full /\ ~(s.snd < Room)
WillWrite == at \in {"out_read", "out_write", "write"}

\* A write that waits has data; a write that does not is done at once; one that
\* waits for room has none, or will be told, or has been.
WritesDue ==
    /\ conn.write # "ok" => conn.cw > 0
    /\ conn.write = "ok" /\ conn.cw > 0 /\ ~conn.first => WillWrite
    /\ conn.write = "wants_out" =>
           Stuck(sock) \/ told \/ (at = "out" /\ "out" \in mask) \/ WillWrite

SslInv == SslType /\ Shaken(sock.in, lib.need) /\ WritesDue

LEMMA FirstRead ==
    ASSUME NEW in \in Seq(Records), in # <<>>
    PROVE  /\ Head(in) = in[1] /\ Head(in) \in Records
           /\ Tail(in) \in Seq(Records) /\ Len(in) \in Nat \ {0} /\ Len(Tail(in)) = Len(in) - 1
           /\ \A i \in 1 .. Len(in) - 1 : Tail(in)[i] = in[i + 1]
<1>1. Len(in) \in Nat \ {0} /\ Head(in) = in[1] /\ Tail(in) \in Seq(Records)
  BY EmptySeq, LenProperties, HeadTailProperties
<1>2. in[1] \in Records
  BY <1>1, ElementOfSeq
<1>3. QED
  BY <1>1, <1>2, HeadTailProperties

\* A record of the handshake that is read was the only one.
LEMMA ReadShaken ==
    ASSUME NEW in \in Seq(Records), in # <<>>, NEW need, Shaken(in, need), left.hs \in Nat,
           NEW next \in Nat, next = need - (IF Head(in) = "hs" THEN 1 ELSE 0)
    PROVE  Shaken(Tail(in), next)
<1>1. PICK n \in Nat \ {0}, hs \in Nat : n = Len(in) /\ hs = left.hs
  BY FirstRead
<1>2. Head(in) = in[1] /\ Len(Tail(in)) = n - 1 /\ \A i \in 1 .. n - 1 : Tail(in)[i] = in[i + 1]
  BY <1>1, FirstRead
<1>3. \A i \in 1 .. n - 1 : Tail(in)[i] # "hs"
  BY <1>1, <1>2 DEF Shaken
<1>4. Tail(in) # <<>> => Tail(in)[1] # "hs"
  <2>1. Tail(in) \in Seq(Records)
    BY FirstRead
  <2>2. Tail(in) # <<>> => Len(Tail(in)) \in Nat \ {0}
    BY <2>1, FirstRead
  <2>3. QED
    BY <2>2, <1>1, <1>2, <1>3
<1>5. \A i \in 2 .. Len(Tail(in)) : Tail(in)[i] # "hs"
  BY <1>1, <1>2, <1>3
<1>6. need = hs + (IF in[1] = "hs" THEN 1 ELSE 0)
  BY <1>1 DEF Shaken
<1>7. next = left.hs
  BY <1>1, <1>2, <1>6
<1>8. QED
  BY <1>4, <1>5, <1>7 DEF Shaken

\* Every call of the library returns one of its results, and leaves the socket
\* full if it could not send.
LEMMA CallIs ==
    ASSUME SslType, Shaken(sock.in, lib.need), NEW do \in {"read", "write"}, NEW r, r = Call(do)
    PROVE  /\ r.sock \in SockType /\ r.lib \in LibType /\ Shaken(r.sock.in, r.lib.need)
           /\ r.is \in {"again", "none", "want_read", "want_write", "zero"}
           /\ r.is = "zero" => do = "read"
           /\ Stuck(sock) => Stuck(r.sock)
           /\ r.is = "want_write" => Stuck(r.sock)
<1>1. PICK in \in Seq(Records), snd \in Nat, need \in Nat :
          in = sock.in /\ snd = sock.snd /\ need = lib.need
  BY DEF SslType, SockType, LibType
<1>2. PICK end \in Nat : end = IF lib.owe THEN snd + 1 ELSE snd
  BY <1>1
<1>3. PICK free \in LibType : free = [lib EXCEPT !.owe = FALSE, !.sent = TRUE]
  BY DEF SslType, LibType
<1>4. free.need = need /\ sock.full \in BOOLEAN /\ Shaken(in, need) /\ Room \in Nat
  BY <1>1, <1>3, TcpSslAssumption DEF SslType, SockType, LibType
<1>5. in # <<>> => Head(in) \in Records /\ Tail(in) \in Seq(Records) /\ Head(in) = in[1]
  BY FirstRead
<1>6. Stuck(sock) => sock.full /\ snd >= Room /\ end >= Room
  BY <1>1, <1>2, <1>4 DEF Stuck
<1>7. CASE lib.owe /\ ~Writable
  <2>1. r = Result("want_write", in, snd, TRUE, lib)
    BY <1>1, <1>7 DEF Call
  <2>2. r.is = "want_write" /\ r.sock = [in |-> in, snd |-> snd, full |-> TRUE] /\ r.lib = lib
    BY <2>1 DEF Result
  <2>3. QED
    BY <2>2, <1>1, <1>4, <1>7 DEF SslType, SockType, Stuck, Writable
<1>8. CASE ~(lib.owe /\ ~Writable) /\ need > 0 /\ in # <<>> /\ Head(in) = "hs"
  <2>0. need - 1 \in Nat
    BY <1>8
  <2>1. PICK l \in LibType : l = [free EXCEPT !.need = @ - 1]
    BY <2>0, <1>4 DEF LibType
  <2>2. r = Result("again", Tail(in), end, sock.full, l)
    BY <1>1, <1>2, <1>3, <1>8, <2>1 DEF Call, Readable
  <2>3. /\ r.is = "again" /\ r.sock = [in |-> Tail(in), snd |-> end, full |-> sock.full]
        /\ r.lib = l /\ l.need = need - 1 /\ l.need \in Nat
    BY <2>0, <2>1, <2>2, <1>4 DEF Result, LibType
  <2>4. Shaken(Tail(in), l.need)
    BY <2>3, <1>4, <1>8, ReadShaken DEF SslType
  <2>5. QED
    BY <2>3, <2>4, <1>2, <1>4, <1>5, <1>6, <1>8 DEF SockType, Stuck
<1>9. CASE ~(lib.owe /\ ~Writable) /\ need > 0 /\ (in = <<>> \/ Head(in) # "hs")
  <2>1. r = Result("want_read", in, end, sock.full, free)
    BY <1>1, <1>2, <1>3, <1>9 DEF Call, Readable
  <2>2. r.is = "want_read" /\ r.sock = [in |-> in, snd |-> end, full |-> sock.full] /\ r.lib = free
    BY <2>1 DEF Result
  <2>3. QED
    BY <2>2, <1>2, <1>3, <1>4, <1>6 DEF SockType, Stuck
<1>10. CASE ~(lib.owe /\ ~Writable) /\ need = 0 /\ do = "write" /\ end < Room
  <2>0. ~(lib.need > 0) /\ end = (IF lib.owe THEN sock.snd + 1 ELSE sock.snd)
    BY <1>1, <1>2, <1>10
  <2>1. r = Result("none", in, end + 1, sock.full, free)
    BY <2>0, <1>1, <1>3, <1>10 DEF Call
  <2>2. r.is = "none" /\ r.sock = [in |-> in, snd |-> end + 1, full |-> sock.full] /\ r.lib = free
    BY <2>1 DEF Result
  <2>3. QED
    BY <2>2, <1>2, <1>3, <1>4, <1>6, <1>10 DEF SockType, Stuck
<1>11. CASE ~(lib.owe /\ ~Writable) /\ need = 0 /\ do = "write" /\ ~(end < Room)
  <2>0. ~(lib.need > 0) /\ end = (IF lib.owe THEN sock.snd + 1 ELSE sock.snd)
    BY <1>1, <1>2, <1>11
  <2>1. r = Result("want_write", in, end, TRUE, free)
    BY <2>0, <1>1, <1>3, <1>11 DEF Call
  <2>2. r.is = "want_write" /\ r.sock = [in |-> in, snd |-> end, full |-> TRUE] /\ r.lib = free
    BY <2>1 DEF Result
  <2>3. QED
    BY <2>2, <1>2, <1>3, <1>4, <1>11 DEF SockType, Stuck
<1>12. CASE ~(lib.owe /\ ~Writable) /\ need = 0 /\ do = "read" /\ in = <<>>
  <2>1. r = Result("want_read", in, end, sock.full, free)
    BY <1>1, <1>2, <1>3, <1>12 DEF Call, Readable
  <2>2. r.is = "want_read" /\ r.sock = [in |-> in, snd |-> end, full |-> sock.full] /\ r.lib = free
    BY <2>1 DEF Result
  <2>3. QED
    BY <2>2, <1>2, <1>3, <1>4, <1>6 DEF SockType, Stuck
<1>13. CASE ~(lib.owe /\ ~Writable) /\ need = 0 /\ do = "read" /\ in # <<>>
  <2>1. Head(in) \in {"data", "ask", "close"}
    BY <1>4, <1>5, <1>13 DEF Shaken, Records, SslType
  <2>2. Shaken(Tail(in), need)
    BY <2>1, <1>4, <1>13, ReadShaken DEF SslType
  <2>3. PICK l \in LibType, is \in {"none", "again", "zero"} :
             r = Result(is, Tail(in), end, sock.full, l) /\ l.need = need
    <3>0. ~(lib.need > 0) /\ end = (IF lib.owe THEN sock.snd + 1 ELSE sock.snd)
      BY <1>1, <1>2, <1>13
    <3>1. CASE Head(in) = "data"
      <4>1. r = Result("none", Tail(in), end, sock.full, free)
        BY <3>0, <3>1, <1>1, <1>3, <1>13 DEF Call, Readable
      <4>2. QED
        BY <4>1, <1>4
    <3>2. CASE Head(in) = "ask"
      <4>1. [free EXCEPT !.owe = TRUE] \in LibType /\ [free EXCEPT !.owe = TRUE].need = need
        BY <1>4 DEF LibType
      <4>2. r = Result("again", Tail(in), end, sock.full, [free EXCEPT !.owe = TRUE])
        BY <3>0, <3>2, <1>1, <1>3, <1>13 DEF Call, Readable
      <4>3. QED
        BY <4>1, <4>2
    <3>3. CASE Head(in) = "close"
      <4>1. r = Result("zero", Tail(in), end, sock.full, free)
        BY <3>0, <3>3, <1>1, <1>3, <1>13 DEF Call, Readable
      <4>2. QED
        BY <4>1, <1>4
    <3>4. QED
      BY <2>1, <3>1, <3>2, <3>3
  <2>6. /\ r.is = is /\ r.sock = [in |-> Tail(in), snd |-> end, full |-> sock.full] /\ r.lib = l
        /\ l.need = need
    BY <2>3 DEF Result
  <2>7. QED
    BY <2>2, <2>6, <1>2, <1>4, <1>5, <1>6, <1>13 DEF SockType, Stuck
<1>14. QED
  BY <1>1, <1>7, <1>8, <1>9, <1>10, <1>11, <1>12, <1>13


LEMMA SslInitInv == SslInit => SslInv
<1> SUFFICES ASSUME SslInit PROVE SslInv
  OBVIOUS
<1>1. sock = [in |-> <<>>, snd |-> 0, full |-> FALSE] /\ <<>> \in Seq(Records) /\ Len(<<>>) = 0
  BY EmptySeq DEF SslInit
<1>2. left = [hs |-> Handshake, rec |-> MaxRecords] /\ Handshake \in Nat /\ MaxRecords \in Nat /\ MaxData \in Nat
  BY TcpSslAssumption DEF SslInit
<1>3. SslType
  <2>1. sock \in SockType /\ told \in BOOLEAN
    BY <1>1 DEF SslInit, SockType
  <2>2. lib \in LibType /\ left \in [hs : Nat, rec : Nat]
    <3>1. lib \in [need : {Handshake}, owe : {FALSE}, sent : BOOLEAN]
      BY DEF SslInit
    <3>2. QED
      BY <3>1, <1>2 DEF LibType
  <2>3. conn \in [write : States, read : States, cw : Nat, waiting : SUBSET {"inp", "out"},
                  first : BOOLEAN, over : BOOLEAN, stop : BOOLEAN]
    <3>1. conn \in [write : {"ok"}, read : {"ok"}, cw : 0 .. MaxData, waiting : {{"inp"}},
                    first : {TRUE}, over : {FALSE}, stop : {FALSE}]
      BY DEF SslInit
    <3>2. "ok" \in States /\ {"inp"} \in SUBSET {"inp", "out"} /\ 0 .. MaxData \subseteq Nat
      BY <1>2 DEF States
    <3>3. QED
      BY <3>1, <3>2
  <2>4. QED
    BY <2>1, <2>2, <2>3 DEF SslType
<1>4. Shaken(sock.in, lib.need)
  <2>1. lib.need = Handshake
    BY DEF SslInit
  <2>2. QED
    BY <2>1, <1>1, <1>2 DEF Shaken
<1>5. conn.write = "ok" /\ conn.first = TRUE
  BY DEF SslInit
<1>6. QED
  BY <1>3, <1>4, <1>5 DEF SslInv, WritesDue

\* A step that leaves the socket and the library alone.
LEMMA ShakenSame ==
    ASSUME Shaken(sock.in, lib.need), sock'.in = sock.in, lib'.need = lib.need, left'.hs = left.hs
    PROVE  Shaken(sock.in, lib.need)'
BY DEF Shaken

LEMMA PeerKeeps == ASSUME SslInv, Peer PROVE SslInv'
<1>1. PICK in \in Seq(Records), hs \in Nat, snd \in Nat : in = sock.in /\ hs = left.hs /\ snd = sock.snd
  BY DEF SslInv, SslType, SockType
<1>2. PICK need : need = lib.need /\ Shaken(in, need)
  BY <1>1 DEF SslInv
<1>3. CASE HandshakeArrives
  <2>1. PICK new \in Seq(Records) : new = Append(in, "hs")
    <3>1. "hs" \in Records
      BY DEF Records
    <3>2. QED
      BY <3>1, AppendProperties
  <2>2. Len(new) = 1 /\ new[1] = "hs" /\ new # <<>> /\ in = <<>>
    <3>1. in = <<>> /\ Len(in) = 0
      BY <1>1, <1>3, EmptySeq DEF HandshakeArrives, Readable
    <3>2. QED
      BY <3>1, <2>1
  <2>3. left' = [left EXCEPT !.hs = hs - 1] /\ hs - 1 \in Nat
    BY <1>1, <1>3 DEF HandshakeArrives
  <2>4. sock' = [sock EXCEPT !.in = new] /\ told' = TRUE /\ UNCHANGED <<lib, conn, at, mask>>
    BY <1>1, <1>3, <2>1 DEF HandshakeArrives, Receive
  <2>5. SslType'
    BY <2>3, <2>4 DEF SslInv, SslType, SockType
  <2>6. Shaken(sock.in, lib.need)'
    <3>1. need = hs
      BY <1>1, <1>2, <2>2 DEF Shaken
    <3>2. sock'.in = new /\ left'.hs = hs - 1 /\ lib'.need = need
      BY <1>2, <2>3, <2>4 DEF SslInv, SslType, SockType
    <3>3. QED
      BY <3>1, <3>2, <2>2 DEF Shaken
  <2>7. QED
    BY <2>4, <2>5, <2>6 DEF SslInv, WritesDue, WillWrite
<1>4. ASSUME NEW r \in {"data", "ask", "close"}, RecordArrives(r) PROVE SslInv'
  <2>1. PICK new \in Seq(Records) : new = Append(in, r)
    <3>1. r \in Records
      BY DEF Records
    <3>2. QED
      BY <3>1, AppendProperties
  <2>2. PICK n \in Nat : n = Len(in)
    BY <1>1, LenProperties
  <2>3. Len(new) = n + 1 /\ new[n + 1] = r /\ \A i \in 1 .. n : new[i] = in[i]
    BY <1>1, <2>1, <2>2
  <2>4. /\ hs = 0 /\ left'.hs = 0 /\ left' \in [hs : Nat, rec : Nat]
    <3>1. PICK rec \in Nat : rec = left.rec
      BY DEF SslInv, SslType
    <3>2. PICK rest \in Nat : rest = IF r = "close" THEN 0 ELSE rec - 1
      BY <1>4, <3>1 DEF RecordArrives
    <3>3. left' = [left EXCEPT !.rec = rest] /\ hs = 0
      BY <1>1, <1>4, <3>1, <3>2 DEF RecordArrives
    <3>4. QED
      BY <1>1, <3>3 DEF SslInv, SslType
  <2>5. sock' = [sock EXCEPT !.in = new] /\ told' = TRUE /\ UNCHANGED <<lib, conn, at, mask>>
    BY <1>1, <1>4, <2>1 DEF RecordArrives, Receive
  <2>6. SslType'
    BY <2>4, <2>5 DEF SslInv, SslType, SockType
  <2>7. Shaken(sock.in, lib.need)'
    <3>1. sock'.in = new /\ lib'.need = need /\ new # <<>>
      BY <1>2, <2>2, <2>3, <2>5, EmptySeq DEF SslInv, SslType, SockType
    <3>2. \A i \in 2 .. Len(new) : new[i] # "hs"
      BY <1>2, <2>2, <2>3 DEF Shaken
    <3>3. (in # <<>> /\ in[1] = "hs") <=> new[1] = "hs"
      <4>1. CASE in = <<>>
        BY <4>1, <2>2, <2>3, EmptySeq
      <4>2. CASE in # <<>>
        <5>1. 1 \in 1 .. n
          BY <4>2, <1>1, <2>2, FirstRead
        <5>2. QED
          BY <5>1, <4>2, <2>3
      <4>3. QED
        BY <4>1, <4>2
    <3>4. need = 0 + (IF new # <<>> /\ new[1] = "hs" THEN 1 ELSE 0)
      BY <1>1, <1>2, <2>4, <3>1, <3>3 DEF Shaken
    <3>5. QED
      BY <3>1, <3>2, <3>4, <2>4 DEF Shaken
  <2>8. QED
    BY <2>5, <2>6, <2>7 DEF SslInv, WritesDue, WillWrite
<1>5. CASE Acknowledged
  <2>1. /\ sock' = [sock EXCEPT !.snd = snd - 1, !.full = FALSE] /\ snd - 1 \in Nat
        /\ told' = (told \/ sock.full) /\ UNCHANGED <<lib, conn, at, mask, left>>
    BY <1>1, <1>5 DEF Acknowledged
  <2>2. SslType'
    BY <2>1 DEF SslInv, SslType, SockType
  <2>3. Shaken(sock.in, lib.need)'
    BY <2>1, ShakenSame DEF SslInv, SslType, SockType
  <2>4. Stuck(sock) \/ told => told'
    BY <2>1 DEF Stuck
  <2>5. QED
    BY <2>1, <2>2, <2>3, <2>4 DEF SslInv, WritesDue, WillWrite
<1>6. QED
  BY <1>3, <1>4, <1>5 DEF Peer

LEMMA PollKeeps == ASSUME SslInv, Poll PROVE SslInv'
<1>1. /\ at' = "out" /\ told' = FALSE /\ UNCHANGED <<lib, conn, left>>
      /\ sock' = [sock EXCEPT !.full = @ \/ ~Writable]
      /\ Writable => "out" \in mask'
  BY DEF Poll
<1>2. sock'.in = sock.in /\ sock'.snd = sock.snd /\ sock' \in SockType /\ (~Writable => sock'.full)
  BY <1>1 DEF SslInv, SslType, SockType
<1>3. at = "wait"
  BY DEF Poll
<1>4. SslType' /\ Shaken(sock.in, lib.need)'
  BY <1>1, <1>2, ShakenSame DEF SslInv, SslType
<1>5. ~Writable => Stuck(sock')
  BY <1>2 DEF Writable, Stuck
<1>6. WritesDue'
  BY <1>1, <1>3, <1>5 DEF SslInv, WritesDue, WillWrite
<1>7. QED
  BY <1>4, <1>6 DEF SslInv


\* out(), inp() and the end of an event: nothing that has to be written is left.
LEMMA StepsKeep ==
    ASSUME SslInv, StartOut \/ WriteInOut \/ StartInp \/ ReadInInp \/ EndEvent
    PROVE  SslInv'
<1>1. /\ UNCHANGED <<sock, told, left, mask>> /\ conn'.write = conn.write /\ conn'.cw = conn.cw
      /\ lib' \in LibType /\ lib'.need = lib.need
      /\ SslType'
  <2>1. /\ UNCHANGED <<sock, told, left, mask>>
        /\ lib' \in {lib, [lib EXCEPT !.sent = TRUE]}
        /\ conn' \in {conn, [conn EXCEPT !.waiting = @ \ {"out"}, !.first = FALSE],
                      [conn EXCEPT !.waiting = @ \ {"inp"}]}
    <3>1. CASE StartOut
      BY <3>1, Zenon DEF StartOut
    <3>2. CASE WriteInOut \/ ReadInInp \/ EndEvent
      BY <3>2, Zenon DEF WriteInOut, ReadInInp, EndEvent
    <3>3. CASE StartInp
      BY <3>3, Zenon DEF StartInp
    <3>4. QED
      BY <3>1, <3>2, <3>3
  <2>2. lib' \in LibType /\ lib'.need = lib.need
    BY <2>1 DEF SslInv, SslType, LibType
  <2>3. /\ conn'.write = conn.write /\ conn'.cw = conn.cw
        /\ conn' \in [write : States, read : States, cw : Nat, waiting : SUBSET {"inp", "out"},
                      first : BOOLEAN, over : BOOLEAN, stop : BOOLEAN]
    <3>1. conn \in [write : States, read : States, cw : Nat, waiting : SUBSET {"inp", "out"},
                    first : BOOLEAN, over : BOOLEAN, stop : BOOLEAN]
      BY DEF SslInv, SslType
    <3>2. CASE conn' = conn
      BY <3>1, <3>2
    <3>3. CASE conn' = [conn EXCEPT !.waiting = @ \ {"out"}, !.first = FALSE]
      <4>1. PICK w \in SUBSET {"inp", "out"} : w = conn.waiting \ {"out"}
        BY <3>1
      <4>2. conn' = [conn EXCEPT !.waiting = w, !.first = FALSE]
        BY <3>3, <4>1
      <4>3. QED
        BY <3>1, <4>2
    <3>4. CASE conn' = [conn EXCEPT !.waiting = @ \ {"inp"}]
      <4>1. PICK w \in SUBSET {"inp", "out"} : w = conn.waiting \ {"inp"}
        BY <3>1
      <4>2. conn' = [conn EXCEPT !.waiting = w]
        BY <3>4, <4>1
      <4>3. QED
        BY <3>1, <4>2
    <3>5. QED
      BY <2>1, <3>2, <3>3, <3>4
  <2>4. UNCHANGED <<sock, told, left, mask>>
    BY <2>1
  <2>5. sock' \in SockType /\ told' \in BOOLEAN /\ left' \in [hs : Nat, rec : Nat]
    BY <2>4 DEF SslInv, SslType
  <2>6. QED
    BY <2>2, <2>3, <2>4, <2>5, Zenon DEF SslType
<1>2. Shaken(sock.in, lib.need)'
  BY <1>1, ShakenSame DEF SslInv
<1>3. WritesDue'
  <2>1. CASE StartOut
    <3>1. CASE "out" \in mask
      <4>1. at' \in {"out_read", "out_write"}
        BY <2>1, <3>1 DEF StartOut
      <4>2. QED
        BY <4>1, <1>1 DEF WritesDue, WillWrite, SslInv
    <3>2. CASE "out" \notin mask
      <4>1. at = "out" /\ at' = "inp" /\ conn' = conn
        BY <2>1, <3>2 DEF StartOut
      <4>2. QED
        BY <4>1, <3>2, <1>1 DEF WritesDue, WillWrite, SslInv
    <3>3. QED
      BY <3>1, <3>2
  <2>2. CASE WriteInOut
    <3>1. at = "out_write" /\ conn' = conn /\ (conn.write # "wants_inp" => at' = "write")
      BY <2>2 DEF WriteInOut
    <3>2. QED
      BY <3>1, <1>1 DEF WritesDue, WillWrite, SslInv
  <2>3. CASE StartInp
    <3>1. at = "inp" /\ conn'.first = conn.first
      BY <2>3 DEF StartInp, SslInv, SslType
    <3>2. QED
      BY <3>1, <1>1 DEF WritesDue, WillWrite, SslInv
  <2>4. CASE ReadInInp \/ EndEvent
    <3>1. at \in {"inp_read", "end"} /\ conn' = conn
      BY <2>4 DEF ReadInInp, EndEvent
    <3>2. QED
      BY <3>1, <1>1 DEF WritesDue, WillWrite, SslInv
  <2>5. QED
    BY <2>1, <2>2, <2>3, <2>4
<1>4. QED
  BY <1>1, <1>2, <1>3 DEF SslInv

LEMMA WriteKeeps == ASSUME SslInv, SslWrite PROVE SslInv'
<1>1. at = "write" /\ UNCHANGED <<told, mask, left>>
  BY DEF SslWrite
<1>2. CASE conn.cw = 0
  <2>1. UNCHANGED <<sock, lib, conn>>
    BY <1>2 DEF SslWrite
  <2>2. SslType' /\ Shaken(sock.in, lib.need)'
    BY <1>1, <2>1, ShakenSame DEF SslInv, SslType
  <2>3. WritesDue'
    BY <1>2, <2>1 DEF SslInv, WritesDue
  <2>4. QED
    BY <2>2, <2>3 DEF SslInv
<1>3. CASE conn.cw # 0
  <2>1. PICK r : r = Call("write")
    OBVIOUS
  <2>2. /\ r.sock \in SockType /\ r.lib \in LibType /\ Shaken(r.sock.in, r.lib.need)
        /\ r.is \in {"again", "none", "want_read", "want_write"}
        /\ r.is = "want_write" => Stuck(r.sock)
    BY <2>1, CallIs DEF SslInv
  <2>3. sock' = r.sock /\ lib' = r.lib
    BY <1>3, <2>1 DEF SslWrite
  <2>4. Shaken(sock.in, lib.need)'
    BY <2>2, <2>3, <1>1 DEF Shaken
  <2>5. conn.cw \in Nat /\ conn.cw > 0 /\ conn.cw - 1 \in Nat
    BY <1>3 DEF SslInv, SslType
  <2>6. CASE r.is = "again"
    <3>1. conn' = conn /\ at' = "write"
      BY <1>3, <2>1, <2>6 DEF SslWrite
    <3>2. QED
      BY <3>1, <1>1, <2>2, <2>3, <2>4, <2>5 DEF SslInv, SslType, WritesDue, WillWrite
  <2>7. CASE r.is = "none"
    <3>1. conn' = [conn EXCEPT !.write = "ok", !.cw = @ - 1] /\ at' = "write"
      BY <1>3, <2>1, <2>7 DEF SslWrite
    <3>2. conn'.write = "ok" /\ SslType'
      BY <3>1, <1>1, <2>2, <2>3, <2>5 DEF SslInv, SslType, States
    <3>3. QED
      BY <3>1, <3>2, <2>4 DEF SslInv, WritesDue, WillWrite
  <2>8. CASE r.is = "want_read"
    <3>1. conn' = [conn EXCEPT !.write = "wants_inp", !.waiting = @ \cup {"inp"}]
      BY <1>3, <2>1, <2>8 DEF SslWrite
    <3>2. conn'.write = "wants_inp" /\ conn'.cw > 0 /\ SslType'
      BY <3>1, <1>1, <2>2, <2>3, <2>5 DEF SslInv, SslType, States
    <3>3. QED
      BY <3>2, <2>4 DEF SslInv, WritesDue
  <2>9. CASE r.is = "want_write"
    <3>1. conn' = [conn EXCEPT !.write = "wants_out", !.waiting = @ \cup {"out"}]
      BY <1>3, <2>1, <2>9 DEF SslWrite
    <3>2. conn'.write = "wants_out" /\ conn'.cw > 0 /\ SslType'
      BY <3>1, <1>1, <2>2, <2>3, <2>5 DEF SslInv, SslType, States
    <3>3. Stuck(sock')
      BY <2>2, <2>3, <2>9
    <3>4. QED
      BY <3>2, <3>3, <2>4 DEF SslInv, WritesDue
  <2>10. QED
    BY <2>2, <2>6, <2>7, <2>8, <2>9
<1>4. QED
  BY <1>2, <1>3

LEMMA ReadKeeps ==
    ASSUME SslInv, NEW k \in 0 .. 1, NEW go \in BOOLEAN, SslRead(k, go) PROVE SslInv'
<1>1. at \in {"read", "out_read"} /\ UNCHANGED <<told, mask, left>>
  BY DEF SslRead
<1>2. PICK r : r = Call("read")
  OBVIOUS
<1>3. /\ r.sock \in SockType /\ r.lib \in LibType /\ Shaken(r.sock.in, r.lib.need)
      /\ r.is \in {"again", "none", "want_read", "want_write", "zero"}
      /\ Stuck(sock) => Stuck(r.sock)
  BY <1>2, CallIs DEF SslInv
<1>4. sock' = r.sock /\ lib' = r.lib
  BY <1>2 DEF SslRead
<1>5. Shaken(sock.in, lib.need)'
  BY <1>1, <1>3, <1>4 DEF Shaken
<1>6. conn.cw \in Nat /\ MaxData \in Nat
  BY TcpSslAssumption DEF SslInv, SslType
<1>7. CASE r.is = "again"
  <2>1. conn' = conn /\ at' = at
    BY <1>2, <1>7 DEF SslRead
  <2>2. QED
    BY <2>1, <1>1, <1>3, <1>4, <1>5 DEF SslInv, SslType, WritesDue, WillWrite
<1>8. CASE r.is = "none"
  <2>1. PICK cw \in Nat : cw = (IF conn.cw + k <= MaxData THEN conn.cw + k ELSE conn.cw) /\ cw >= conn.cw
    BY <1>6
  <2>2. conn' = [conn EXCEPT !.read = "ok", !.stop = @ \/ ~go, !.cw = cw]
    BY <1>2, <1>8, <2>1 DEF SslRead
  <2>3. /\ SslType' /\ conn'.write = conn.write /\ conn'.cw = cw /\ conn'.first = conn.first
    BY <2>1, <2>2, <1>1, <1>3, <1>4 DEF SslInv, SslType, States
  <2>4. /\ conn.write = "ok" => at' = "write"
        /\ at = "out_read" => WillWrite'
    BY <1>2, <1>1, <1>8 DEF SslRead, Flushes, WillWrite
  <2>5. conn'.write # "ok" => conn'.cw > 0
    BY <2>1, <2>3, <1>6 DEF SslInv, WritesDue
  <2>6. conn'.write = "wants_out" => Stuck(sock') \/ told' \/ WillWrite'
    BY <2>3, <2>4, <1>1, <1>3, <1>4 DEF SslInv, WritesDue, WillWrite
  <2>7. QED
    BY <2>3, <2>4, <2>5, <2>6, <1>5 DEF SslInv, WritesDue, WillWrite
<1>9. CASE r.is \in {"want_read", "want_write", "zero"}
  <2>1. \/ conn' = [conn EXCEPT !.read = "wants_inp", !.waiting = @ \cup {"inp"}]
        \/ conn' = [conn EXCEPT !.read = "wants_out", !.waiting = @ \cup {"out"}]
        \/ conn' = [conn EXCEPT !.over = TRUE]
    BY <1>2, <1>9 DEF SslRead
  <2>2. /\ SslType'
        /\ conn'.write = conn.write /\ conn'.cw = conn.cw /\ conn'.first = conn.first
    <3>1. /\ conn' \in [write : States, read : States, cw : Nat, waiting : SUBSET {"inp", "out"},
                         first : BOOLEAN, over : BOOLEAN, stop : BOOLEAN]
          /\ conn'.write = conn.write /\ conn'.cw = conn.cw /\ conn'.first = conn.first
      <4>1. CASE conn' = [conn EXCEPT !.read = "wants_inp", !.waiting = @ \cup {"inp"}]
        BY <4>1 DEF SslInv, SslType, States
      <4>2. CASE conn' = [conn EXCEPT !.read = "wants_out", !.waiting = @ \cup {"out"}]
        BY <4>2 DEF SslInv, SslType, States
      <4>3. CASE conn' = [conn EXCEPT !.over = TRUE]
        BY <4>3 DEF SslInv, SslType, States
      <4>4. QED
        BY <2>1, <4>1, <4>2, <4>3
    <3>2. QED
      BY <3>1, <1>1, <1>3, <1>4 DEF SslInv, SslType
  <2>3. at = "out_read" => at' = "out_write"
    BY <1>2, <1>9 DEF SslRead
  <2>4. QED
    BY <2>2, <2>3, <1>1, <1>3, <1>4, <1>5 DEF SslInv, WritesDue, WillWrite
<1>10. QED
  BY <1>3, <1>7, <1>8, <1>9

\* When a TLS connection sleeps in epoll with data to send, and nothing has been
\* reported since, its write waits for something to read, or for room that there
\* is not: no order of records, acknowledgements and calls of the library leaves
\* data that could be sent without an event to come (TcpSslConnection.cpp:87-207).
THEOREM OutputHasItsReason == SslSpec => []OutputHasReason
<1>1. SslInit => SslInv
  BY SslInitInv
<1>2. SslInv /\ [SslNext]_sslvars => SslInv'
  <2>1. SUFFICES ASSUME SslInv, [SslNext]_sslvars PROVE SslInv'
    OBVIOUS
  <2>2. CASE UNCHANGED sslvars
    <3>1. SslType' /\ Shaken(sock.in, lib.need)'
      BY <2>1, <2>2, ShakenSame DEF sslvars, SslInv, SslType
    <3>2. WritesDue'
      BY <2>1, <2>2 DEF sslvars, SslInv, WritesDue, WillWrite
    <3>3. QED
      BY <3>1, <3>2 DEF SslInv
  <2>3. QED
    BY <2>1, <2>2, PeerKeeps, PollKeeps, StepsKeep, WriteKeeps, ReadKeeps DEF SslNext, Thread
<1>3. SslInv => OutputHasReason
  BY DEF SslInv, SslType, States, WritesDue, WillWrite, Stuck, Writable, OutputHasReason
<1>4. QED
  BY <1>1, <1>2, <1>3, PTL DEF SslSpec
=============================================================================
