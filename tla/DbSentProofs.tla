---------------------------- MODULE DbSentProofs ----------------------------
(***************************************************************************)
(* What the devices know of each other, in a group whose devices have all  *)
(* bound the item, as test_ot has them: what a device takes as sent is     *)
(* held by its destination or on its way, so that no message is refused;   *)
(* a message that is read leaves nothing of the sender unknown to its      *)
(* receiver; the marks the merge relies on are right; and a Db that has    *)
(* nothing more to send has been heard by all.                             *)
(*                                                                         *)
(* A message that is dropped breaks the first of these, and the others     *)
(* with it: the run "lost" shows it, and the hypothesis InitBound = Dev    *)
(* says that there is none.                                                *)
(***************************************************************************)
EXTENDS DbProofs, MCDb

(* How many patches of device g the clock v of device d counts, and how    *)
(* many d holds.                                                           *)
Count(v, g, d) == v[Stored(g, d)]
Has(d, g) == Count(vector_clock[d], g, d)

(* What the clock v of d counts, e holds.                                  *)
Below(v, d, e) == \A g \in Dev : Count(v, g, d) <= Has(e, g)

InMsg(g, n) == \E q \in msg : q.dev = Stored(g, src) /\ q.num = n

Running == pc # "idle"
Receiving == pc \in {"deliver", "read"}
Merging == pc \in {"undo", "merge"}

(* send_changes: what is left to serve is the end of the connections, and  *)
(* what was pending is frozen before anything is sent.                     *)
NbServed == Len(connections[src]) - Len(todo)
Serving ==
    /\ \A d \in Dev : bound[d] /\ \A k \in 1 .. Len(connections[d]) : connections[d][k] # d
    /\ Running =>
          /\ Len(todo) <= Len(connections[src])
          /\ \A k \in 1 .. Len(todo) : todo[k] = connections[src][NbServed + k]
          /\ modified_items[src] > 0
          /\ pc # "send" \/ NbServed > 0 => modifications[src] = <<>>

(* No device holds more patches of another than this one has made; what is *)
(* taken as sent is held, or it is on its way.                             *)
SentIsHeld ==
    /\ \A d, e \in Dev : Has(e, d) <= Has(d, d)
    /\ \A d, e \in Dev :
          d # e => Below(sent[d][e], d, e) \/ (Receiving /\ d = src /\ e = dst)
    /\ Receiving => sent[src][dst] = vector_clock[src]

(* What the sender holds is held by the receiver or in the message; in the *)
(* end the receiver holds it all, and so does every device already served. *)
MessageIsWhole ==
    /\ Receiving =>
          /\ \A p \in msg : p.num <= vector_clock[src][p.dev]
          /\ \A g \in Dev : \A n \in 1 .. Has(src, g) : n <= Has(dst, g) \/ InMsg(g, n)
    /\ pc = "deliver" => Below(base, src, dst)
    /\ Merging => Below(vector_clock[src], src, dst)
    /\ Running => \A k \in 1 .. NbServed :
                     Below(vector_clock[src], src, connections[src][k])

SentInv == ClockInv /\ Serving /\ SentIsHeld /\ MessageIsWhole

-----------------------------------------------------------------------------
(* Names.                                                                  *)

LEMMA StoredType ==
    ASSUME NEW g \in Dev, NEW d \in Dev
    PROVE  Stored(g, d) \in Ids /\ Stored(g, d) # d
BY LocIsNotADevice DEF Stored, Ids

(* Whatever a Db stores, it stores under the name of a device.             *)
LEMMA StoredOf ==
    ASSUME NEW d \in Dev, NEW x \in Ids, x # d
    PROVE  \E g \in Dev : x = Stored(g, d)
BY LocIsNotADevice DEF Stored, Ids

LEMMA StoredInjective ==
    ASSUME NEW d \in Dev, NEW g \in Dev, NEW h \in Dev, Stored(g, d) = Stored(h, d)
    PROVE  g = h
BY LocIsNotADevice DEF Stored

LEMMA ReadStored ==
    ASSUME NEW s \in Dev, NEW c \in Dev, s # c, NEW g \in Dev
    PROVE  ReadDev(Stored(g, s), s, c) = Stored(g, c)
BY LocIsNotADevice DEF Stored, ReadDev, ToGlo

LEMMA HasType ==
    ASSUME TypeOK, NEW d \in Dev, NEW g \in Dev
    PROVE  Has(d, g) \in Nat
BY StoredType DEF TypeOK, Has, Count, Clock

(* The test of app_changes, device by device.                              *)
LEMMA BelowIsLeq ==
    ASSUME NEW s \in Dev, NEW c \in Dev, s # c, NEW v \in Clock, NEW w \in Clock
    PROVE  ClockLeq(ReadClock(v, s, c), w)
           <=> \A g \in Dev : Count(v, g, s) <= Count(w, g, c)
<1>1. ASSUME NEW g \in Dev PROVE ReadClock(v, s, c)[Stored(g, c)] = Count(v, g, s)
  <2>1. PICK j \in Ids : j = Stored(g, c) /\ j # c
    BY StoredType
  <2>2. ReadDev(Stored(g, c), c, s) = Stored(g, s)
    BY ReadStored
  <2>3. ReadClock(v, s, c)[j] = v[ReadDev(j, c, s)]
    BY <2>1 DEF ReadClock
  <2>4. QED
    BY <2>1, <2>2, <2>3 DEF Count
<1>2. ReadClock(v, s, c)[c] = 0 /\ 0 <= w[c]
  BY DEF ReadClock, Ids, Clock
<1>3. ASSUME NEW j \in Ids
      PROVE  j = c \/ \E g \in Dev : j = Stored(g, c)
  BY StoredOf
<1>4. QED
  BY <1>1, <1>2, <1>3, StoredType DEF ClockLeq, Count

-----------------------------------------------------------------------------
(* What the steps do to the clocks.                                        *)

(* Freezing adds a patch of its own to one device.                         *)
LEMMA FreezeHas ==
    ASSUME TypeOK, NEW d \in Dev, Freeze(d)
    PROVE  /\ \A e, g \in Dev : ~ (e = d /\ g = d) => Has(e, g)' = Has(e, g)
           /\ modifications[d] = <<>> => Has(d, d)' = Has(d, d) /\ vector_clock' = vector_clock
           /\ modifications[d] # <<>> => Has(d, d)' = Has(d, d) + 1
           /\ modifications'[d] = <<>>
           /\ \A e \in Dev : e # d => modifications'[e] = modifications[e]
           /\ \A e \in Dev : e # d => vector_clock'[e] = vector_clock[e]
<1>1. /\ vector_clock' = [vector_clock EXCEPT ![d] = FrozenClock(d)]
      /\ modifications' = [modifications EXCEPT ![d] = <<>>]
  BY DEF Freeze
<1>2. vector_clock \in [Dev -> Clock] /\ modifications \in [Dev -> Seq(Op)]
  BY DEF TypeOK
<1>3. ASSUME NEW e \in Dev, NEW g \in Dev, ~ (e = d /\ g = d)
      PROVE  Has(e, g)' = Has(e, g)
  <2>1. CASE e # d
    BY <1>1, <1>2, <2>1 DEF Has, Count
  <2>2. CASE e = d
    <3>1. Stored(g, d) # Loc /\ Stored(g, d) \in Ids
      BY <1>3, <2>2, LocIsNotADevice DEF Stored, Ids
    <3>2. FrozenClock(d)[Stored(g, d)] = vector_clock[d][Stored(g, d)]
      BY <1>2, <3>1 DEF FrozenClock, SelfInc, Clock
    <3>3. QED
      BY <1>1, <1>2, <2>2, <3>2 DEF Has, Count
  <2>3. QED
    BY <2>1, <2>2
<1>4. Stored(d, d) = Loc /\ Loc \in Ids
  BY DEF Stored, Ids
<1>5. CASE modifications[d] = <<>>
  <2>1. vector_clock' = vector_clock
    BY <1>1, <1>2, <1>5 DEF FrozenClock
  <2>2. QED
    BY <1>1, <1>2, <1>3, <1>5, <2>1 DEF Has, Count
<1>6. CASE modifications[d] # <<>>
  <2>1. FrozenClock(d)[Loc] = vector_clock[d][Loc] + 1
    BY <1>2, <1>4, <1>6 DEF FrozenClock, SelfInc, Clock
  <2>2. QED
    BY <1>1, <1>2, <1>3, <1>4, <1>6, <2>1 DEF Has, Count
<1>7. QED
  BY <1>5, <1>6

(* The sender, the receiver and what the sender made are three things.     *)
LEMMA Parties ==
    ASSUME TypeInv, Serving, Running
    PROVE  /\ src \in Dev
           /\ todo # <<>> => /\ dst \in Dev /\ dst # src
                             /\ Tail(todo) \in Seq(Dev) /\ Len(Tail(todo)) = Len(todo) - 1
                             /\ NbServed + 1 \in 1 .. Len(connections[src])
                             /\ dst = connections[src][NbServed + 1]
           /\ NbServed \in Nat
           /\ pc # "send" => todo # <<>>
<1>1. src \in Dev /\ todo \in Seq(Dev) /\ connections[src] \in Seq(Dev) /\ (pc # "send" => todo # <<>>)
  BY DEF TypeInv, TypeOK, Thread, Running
<1>2. /\ Len(todo) \in Nat /\ Len(connections[src]) \in Nat
      /\ Len(todo) <= Len(connections[src])
  BY <1>1, LenProperties DEF Serving
<1>3. ASSUME todo # <<>>
      PROVE  /\ dst \in Dev /\ dst # src
             /\ Tail(todo) \in Seq(Dev) /\ Len(Tail(todo)) = Len(todo) - 1
             /\ NbServed + 1 \in 1 .. Len(connections[src])
             /\ dst = connections[src][NbServed + 1]
  <2>1. dst \in Dev /\ Tail(todo) \in Seq(Dev) /\ Len(Tail(todo)) = Len(todo) - 1 /\ dst = todo[1]
    BY <1>1, <1>3, HeadTailProperties DEF dst
  <2>2. Len(todo) # 0
    BY <1>1, <1>3, EmptySeq
  <2>3. 1 \in 1 .. Len(todo) /\ NbServed + 1 \in 1 .. Len(connections[src])
    BY <1>2, <2>2 DEF NbServed
  <2>4. dst = connections[src][NbServed + 1]
    BY <2>1, <2>3 DEF Serving
  <2>5. QED
    BY <1>1, <2>1, <2>3, <2>4 DEF Serving
<1>4. QED
  BY <1>1, <1>2, <1>3 DEF NbServed

(* A connection is served: one more, and the others are left.              *)
LEMMA NextServed ==
    ASSUME TypeInv, Serving, Running, todo # <<>>, todo' = Tail(todo),
           UNCHANGED <<src, connections>>
    PROVE  /\ NbServed' = NbServed + 1
           /\ Len(todo') <= Len(connections'[src'])
           /\ \A k \in 1 .. Len(todo') : todo'[k] = connections'[src'][NbServed' + k]
           /\ \A k \in 1 .. NbServed' : k \in 1 .. NbServed \/ connections'[src'][k] = dst
<1>1. /\ src \in Dev /\ todo \in Seq(Dev) /\ connections[src] \in Seq(Dev)
      /\ Len(todo) \in Nat /\ Len(connections[src]) \in Nat
      /\ Len(Tail(todo)) = Len(todo) - 1 /\ NbServed \in Nat
      /\ NbServed + 1 \in 1 .. Len(connections[src]) /\ dst = connections[src][NbServed + 1]
  BY Parties, LenProperties DEF TypeInv, TypeOK
<1>2. NbServed' = NbServed + 1
  BY <1>1 DEF NbServed
<1>3. ASSUME NEW k \in 1 .. Len(Tail(todo))
      PROVE  Tail(todo)[k] = connections[src][NbServed + 1 + k]
  <2>1. k + 1 \in 1 .. Len(todo) /\ k \in Nat
    BY <1>1, <1>3
  <2>2. Tail(todo)[k] = todo[k + 1]
    BY <1>1, <1>3, HeadTailProperties
  <2>3. todo[k + 1] = connections[src][NbServed + (k + 1)]
    BY <2>1 DEF Serving
  <2>4. NbServed + (k + 1) = NbServed + 1 + k
    BY <1>1, <2>1
  <2>5. QED
    BY <2>2, <2>3, <2>4
<1>4. \A k \in 1 .. NbServed + 1 : k \in 1 .. NbServed \/ k = NbServed + 1
  BY <1>1
<1>5. QED
  BY <1>1, <1>2, <1>3, <1>4 DEF Serving

-----------------------------------------------------------------------------
(* The connections are served in their order.                              *)

(* No device is connected to itself.                                       *)
Apart(conns) ==
    conns \in [Dev -> Seq(Dev)] /\ \A d \in Dev : d \notin Range(conns[d])

LEMMA InitServing ==
    ASSUME NEW conns, Apart(conns), InitGroup(Dev, conns) PROVE Serving
<1>1. ASSUME NEW d \in Dev
      PROVE  /\ bound[d]
             /\ \A k \in 1 .. Len(connections[d]) : connections[d][k] # d
  <2>1. connections[d] \in Seq(Dev) /\ d \notin Range(connections[d]) /\ bound[d]
    BY DEF InitGroup, Apart
  <2>2. DOMAIN connections[d] = 1 .. Len(connections[d])
    BY <2>1, LenProperties
  <2>3. QED
    BY <2>1, <2>2 DEF Range
<1>2. QED
  BY <1>1 DEF InitGroup, Serving, Running

(* A step that changes neither the thread nor the connections.             *)
LEMMA ServingUnchanged ==
    ASSUME Serving, UNCHANGED <<bound, connections, src, todo>>, modified_items'[src] = modified_items[src],
           \/ ~ Running'
           \/ /\ Running
              /\ pc = "send" => pc' = "send" \/ modifications'[src] = <<>>
              /\ modifications[src] = <<>> => modifications'[src] = <<>>
    PROVE  Serving'
BY DEF Serving, Running, NbServed

LEMMA ConnectServing ==
    ASSUME TypeInv, Serving, NEW d \in Dev, NEW e \in Dev, Connect(d, e)
    PROVE  Serving'
<1>1. /\ connections \in [Dev -> Seq(Dev)]
      /\ connections' = [connections EXCEPT ![d] = Append(@, e)] /\ d # e
      /\ bound' = bound /\ pc' = "idle"
  BY DEF Connect, TypeInv, TypeOK
<1>2. ASSUME NEW f \in Dev, NEW k \in 1 .. Len(connections'[f])
      PROVE  connections'[f][k] # f
  <2>1. CASE f # d
    BY <1>1, <1>2, <2>1 DEF Serving
  <2>2. CASE f = d
    <3>1. /\ connections'[d] = Append(connections[d], e)
          /\ Len(connections'[d]) = Len(connections[d]) + 1
          /\ connections'[d][Len(connections[d]) + 1] = e
          /\ \A i \in 1 .. Len(connections[d]) : connections'[d][i] = connections[d][i]
      BY <1>1, AppendProperties
    <3>2. Len(connections[d]) \in Nat
      BY <1>1, LenProperties
    <3>3. k \in 1 .. Len(connections[d]) \/ k = Len(connections[d]) + 1
      BY <1>2, <2>2, <3>1, <3>2
    <3>4. QED
      BY <1>1, <2>2, <3>1, <3>3 DEF Serving
  <2>3. QED
    BY <2>1, <2>2
<1>3. QED
  BY <1>1, <1>2 DEF Serving, Running

LEMMA SendChangesServing ==
    ASSUME TypeInv, Serving, NEW d \in Dev, SendChanges(d)
    PROVE  Serving' /\ NbServed' = 0
<1>1. /\ connections[d] \in Seq(Dev) /\ Len(connections[d]) \in Nat
      /\ todo' = connections[d] /\ src' = d /\ pc' = "send" /\ modified_items[d] > 0
      /\ UNCHANGED <<bound, connections, modified_items>>
  BY LenProperties DEF SendChanges, TypeInv, TypeOK, dbVars
<1>2. NbServed' = 0
  BY <1>1 DEF NbServed
<1>3. QED
  BY <1>1, <1>2 DEF Serving, Running

LEMMA NextServing == ASSUME TypeInv, Serving, [Next]_vars PROVE Serving'
<1>1. CASE \E d \in Dev : Edit(d)
  <2>1. PICK d \in Dev : Edit(d)
    BY <1>1
  <2>2. UNCHANGED <<bound, connections, src, todo>> /\ pc' = "idle"
    BY <2>1 DEF Edit
  <2>3. QED
    BY <2>2 DEF Serving, Running
<1>2. CASE \E d \in Dev : Bind(d)
  BY <1>2 DEF Bind, Serving
<1>3. CASE \E d \in Dev : SendChanges(d)
  BY <1>3, SendChangesServing
<1>4. CASE \E d, e \in Dev : Connect(d, e)
  BY <1>4, ConnectServing
<1>5. CASE Tick \/ UndoPatch \/ UNCHANGED vars
  BY <1>5, ServingUnchanged DEF Tick, UndoPatch, vars, itemVars, dbVars, msgVars, Running
<1>6. CASE GetChanges
  <2>1. /\ Running /\ pc = "send" /\ todo # <<>> /\ Freeze(src) /\ src \in Dev /\ NbServed \in Nat
        /\ UNCHANGED <<bound, connections, modified_items, src>>
    BY <1>6, Parties DEF GetChanges, Running, dbVars
  <2>2. modifications'[src] = <<>>
    BY <2>1, FreezeHas DEF TypeInv
  <2>3. CASE todo' = Tail(todo) /\ pc' = pc
    BY <2>1, <2>2, <2>3, NextServed DEF Serving, Running
  <2>4. CASE todo' = todo /\ pc' = "deliver"
    BY <2>1, <2>2, <2>4, ServingUnchanged DEF Running
  <2>5. QED
    BY <1>6, <2>3, <2>4 DEF GetChanges
<1>7. CASE EndSend
  BY <1>7 DEF EndSend, Serving, Running
<1>8. CASE DropChanges
  <2>1. dst \in Dev
    BY <1>8, Parties DEF DropChanges, Running
  <2>2. QED
    BY <1>8, <2>1 DEF DropChanges, Serving
<1>9. CASE RejectChanges
  BY <1>9 DEF RejectChanges, Serving, Running, dbVars
<1>10. CASE AcceptChanges
  <2>1. /\ Running /\ pc = "deliver" /\ pc' = "read" /\ Freeze(dst)
        /\ UNCHANGED <<bound, connections, modified_items, src, todo>>
    BY <1>10 DEF AcceptChanges, Running, dbVars
  <2>2. dst \in Dev /\ src \in Dev /\ dst # src
    BY <2>1, Parties
  <2>3. modifications'[src] = modifications[src]
    BY <2>1, <2>2, FreezeHas DEF TypeInv
  <2>4. QED
    BY <2>1, <2>3, ServingUnchanged DEF Running
<1>11. CASE ReadPatch
  BY <1>11, ServingUnchanged DEF ReadPatch, Running, dbVars
<1>12. CASE EndRead \/ MergePatch
  <2>1. /\ Running /\ pc # "send" /\ todo # <<>>
        /\ UNCHANGED <<bound, connections, modified_items, modifications, src>>
    BY <1>12 DEF EndRead, MergePatch, Running, dbVars, itemVars, TypeInv, Thread
  <2>2. CASE todo' = todo /\ pc' # "idle"
    BY <2>1, <2>2, ServingUnchanged DEF Running
  <2>3. CASE todo' = Tail(todo) /\ pc' = "send"
    BY <2>1, <2>3, NextServed DEF Serving, Running
  <2>4. QED
    BY <1>12, <2>2, <2>3 DEF EndRead, MergePatch, Running
<1>13. QED
  BY <1>1, <1>2, <1>3, <1>4, <1>5, <1>6, <1>7, <1>8, <1>9, <1>10, <1>11, <1>12 DEF Next, Run

-----------------------------------------------------------------------------
(* What is sent is held.                                                   *)

(* get_changes leaves out no patch that the destination was not sent.      *)
LEMMA UnsentIsAll ==
    ASSUME NEW log \in Seq(Patch), NEW c \in Clock, NEW known \in Clock, Matches(log, c)
    PROVE  /\ \A p \in Unsent(log, c, known) : p.num <= c[p.dev]
           /\ \A x \in Ids : \A n \in known[x] + 1 .. c[x] :
                 \E q \in Unsent(log, c, known) : q.dev = x /\ q.num = n
<1>1. ASSUME NEW p \in Unsent(log, c, known)
      PROVE  p.num <= c[p.dev]
  BY DEF Unsent, Matches
<1>2. ASSUME NEW x \in Ids, NEW n \in known[x] + 1 .. c[x]
      PROVE  \E q \in Unsent(log, c, known) : q.dev = x /\ q.num = n
  <2>1. known[x] \in Nat /\ c[x] \in Nat
    BY DEF Clock
  <2>2. n \in 1 .. c[x]
    BY <2>1
  <2>3. PICK i \in 1 .. Len(log) : log[i].dev = x /\ log[i].num = n
    BY <2>2 DEF Matches
  <2>4. log[i] \in Unsent(log, c, known)
    BY <2>3 DEF Unsent
  <2>5. QED
    BY <2>3, <2>4
<1>3. QED
  BY <1>1, <1>2

(* A patch that is read is held, whether it was before or not; the reader  *)
(* takes it as sent to the sender.                                         *)
ReadStep(p, g) ==
    /\ Read(p) /\ p \in Patch /\ p.dev = Stored(g, src) /\ p.num \in Nat /\ msg' = msg \ {p}
    /\ src' = src /\ todo' = todo /\ dst' = dst
    /\ \A e, h \in Dev : ~ (e = dst /\ h = g) => Has(e, h)' = Has(e, h)
    /\ \/ p.num <= Has(dst, g) /\ vector_clock' = vector_clock /\ Has(dst, g)' = Has(dst, g)
       \/ p.num = Has(dst, g) + 1 /\ Has(dst, g)' = p.num
    /\ \A e \in Dev : e # dst => vector_clock'[e] = vector_clock[e]
    /\ \A d, e \in Dev : ~ (d = dst /\ e = src) => sent'[d][e] = sent[d][e]
    /\ \A h \in Dev :
          \/ Count(sent'[dst][src], h, dst) = Count(sent[dst][src], h, dst)
          \/ h = g /\ Count(sent'[dst][src], h, dst) = p.num

LEMMA ReadHas ==
    ASSUME ClockInv, Serving, ReadPatch
    PROVE  \E p \in msg, g \in Dev : ReadStep(p, g)
<1>1. /\ pc = "read" /\ Running /\ TypeOK /\ src \in Dev /\ dst \in Dev /\ dst # src
      /\ msg \in SUBSET Patch /\ vector_clock \in [Dev -> Clock] /\ sent \in [Dev -> [Dev -> Clock]]
      /\ src' = src /\ todo' = todo /\ dst' = dst
  BY Parties DEF ReadPatch, Running, ClockInv, TypeInv, TypeOK, dst
<1>2. PICK p \in msg : Read(p)
  BY DEF ReadPatch
<1> DEFINE n == Received(p)
           c == vector_clock[dst]
<1>3. p \in Patch /\ p.dev \in Ids /\ p.dev # src /\ p.num \in Nat
  BY <1>1 DEF Patch, ClockInv, Message
<1>4. PICK g \in Dev : p.dev = Stored(g, src)
  BY <1>1, <1>3, StoredOf
<1>5. n \in Patch /\ n.dev = Stored(g, dst) /\ n.num = p.num
  BY <1>1, <1>3, <1>4, ReceivedType, ReadStored
<1>6. ~ Contains(c, n.dev, n.num) => n.num = c[n.dev] + 1
  BY <1>1, <1>2, ReadIsNext
<1>7. /\ msg' = msg \ {p}
      /\ sent' = [sent EXCEPT ![dst][src] = UpdatePatch(@, n.dev, n.num)]
      /\ \/ Contains(c, n.dev, n.num) /\ vector_clock' = vector_clock
         \/ /\ ~ Contains(c, n.dev, n.num)
            /\ vector_clock' = [vector_clock EXCEPT ![dst] = UpdatePatch(@, n.dev, n.num)]
  BY <1>2 DEF Read
<1> HIDE DEF n
<1>8. n.dev \in Ids /\ c[n.dev] = Has(dst, g) /\ Has(dst, g) \in Nat /\ c \in Clock
  BY <1>1, <1>5, StoredType, HasType DEF Has, Count
<1>9. \A d, e \in Dev : ~ (d = dst /\ e = src) => sent'[d][e] = sent[d][e]
  BY <1>1, <1>7
<1>10. ASSUME NEW h \in Dev
       PROVE  \/ Count(sent'[dst][src], h, dst) = Count(sent[dst][src], h, dst)
              \/ h = g /\ Count(sent'[dst][src], h, dst) = p.num
  <2>1. sent'[dst][src] = UpdatePatch(sent[dst][src], n.dev, n.num) /\ sent[dst][src] \in Clock
    BY <1>1, <1>7
  <2>2. Stored(h, dst) \in Ids /\ (h # g => Stored(h, dst) # Stored(g, dst))
    BY <1>1, StoredType, StoredInjective
  <2>3. QED
    BY <1>5, <2>1, <2>2 DEF UpdatePatch, Count, Clock
<1>11. SUFFICES ReadStep(p, g)
  OBVIOUS
<1>12. CASE Contains(c, n.dev, n.num)
  <2>1. p.num <= Has(dst, g)
    BY <1>5, <1>8, <1>12 DEF Contains
  <2>2. vector_clock' = vector_clock /\ \A e, h \in Dev : Has(e, h)' = Has(e, h)
    BY <1>1, <1>7, <1>12 DEF Has, Count
  <2>3. QED
    BY <1>1, <1>2, <1>3, <1>4, <1>7, <1>9, <1>10, <2>1, <2>2 DEF ReadStep
<1>13. CASE ~ Contains(c, n.dev, n.num)
  <2>1. p.num = Has(dst, g) + 1 /\ p.num > Has(dst, g) /\ ~ (p.num <= Has(dst, g))
    BY <1>5, <1>6, <1>8, <1>13
  <2>2. vector_clock' = [vector_clock EXCEPT ![dst] = [c EXCEPT ![n.dev] = n.num]]
    BY <1>5, <1>7, <1>8, <1>13, <2>1 DEF UpdatePatch
  <2>3. Has(dst, g)' = p.num
    BY <1>1, <1>5, <1>8, <2>2 DEF Has, Count, Clock
  <2>4. ASSUME NEW e \in Dev, NEW h \in Dev, ~ (e = dst /\ h = g)
        PROVE  Has(e, h)' = Has(e, h)
    <3>1. e = dst => Stored(h, dst) # n.dev /\ Stored(h, dst) \in Ids
      BY <1>1, <1>5, <2>4, StoredType, StoredInjective
    <3>2. QED
      BY <1>1, <1>8, <2>2, <3>1 DEF Has, Count, Clock
  <2>5. \A e \in Dev : e # dst => vector_clock'[e] = vector_clock[e]
    BY <1>1, <2>2
  <2>6. QED
    BY <1>1, <1>2, <1>3, <1>4, <1>7, <1>9, <1>10, <2>1, <2>3, <2>4, <2>5 DEF ReadStep
<1>14. QED
  BY <1>12, <1>13

(* The steps that leave the clocks alone.                                  *)
LEMMA ClocksUnchanged ==
    ASSUME UNCHANGED <<vector_clock, sent>>
    PROVE  /\ \A d, g \in Dev : Has(d, g)' = Has(d, g)
           /\ \A d, e \in Dev : Below(sent[d][e], d, e)' <=> Below(sent[d][e], d, e)
           /\ \A d, e \in Dev : Below(vector_clock[d], d, e)' <=> Below(vector_clock[d], d, e)
BY DEF Has, Count, Below

LEMMA IdleHeld ==
    ASSUME SentInv, UNCHANGED <<vector_clock, sent>>, ~ Receiving, ~ Running'
    PROVE  SentIsHeld' /\ MessageIsWhole'
<1>1. ~ Receiving' /\ ~ Merging'
  BY DEF Running, Receiving, Merging
<1>2. QED
  BY <1>1, ClocksUnchanged DEF SentInv, SentIsHeld, MessageIsWhole, Running, Receiving, Merging

LEMMA SameThreadHeld ==
    ASSUME SentInv, UNCHANGED <<vector_clock, sent, connections, src, todo, base, msg>>,
           \/ pc' = pc
           \/ pc \in {"undo", "merge"} /\ pc' \in {"undo", "merge"}
    PROVE  SentIsHeld' /\ MessageIsWhole'
<1>1. /\ Receiving' <=> Receiving
      /\ Merging' <=> Merging
      /\ Running' <=> Running
      /\ pc' = "deliver" <=> pc = "deliver"
      /\ dst' = dst /\ NbServed' = NbServed
  BY DEF Receiving, Merging, Running, dst, NbServed
<1>2. \A g \in Dev : \A n : InMsg(g, n)' <=> InMsg(g, n)
  BY DEF InMsg
<1>3. QED
  BY <1>1, <1>2, ClocksUnchanged DEF SentInv, SentIsHeld, MessageIsWhole, Has, Count, Below

(* A destination that holds all that the sender holds has been served.     *)
LEMMA ServedHeld ==
    ASSUME SentInv, Running, todo # <<>>, todo' = Tail(todo), pc' = "send",
           UNCHANGED <<connections, src, vector_clock, sent>>,
           Below(vector_clock[src], src, dst), Receiving => Below(sent[src][dst], src, dst)
    PROVE  SentIsHeld' /\ MessageIsWhole'
<1>1. ~ Receiving' /\ ~ Merging' /\ Running' /\ pc' # "deliver" /\ src \in Dev
  BY Parties DEF Receiving, Merging, Running, SentInv, ClockInv
<1>2. \A k \in 1 .. NbServed' : k \in 1 .. NbServed \/ connections'[src][k] = dst
  BY NextServed DEF SentInv, ClockInv
<1>3. ASSUME NEW k \in 1 .. NbServed'
      PROVE  Below(vector_clock[src], src, connections[src][k])'
  <2>1. Below(vector_clock[src], src, connections[src][k])
    BY <1>2, <1>3 DEF SentInv, MessageIsWhole
  <2>2. QED
    BY <2>1 DEF Below, Has, Count
<1>4. MessageIsWhole'
  BY <1>1, <1>3 DEF MessageIsWhole
<1>5. SentIsHeld'
  BY <1>1, ClocksUnchanged DEF SentInv, SentIsHeld
<1>6. QED
  BY <1>4, <1>5

(* What is held stays held.                                                *)
LEMMA BelowGrows ==
    ASSUME TypeOK, NEW d \in Dev, NEW e \in Dev, NEW v \in Clock, Below(v, d, e),
           \A g \in Dev : Has(e, g)' \in Nat /\ Has(e, g) <= Has(e, g)'
    PROVE  \A g \in Dev : Count(v, g, d) <= Has(e, g)'
<1> TAKE g \in Dev
<1>1. Count(v, g, d) \in Nat /\ Has(e, g) \in Nat /\ Count(v, g, d) <= Has(e, g)
  BY StoredType, HasType DEF Below, Count, Clock
<1>2. QED
  BY <1>1

(* What freezing adds is held by the device that freezes only.             *)
LEMMA FreezeGrows ==
    ASSUME SentInv, NEW s \in Dev, Freeze(s)
    PROVE  /\ \A d, g \in Dev : Has(d, g)' \in Nat /\ Has(d, g) <= Has(d, g)'
           /\ \A d, e \in Dev : Has(e, d)' <= Has(d, d)'
           /\ \A e, g \in Dev : ~ (e = s /\ g = s) => Has(e, g)' = Has(e, g)
<1>1. TypeOK /\ vector_clock' \in [Dev -> Clock]
  BY FreezeMatches DEF SentInv, ClockInv, TypeInv
<1>2. \A d, g \in Dev : Has(d, g) \in Nat /\ Has(d, g)' \in Nat
  BY <1>1, HasType, StoredType DEF Has, Count, Clock
<1>3. /\ \A e, g \in Dev : ~ (e = s /\ g = s) => Has(e, g)' = Has(e, g)
      /\ Has(s, s) <= Has(s, s)'
  BY <1>1, <1>2, FreezeHas
<1>4. ASSUME NEW d \in Dev, NEW g \in Dev
      PROVE  Has(d, g)' \in Nat /\ Has(d, g) <= Has(d, g)'
  <2>1. Has(d, g) \in Nat /\ Has(d, g)' \in Nat
    BY <1>2
  <2>2. CASE d = s /\ g = s
    BY <1>3, <2>1, <2>2
  <2>3. CASE ~ (d = s /\ g = s)
    BY <1>3, <2>1, <2>3
  <2>4. QED
    BY <2>2, <2>3
<1>5. ASSUME NEW d \in Dev, NEW e \in Dev
      PROVE  Has(e, d)' <= Has(d, d)'
  <2>1. Has(e, d) <= Has(d, d) /\ Has(d, d) <= Has(d, d)'
    BY <1>4 DEF SentInv, SentIsHeld
  <2>2. Has(e, d) \in Nat /\ Has(d, d) \in Nat /\ Has(d, d)' \in Nat
    BY <1>2
  <2>3. CASE e = d
    BY <2>2, <2>3
  <2>4. CASE e # d
    <3>1. Has(e, d)' = Has(e, d)
      BY <1>3, <2>4
    <3>2. QED
      BY <2>1, <2>2, <3>1
  <2>5. QED
    BY <2>3, <2>4
<1>6. QED
  BY <1>3, <1>4, <1>5

(* get_changes: what is not in the message is held by the destination.     *)
LEMMA GetChangesHeld ==
    ASSUME SentInv, GetChanges PROVE SentIsHeld' /\ MessageIsWhole'
<1>1. PICK s \in Dev, t \in Dev :
          /\ s = src /\ t = dst /\ t # s /\ s = src' /\ NbServed \in Nat
          /\ TypeOK /\ pc = "send" /\ Running /\ ~ Receiving /\ ~ Merging /\ todo # <<>>
          /\ connections' = connections /\ Freeze(s)
  BY Parties DEF GetChanges, SentInv, ClockInv, TypeInv, Running, Receiving, Merging, dbVars
<1> DEFINE log == FrozenPatches(s, Date(s))
           known == sent[s][t]
           new == vector_clock'[s]
           out == Unsent(log, new, known)
<1>2. log \in Seq(Patch) /\ Matches(log, new) /\ vector_clock' \in [Dev -> Clock] /\ known \in Clock
  BY <1>1, FreezeMatches DEF SentInv, ClockInv, TypeOK
<1>3. /\ \A p \in out : p.num <= new[p.dev]
      /\ \A x \in Ids : \A n \in known[x] + 1 .. new[x] :
            \E q \in out : q.dev = x /\ q.num = n
  BY <1>1, <1>2, UnsentIsAll
<1>4. /\ base' = known \/ UNCHANGED <<pc, sent, msgVars>>
      /\ \/ out = {} /\ todo' = Tail(todo) /\ UNCHANGED <<pc, sent, msgVars>>
         \/ /\ sent' = [sent EXCEPT ![s][t] = new]
            /\ base' = known /\ msg' = out /\ pc' = "deliver" /\ todo' = todo
  BY <1>1 DEF GetChanges, TypeOK
<1> HIDE DEF out, log
<1>5. \A d, g \in Dev : Has(d, g) \in Nat
  BY <1>1, HasType
<1>6. /\ \A d, g \in Dev : Has(d, g)' \in Nat /\ Has(d, g) <= Has(d, g)'
      /\ \A e, g \in Dev : ~ (e = s /\ g = s) => Has(e, g)' = Has(e, g)
      /\ modifications[s] = <<>> => vector_clock' = vector_clock
  BY <1>1, FreezeGrows, FreezeHas
<1>7. \A d, e \in Dev : Has(e, d)' <= Has(d, d)'
  BY <1>1, FreezeGrows
<1>8. \A g \in Dev : /\ Count(known, g, s) <= Has(t, g) /\ Count(known, g, s) \in Nat
                     /\ Count(new, g, s) \in Nat /\ Has(t, g)' = Has(t, g)
  BY <1>1, <1>2, <1>6, StoredType DEF SentInv, SentIsHeld, Below, Count, Clock
<1>9. ASSUME NEW d \in Dev, NEW e \in Dev, d # e
       PROVE  \A g \in Dev : Count(sent[d][e], g, d) <= Has(e, g)'
  <2>1. Below(sent[d][e], d, e) /\ sent[d][e] \in Clock
    BY <1>1, <1>9 DEF SentInv, SentIsHeld, Receiving, TypeOK
  <2>2. QED
    BY <1>1, <1>6, <2>1, BelowGrows
<1>10. ASSUME NEW k \in 1 .. NbServed
       PROVE  Below(vector_clock[src], src, connections[src][k])'
  <2>1. vector_clock' = vector_clock
    BY <1>1, <1>6, <1>10 DEF SentInv, Serving
  <2>2. Below(vector_clock[src], src, connections[src][k])
    BY <1>1, <1>10 DEF SentInv, MessageIsWhole
  <2>3. QED
    BY <1>1, <2>1, <2>2 DEF Below, Has, Count
<1>11. CASE out = {} /\ todo' = Tail(todo) /\ UNCHANGED <<pc, sent, msgVars>>
  <2>1. ~ Receiving' /\ ~ Merging' /\ pc' = "send"
    BY <1>1, <1>11 DEF Receiving, Merging
  <2>2. ASSUME NEW g \in Dev
        PROVE  Count(new, g, s) <= Has(t, g)'
    <3>1. known[Stored(g, s)] + 1 .. new[Stored(g, s)] = {}
      BY <1>3, <1>11, StoredType
    <3>2. Count(new, g, s) <= Count(known, g, s)
      BY <1>8, <3>1 DEF Count
    <3>3. QED
      BY <1>5, <1>8, <3>2
  <2>3. \A k \in 1 .. NbServed' : k \in 1 .. NbServed \/ connections'[s][k] = t
    BY <1>1, <1>11, NextServed DEF SentInv, ClockInv
  <2>4. \A k \in 1 .. NbServed' : Below(vector_clock[src], src, connections[src][k])'
    <3> TAKE k \in 1 .. NbServed'
    <3>1. CASE k \in 1 .. NbServed
      BY <1>10, <3>1
    <3>2. CASE connections'[s][k] = t
      BY <1>1, <2>2, <3>2 DEF Below, Has
    <3>3. QED
      BY <2>3, <3>1, <3>2
  <2>5. MessageIsWhole'
    BY <2>1, <2>4 DEF MessageIsWhole
  <2>6. SentIsHeld'
    BY <1>7, <1>9, <1>11, <2>1 DEF SentIsHeld, Below
  <2>7. QED
    BY <2>5, <2>6
<1>12. CASE /\ sent' = [sent EXCEPT ![s][t] = new]
            /\ base' = known /\ msg' = out /\ pc' = "deliver" /\ todo' = todo
  <2>1. /\ Receiving' /\ ~ Merging' /\ dst' = t /\ NbServed' = NbServed
    BY <1>1, <1>12 DEF Receiving, Merging, dst, NbServed
  <2>2. /\ sent'[s][t] = new
        /\ \A d, e \in Dev : ~ (d = s /\ e = t) => sent'[d][e] = sent[d][e]
    BY <1>1, <1>12 DEF TypeOK
  <2>3. SentIsHeld'
    BY <1>1, <1>7, <1>9, <2>1, <2>2 DEF SentIsHeld, Below
  <2>4. Below(base, src, dst)'
    BY <1>1, <1>8, <1>12, <2>1 DEF Below
  <2>5. ASSUME NEW g \in Dev, NEW n \in 1 .. Has(s, g)'
        PROVE  n <= Has(t, g)' \/ \E q \in out : q.dev = Stored(g, s) /\ q.num = n
    <3>1. n \in Nat /\ Has(s, g)' = new[Stored(g, s)] /\ n <= new[Stored(g, s)]
      BY <1>5, <2>5 DEF Has, Count
    <3>2. CASE n <= Count(known, g, s)
      BY <1>5, <1>8, <3>1, <3>2
    <3>3. CASE ~ (n <= Count(known, g, s))
      <4>1. Stored(g, s) \in Ids /\ n \in known[Stored(g, s)] + 1 .. new[Stored(g, s)]
        BY <1>8, <2>5, <3>1, <3>3, StoredType DEF Count
      <4>2. QED
        BY <1>3, <4>1
    <3>4. QED
      BY <3>2, <3>3
  <2>6. MessageIsWhole'
    BY <1>1, <1>3, <1>10, <1>12, <2>1, <2>4, <2>5 DEF MessageIsWhole, InMsg
  <2>7. QED
    BY <2>3, <2>6
<1>13. QED
  BY <1>4, <1>11, <1>12

(* app_changes freezes the destination, and changes nothing else.          *)
LEMMA AcceptChangesHeld ==
    ASSUME SentInv, AcceptChanges PROVE SentIsHeld' /\ MessageIsWhole'
<1>1. PICK s \in Dev, t \in Dev :
          /\ s = src /\ t = dst /\ t # s /\ s = src' /\ t = dst' /\ NbServed' = NbServed
          /\ TypeOK /\ pc = "deliver" /\ pc' = "read" /\ Running /\ NbServed \in Nat
          /\ Freeze(t)
          /\ UNCHANGED <<sent, connections, src, todo, msg>>
  BY Parties
  DEF AcceptChanges, SentInv, ClockInv, TypeInv, Running, dbVars, msgVars, dst, NbServed
<1>2. /\ \A d, g \in Dev : Has(d, g)' \in Nat /\ Has(d, g) <= Has(d, g)'
      /\ \A d, e \in Dev : Has(e, d)' <= Has(d, d)'
      /\ vector_clock'[s] = vector_clock[s] /\ vector_clock[s] \in Clock
  BY <1>1, FreezeGrows, FreezeHas DEF TypeOK
<1>3. Receiving /\ Receiving' /\ ~ Merging'
  BY <1>1 DEF Receiving, Merging
<1>4. ASSUME NEW d \in Dev, NEW e \in Dev, d # e
      PROVE  (\A g \in Dev : Count(sent[d][e], g, d) <= Has(e, g)') \/ (d = s /\ e = t)
  <2>1. sent[d][e] \in Clock /\ (Below(sent[d][e], d, e) \/ (d = s /\ e = t))
    BY <1>1, <1>4 DEF TypeOK, SentInv, SentIsHeld
  <2>2. QED
    BY <1>1, <1>2, <2>1, BelowGrows
<1>5. SentIsHeld'
  BY <1>1, <1>2, <1>3, <1>4 DEF SentInv, SentIsHeld, Below
<1>6. ASSUME NEW k \in 1 .. NbServed
      PROVE  \A g \in Dev : Count(vector_clock[s], g, s) <= Has(connections[s][k], g)'
  <2>1. k \in 1 .. Len(connections[s]) /\ connections[s] \in Seq(Dev)
    <3>1. Len(todo) \in Nat /\ Len(connections[s]) \in Nat /\ connections[s] \in Seq(Dev)
      BY <1>1, LenProperties DEF TypeOK
    <3>2. QED
      BY <1>1, <1>6, <3>1 DEF NbServed
  <2>2. connections[s][k] \in Dev
    BY <2>1, ElementOfSeq
  <2>3. Below(vector_clock[s], s, connections[s][k])
    BY <1>1, <1>6 DEF SentInv, MessageIsWhole
  <2>4. QED
    BY <1>1, <1>2, <2>2, <2>3, BelowGrows
<1>7. \A k \in 1 .. NbServed' : Below(vector_clock[src], src, connections[src][k])'
  BY <1>1, <1>2, <1>6 DEF Below
<1>8. ASSUME NEW g \in Dev, NEW n \in 1 .. Has(s, g)'
      PROVE  n <= Has(t, g)' \/ InMsg(g, n)'
  <2>1. Has(s, g)' = Has(s, g)
    BY <1>2 DEF Has
  <2>2. n <= Has(t, g) \/ InMsg(g, n)
    BY <1>1, <1>3, <1>8, <2>1 DEF SentInv, MessageIsWhole
  <2>3. Has(t, g) \in Nat /\ n \in Nat /\ Has(t, g)' \in Nat /\ Has(t, g) <= Has(t, g)'
    BY <1>1, <1>2, HasType
  <2>4. InMsg(g, n) => InMsg(g, n)'
    BY <1>1 DEF InMsg
  <2>5. QED
    BY <2>2, <2>3, <2>4
<1>9. MessageIsWhole'
  BY <1>1, <1>2, <1>3, <1>7, <1>8 DEF SentInv, MessageIsWhole
<1>10. QED
  BY <1>5, <1>9

(* Every patch of the message is held by the sender: reading one takes it  *)
(* from what is missing, and never from the sender.                        *)
LEMMA ReadPatchHeld ==
    ASSUME SentInv, ReadPatch PROVE SentIsHeld' /\ MessageIsWhole'
<1>1. PICK s \in Dev, t \in Dev :
          /\ s = src /\ t = dst /\ t # s
          /\ TypeOK /\ pc = "read" /\ pc' = "read" /\ Running /\ NbServed \in Nat
          /\ UNCHANGED <<connections, src, todo>>
  BY Parties DEF ReadPatch, SentInv, ClockInv, TypeInv, Running, dbVars
<1>2. PICK p \in msg, g \in Dev : ReadStep(p, g)
  BY ReadHas DEF SentInv
<1>3. /\ s = src' /\ t = dst' /\ NbServed' = NbServed
      /\ p.num \in Nat /\ p.num <= Has(s, g)
      /\ Receiving /\ Receiving' /\ ~ Merging' /\ pc' # "deliver"
      /\ vector_clock'[s] = vector_clock[s] /\ vector_clock[s] \in Clock
  BY <1>1, <1>2
  DEF ReadStep, NbServed, Receiving, Merging, SentInv, MessageIsWhole, Has, Count, TypeOK
<1>4. \A d, h \in Dev : Has(d, h) \in Nat
  BY <1>1, HasType
<1>5. /\ \A d, h \in Dev : ~ (d = t /\ h = g) => Has(d, h)' = Has(d, h)
      /\ \/ p.num <= Has(t, g) /\ Has(t, g)' = Has(t, g)
         \/ p.num = Has(t, g) + 1 /\ Has(t, g)' = p.num
  BY <1>1, <1>2 DEF ReadStep
<1>6. /\ Has(t, g)' \in Nat /\ Has(t, g) <= Has(t, g)' /\ p.num <= Has(t, g)'
      /\ Has(t, g)' <= Has(g, g)
  <2>1. Has(t, g) \in Nat /\ Has(g, g) \in Nat /\ Has(s, g) \in Nat
    BY <1>4
  <2>2. Has(s, g) <= Has(g, g) /\ Has(t, g) <= Has(g, g)
    BY DEF SentInv, SentIsHeld
  <2>3. QED
    BY <1>3, <1>5, <2>1, <2>2
<1>7. ASSUME NEW d \in Dev, NEW h \in Dev
      PROVE  Has(d, h)' \in Nat /\ Has(d, h) <= Has(d, h)'
  <2>1. Has(d, h) \in Nat
    BY <1>4
  <2>2. CASE d = t /\ h = g
    BY <1>6, <2>2
  <2>3. CASE ~ (d = t /\ h = g)
    BY <1>5, <2>1, <2>3
  <2>4. QED
    BY <2>2, <2>3
<1>8. ASSUME NEW d \in Dev, NEW e \in Dev
      PROVE  Has(e, d)' <= Has(d, d)'
  <2>1. Has(e, d) <= Has(d, d) /\ Has(d, d) <= Has(d, d)' /\ Has(d, d)' \in Nat
    BY <1>7 DEF SentInv, SentIsHeld
  <2>2. Has(e, d) \in Nat /\ Has(d, d) \in Nat /\ Has(e, d)' \in Nat
    BY <1>4, <1>7
  <2>3. CASE e = t /\ d = g
    <3>1. Has(e, d)' <= Has(d, d)
      BY <1>6, <2>3
    <3>2. QED
      BY <2>1, <2>2, <3>1
  <2>4. CASE ~ (e = t /\ d = g)
    <3>1. Has(e, d)' = Has(e, d)
      BY <1>5, <2>4
    <3>2. QED
      BY <2>1, <2>2, <3>1
  <2>5. QED
    BY <2>3, <2>4
<1>9. ASSUME NEW d \in Dev, NEW e \in Dev, d # e
      PROVE  (\A h \in Dev : Count(sent'[d][e], h, d) <= Has(e, h)') \/ (d = s /\ e = t)
  <2>1. sent[d][e] \in Clock /\ (Below(sent[d][e], d, e) \/ (d = s /\ e = t))
    BY <1>1, <1>9 DEF TypeOK, SentInv, SentIsHeld
  <2>2. (\A h \in Dev : Count(sent[d][e], h, d) <= Has(e, h)') \/ (d = s /\ e = t)
    BY <1>1, <1>7, <2>1, BelowGrows
  <2>3. CASE d = t /\ e = s
    <3>1. p.num <= Has(s, g)'
      BY <1>1, <1>3, <1>5
    <3>2. \A h \in Dev : \/ Count(sent'[t][s], h, t) = Count(sent[t][s], h, t)
                         \/ h = g /\ Count(sent'[t][s], h, t) = p.num
      BY <1>1, <1>2 DEF ReadStep
    <3>3. QED
      BY <1>1, <2>2, <2>3, <3>1, <3>2
  <2>4. CASE ~ (d = t /\ e = s)
    <3>1. sent'[d][e] = sent[d][e]
      BY <1>1, <1>2, <2>4 DEF ReadStep
    <3>2. QED
      BY <2>2, <3>1
  <2>5. QED
    BY <2>3, <2>4
<1>10. sent'[s][t] = vector_clock'[s]
  <2>1. sent[s][t] = vector_clock[s]
    BY <1>1, <1>3 DEF SentInv, SentIsHeld
  <2>2. sent'[s][t] = sent[s][t]
    BY <1>1, <1>2 DEF ReadStep
  <2>3. QED
    BY <1>3, <2>1, <2>2
<1>11. SentIsHeld'
  BY <1>1, <1>3, <1>8, <1>9, <1>10 DEF SentIsHeld, Below
<1>12. ASSUME NEW k \in 1 .. NbServed
       PROVE  \A h \in Dev : Count(vector_clock[s], h, s) <= Has(connections[s][k], h)'
  <2>1. k \in 1 .. Len(connections[s]) /\ connections[s] \in Seq(Dev)
    <3>1. Len(todo) \in Nat /\ Len(connections[s]) \in Nat /\ connections[s] \in Seq(Dev)
      BY <1>1, LenProperties DEF TypeOK
    <3>2. QED
      BY <1>1, <1>12, <3>1 DEF NbServed
  <2>2. connections[s][k] \in Dev
    BY <2>1, ElementOfSeq
  <2>3. Below(vector_clock[s], s, connections[s][k])
    BY <1>1, <1>12 DEF SentInv, MessageIsWhole
  <2>4. QED
    BY <1>1, <1>3, <1>7, <2>2, <2>3, BelowGrows
<1>13. \A k \in 1 .. NbServed' : Below(vector_clock[src], src, connections[src][k])'
  BY <1>1, <1>3, <1>12 DEF Below
<1>14. ASSUME NEW h \in Dev, NEW n \in 1 .. Has(s, h)'
       PROVE  n <= Has(t, h)' \/ InMsg(h, n)'
  <2>1. Has(s, h)' = Has(s, h)
    BY <1>3 DEF Has
  <2>2. Has(t, h) \in Nat /\ n \in Nat /\ Has(t, h)' \in Nat /\ Has(t, h) <= Has(t, h)'
    BY <1>4, <1>7, <2>1
  <2>3. CASE n <= Has(t, h)
    BY <2>2, <2>3
  <2>4. CASE InMsg(h, n)
    <3>1. PICK q \in msg : q.dev = Stored(h, s) /\ q.num = n
      BY <1>1, <2>4 DEF InMsg
    <3>2. CASE q = p
      <4>1. h = g
        BY <1>1, <1>2, <3>1, <3>2, StoredInjective DEF ReadStep
      <4>2. QED
        BY <1>6, <3>1, <3>2, <4>1
    <3>3. CASE q # p
      BY <1>1, <1>2, <3>1, <3>3 DEF InMsg, ReadStep
    <3>4. QED
      BY <3>2, <3>3
  <2>5. QED
    BY <1>1, <1>3, <1>14, <2>1, <2>3, <2>4 DEF SentInv, MessageIsWhole
<1>15. \A q \in msg' : q.num <= vector_clock'[s][q.dev]
  BY <1>1, <1>2, <1>3 DEF ReadStep, SentInv, MessageIsWhole
<1>16. MessageIsWhole'
  BY <1>1, <1>3, <1>13, <1>14, <1>15 DEF MessageIsWhole
<1>17. QED
  BY <1>11, <1>16

(* When every patch is read, the receiver holds all that the sender holds. *)
LEMMA EndReadBelow ==
    ASSUME SentInv, EndRead
    PROVE  Below(vector_clock[src], src, dst) /\ Below(sent[src][dst], src, dst)
<1>1. /\ Running /\ Receiving /\ src \in Dev /\ dst \in Dev /\ dst # src /\ todo # <<>>
      /\ TypeOK /\ msg = {} /\ pc = "read" /\ UNCHANGED <<vector_clock, sent, connections, src>>
  BY Parties
  DEF EndRead, Running, Receiving, SentInv, ClockInv, TypeInv, dbVars, itemVars
<1>2. ASSUME NEW g \in Dev
      PROVE  Has(src, g) <= Has(dst, g)
  <2>1. Has(src, g) \in Nat /\ Has(dst, g) \in Nat /\ ~ \E n \in Nat : InMsg(g, n)
    BY <1>1, HasType DEF InMsg
  <2>2. \A n \in 1 .. Has(src, g) : n <= Has(dst, g)
    BY <1>1, <2>1 DEF SentInv, MessageIsWhole
  <2>3. CASE Has(src, g) = 0
    BY <2>1, <2>3
  <2>4. CASE Has(src, g) # 0
    <3>1. Has(src, g) \in 1 .. Has(src, g)
      BY <2>1, <2>4
    <3>2. QED
      BY <2>2, <3>1
  <2>5. QED
    BY <2>3, <2>4
<1>3. Below(vector_clock[src], src, dst)
  BY <1>2 DEF Below, Has
<1>4. QED
  BY <1>1, <1>3 DEF SentInv, SentIsHeld

LEMMA EndReadHeld ==
    ASSUME SentInv, EndRead PROVE SentIsHeld' /\ MessageIsWhole'
<1>1. /\ Running /\ Receiving /\ todo # <<>>
      /\ UNCHANGED <<vector_clock, sent, connections, src>>
  BY Parties
  DEF EndRead, Running, Receiving, SentInv, ClockInv, TypeInv, dbVars, itemVars
<1>2. Below(vector_clock[src], src, dst) /\ Below(sent[src][dst], src, dst)
  BY EndReadBelow
<1>3. CASE pc' = "send" /\ todo' = Tail(todo)
  BY <1>1, <1>2, <1>3, ServedHeld
<1>4. CASE pc' = "undo" /\ todo' = todo
  <2>1. ~ Receiving' /\ Merging' /\ Running' /\ dst' = dst /\ NbServed' = NbServed
    BY <1>1, <1>4 DEF Receiving, Merging, Running, dst, NbServed
  <2>2. \A d, e \in Dev : d # e => Below(sent[d][e], d, e)
    BY <1>2 DEF SentInv, SentIsHeld
  <2>3. SentIsHeld'
    BY <1>1, <2>1, <2>2, ClocksUnchanged DEF SentInv, SentIsHeld
  <2>4. \A k \in 1 .. NbServed : Below(vector_clock[src], src, connections[src][k])
    BY <1>1 DEF SentInv, MessageIsWhole
  <2>5. MessageIsWhole'
    BY <1>1, <1>2, <1>4, <2>1, <2>4 DEF MessageIsWhole, Below, Has, Count
  <2>6. QED
    BY <2>3, <2>5
<1>5. QED
  BY <1>3, <1>4 DEF EndRead

LEMMA MergePatchHeld ==
    ASSUME SentInv, MergePatch PROVE SentIsHeld' /\ MessageIsWhole'
<1>1. /\ Running /\ Merging /\ ~ Receiving /\ todo # <<>> /\ pc = "merge"
      /\ UNCHANGED <<vector_clock, sent, connections, src>>
  BY Parties DEF MergePatch, Running, Receiving, Merging, SentInv, ClockInv, dbVars
<1>2. Below(vector_clock[src], src, dst)
  BY <1>1 DEF SentInv, MessageIsWhole
<1>3. CASE pc' = "send" /\ todo' = Tail(todo)
  BY <1>1, <1>2, <1>3, ServedHeld
<1>4. CASE UNCHANGED <<pc, todo, msgVars>>
  BY <1>1, <1>4, SameThreadHeld DEF msgVars
<1>5. QED
  BY <1>3, <1>4 DEF MergePatch

LEMMA SendChangesHeld ==
    ASSUME SentInv, NEW d \in Dev, SendChanges(d) PROVE SentIsHeld' /\ MessageIsWhole'
<1>1. NbServed' = 0 /\ ~ Receiving /\ ~ Receiving' /\ ~ Merging' /\ pc' # "deliver"
      /\ UNCHANGED <<vector_clock, sent>>
  BY SendChangesServing
  DEF SentInv, ClockInv, SendChanges, Receiving, Merging, itemVars
<1>2. QED
  BY <1>1, ClocksUnchanged DEF SentInv, SentIsHeld, MessageIsWhole

(* What a message is based on is held by its receiver, before it freezes   *)
(* its modifications and after.                                            *)
LEMMA NeverRejected ==
    ASSUME SentInv, pc = "deliver"
    PROVE  BaseKnown(vector_clock[dst]) /\ BaseKnown(FrozenClock(dst))
<1>1. /\ src \in Dev /\ dst \in Dev /\ src # dst /\ TypeOK
      /\ base \in Clock /\ vector_clock[dst] \in Clock
  BY Parties DEF SentInv, ClockInv, TypeInv, TypeOK, Running
<1>2. \A g \in Dev : Count(base, g, src) <= Count(vector_clock[dst], g, dst)
  BY DEF SentInv, MessageIsWhole, Below, Has
<1>3. BaseKnown(vector_clock[dst])
  BY <1>1, <1>2, BelowIsLeq DEF BaseKnown
<1>4. FrozenClock(dst) \in Clock /\ ClockLeq(vector_clock[dst], FrozenClock(dst))
  BY <1>1 DEF FrozenClock, SelfInc, Clock, ClockLeq, Ids
<1>5. ReadClock(base, src, dst) \in Clock
  BY <1>1, ReadClockType
<1>6. BaseKnown(FrozenClock(dst))
  BY <1>1, <1>3, <1>4, <1>5 DEF BaseKnown, ClockLeq, Clock
<1>7. QED
  BY <1>3, <1>6

LEMMA RejectChangesNever == ASSUME SentInv, RejectChanges PROVE FALSE
<1>1. dst \in Dev /\ pc = "deliver" /\ vector_clock \in [Dev -> Clock]
  BY Parties DEF RejectChanges, SentInv, ClockInv, TypeInv, TypeOK, Running
<1>2. vector_clock'[dst] = FrozenClock(dst)
  BY <1>1 DEF RejectChanges, Freeze
<1>3. QED
  BY <1>1, <1>2, NeverRejected DEF RejectChanges

LEMMA NextHeld == ASSUME SentInv, [Next]_vars PROVE SentIsHeld' /\ MessageIsWhole'
<1>1. CASE \E d \in Dev : Edit(d)
  BY <1>1, IdleHeld DEF Edit, Running, Receiving
<1>2. CASE \E d \in Dev : Bind(d)
  BY <1>2 DEF Bind, SentInv, Serving
<1>3. CASE \E d \in Dev : SendChanges(d)
  BY <1>3, SendChangesHeld
<1>4. CASE \E d, e \in Dev : Connect(d, e)
  BY <1>4, IdleHeld DEF Connect, Running, Receiving, itemVars
<1>5. CASE Tick \/ UndoPatch \/ UNCHANGED vars
  BY <1>5, SameThreadHeld DEF Tick, UndoPatch, vars, itemVars, dbVars, msgVars
<1>6. CASE EndSend
  BY <1>6, IdleHeld DEF EndSend, Running, Receiving, itemVars
<1>7. CASE DropChanges
  <2>1. dst \in Dev
    BY <1>7, Parties DEF DropChanges, Running, SentInv, ClockInv
  <2>2. QED
    BY <1>7, <2>1 DEF DropChanges, SentInv, Serving
<1>8. QED
  BY <1>1, <1>2, <1>3, <1>4, <1>5, <1>6, <1>7, GetChangesHeld, RejectChangesNever,
     AcceptChangesHeld, ReadPatchHeld, EndReadHeld, MergePatchHeld DEF Next, Run

LEMMA InitHeld ==
    ASSUME DocClosed, NEW conns, Apart(conns), InitGroup(Dev, conns) PROVE SentInv
<1>1. \A d, g \in Dev : Has(d, g) = 0 /\ \A e \in Dev : Count(sent[d][e], g, d) = 0
  <2>1. \A d \in Dev : vector_clock[d] = ZeroClock /\ \A e \in Dev : sent[d][e] = ZeroClock
    BY DEF InitGroup
  <2>2. QED
    BY <2>1, StoredType DEF Has, Count, ZeroClock
<1>2. ~ Running /\ ~ Receiving /\ ~ Merging
  BY DEF InitGroup, Running, Receiving, Merging
<1>3. SentIsHeld /\ MessageIsWhole
  BY <1>1, <1>2 DEF SentIsHeld, MessageIsWhole, Below, Running, Receiving
<1>4. QED
  BY <1>3, InitClock, InitServing DEF SentInv, Apart

(* SentInv is inductive in a group whose devices have all bound the item.  *)
THEOREM SentInvariant == ASSUME DocClosed, InitBound = Dev PROVE Spec => []SentInv
<1>1. Init => SentInv
  BY InitHeld, GroupAssumption DEF Init, Apart
<1>2. SentInv /\ [Next]_vars => SentInv'
  BY NextType, NextClock, NextServing, NextHeld DEF SentInv, ClockInv
<1>3. QED
  BY <1>1, <1>2, PTL DEF Spec

(* If every device has bound the item, app_changes never reaches its       *)
(* exception "TODO assumed_to_be_known": what a message takes as known is  *)
(* known to its receiver.                                                  *)
THEOREM NoMessageIsRefused ==
    ASSUME DocClosed, InitBound = Dev PROVE Spec => []BaseIsKnown
<1>1. SentInv => BaseIsKnown
  BY NeverRejected DEF BaseIsKnown
<1>2. QED
  BY <1>1, SentInvariant, PTL

(* If every device has bound the item, a connection that send_changes has  *)
(* served leads to a device that holds everything the sender holds, the    *)
(* patches that it passes on included, and it stays so until the end of    *)
(* the loop, whatever the devices served after it answer.                  *)
THEOREM ServedHoldAll ==
    ASSUME DocClosed, InitBound = Dev PROVE Spec => []ServedAreUpToDate
<1>1. ASSUME SentInv, pc = "send", NEW k \in 1 .. Len(connections[src]) - Len(todo)
      PROVE  ClockLeq(ReadClock(vector_clock[src], src, connections[src][k]),
                      vector_clock[connections[src][k]])
  <2>1. /\ src \in Dev /\ TypeOK /\ Running /\ connections[src] \in Seq(Dev)
        /\ Len(connections[src]) \in Nat /\ Len(todo) \in Nat
    BY <1>1, Parties, LenProperties DEF SentInv, ClockInv, TypeInv, TypeOK, Running
  <2>2. k \in 1 .. Len(connections[src]) /\ k \in 1 .. NbServed
    BY <1>1, <2>1 DEF NbServed
  <2>3. connections[src][k] \in Dev /\ connections[src][k] # src
    BY <1>1, <2>1, <2>2, ElementOfSeq DEF SentInv, Serving
  <2>4. Below(vector_clock[src], src, connections[src][k])
    BY <1>1, <2>1, <2>2 DEF SentInv, MessageIsWhole
  <2>5. QED
    BY <2>1, <2>3, <2>4, BelowIsLeq DEF Below, Has, TypeOK
<1>2. SentInv => ServedAreUpToDate
  BY <1>1 DEF ServedAreUpToDate
<1>3. QED
  BY <1>2, SentInvariant, PTL

-----------------------------------------------------------------------------
(* A Db whose modified_items is not empty has something that no other has, *)
(* so that a message always brings a patch its receiver lacks.             *)

(* new_modification is called with operations (OtWrapper.reg).             *)
OpsNotEmpty == \A doc \in Doc : \A r \in LocalOps(doc) : r.data # <<>>

(* d has modifications to freeze, or a patch that nobody else has.         *)
Pending(d) == modifications[d] # <<>> \/ \A e \in Dev \ {d} : Has(e, d) < Has(d, d)

Fresh ==
    /\ \A d \in Dev : modified_items[d] > 0 /\ (Running => d # src) => Pending(d)
    /\ Running /\ modifications[src] = <<>> =>
          \A e \in Dev \ {src} :
              Has(e, src) < Has(src, src) \/ sent[src][e] = vector_clock[src]
    /\ pc = "deliver" => Has(dst, src) < Has(src, src)

FreshInv == SentInv /\ Fresh

LEMMA FreshUnchanged ==
    ASSUME Fresh, UNCHANGED <<vector_clock, sent, modifications, modified_items, src>>,
           Running' <=> Running, pc' = "deliver" => pc = "deliver" /\ todo' = todo
    PROVE  Fresh'
<1>1. \A d, g \in Dev : Has(d, g)' = Has(d, g)
  BY ClocksUnchanged
<1>2. \A d \in Dev : Pending(d) => Pending(d)'
  BY <1>1 DEF Pending
<1>3. pc' = "deliver" => Has(dst, src)' < Has(src, src)'
  BY DEF Fresh, Has, Count, dst
<1>4. Running /\ modifications[src] = <<>> =>
          \A e \in Dev \ {src} :
              Has(e, src)' < Has(src, src)' \/ sent'[src][e] = vector_clock'[src]
  BY DEF Fresh, Has, Count
<1>5. QED
  BY <1>2, <1>3, <1>4 DEF Fresh

LEMMA EditFresh ==
    ASSUME OpsNotEmpty, DocClosed, FreshInv, NEW d \in Dev, Edit(d) PROVE Fresh'
<1>1. /\ TypeOK /\ ~ Running /\ ~ Running' /\ pc' # "deliver"
      /\ UNCHANGED <<vector_clock, sent>>
  BY DEF FreshInv, SentInv, ClockInv, TypeInv, Edit, Running
<1>2. PICK r \in LocalOps(val[d]) :
          modifications' = [modifications EXCEPT ![d] = @ \o r.data]
  BY DEF Edit
<1>3. r.data \in Seq(Op) /\ r.data # <<>> /\ modifications[d] \in Seq(Op)
  BY <1>1 DEF TypeOK, DocClosed, OpsNotEmpty
<1>4. modifications[d] \o r.data # <<>>
  <2>1. /\ Len(modifications[d] \o r.data) = Len(modifications[d]) + Len(r.data)
        /\ Len(modifications[d]) \in Nat /\ Len(r.data) \in Nat /\ Len(r.data) # 0
    BY <1>3, ConcatProperties, LenProperties, EmptySeq
  <2>2. QED
    BY <2>1, EmptySeq
<1>5. ASSUME NEW e \in Dev, modified_items'[e] > 0
      PROVE  Pending(e)'
  <2>1. CASE e = d
    BY <1>1, <1>2, <1>4, <2>1 DEF Pending, TypeOK
  <2>2. CASE e # d
    <3>1. modified_items'[e] = modified_items[e] /\ modifications'[e] = modifications[e]
      BY <1>1, <1>2, <2>2 DEF Edit, TypeOK
    <3>2. Pending(e)
      BY <1>1, <1>5, <3>1 DEF FreshInv, Fresh
    <3>3. QED
      BY <1>1, <3>1, <3>2, ClocksUnchanged DEF Pending
  <2>3. QED
    BY <2>1, <2>2
<1>6. QED
  BY <1>1, <1>5 DEF Fresh

LEMMA SendChangesFresh ==
    ASSUME FreshInv, NEW d \in Dev, SendChanges(d) PROVE Fresh'
<1>1. /\ ~ Running /\ Running' /\ pc' # "deliver" /\ src' = d /\ modified_items[d] > 0
      /\ UNCHANGED <<vector_clock, sent, modifications, modified_items>>
  BY DEF SendChanges, Running, itemVars, dbVars
<1>2. \A e, g \in Dev : Has(e, g)' = Has(e, g)
  BY <1>1, ClocksUnchanged
<1>3. \A e \in Dev : modified_items'[e] > 0 => Pending(e) /\ Pending(e)'
  BY <1>1, <1>2 DEF FreshInv, Fresh, Pending
<1>4. modifications[d] = <<>> => \A e \in Dev \ {d} : Has(e, d)' < Has(d, d)'
  BY <1>1, <1>3 DEF Pending
<1>5. modifications'[src'] = <<>> =>
          \A e \in Dev \ {src'} : Has(e, src)' < Has(src, src)'
  BY <1>1, <1>4 DEF Has, Count
<1>6. QED
  BY <1>1, <1>3, <1>5 DEF Fresh

LEMMA EndSendFresh == ASSUME FreshInv, EndSend PROVE Fresh'
<1>1. /\ Running /\ ~ Running' /\ pc' # "deliver" /\ src \in Dev
      /\ modified_items' = [modified_items EXCEPT ![src] = 0]
      /\ modified_items \in [Dev -> Nat]
      /\ UNCHANGED <<vector_clock, modifications>>
  BY DEF EndSend, Running, itemVars, FreshInv, SentInv, ClockInv, TypeInv, TypeOK, Thread
<1>2. \A d \in Dev : Pending(d) => Pending(d)'
  BY <1>1 DEF Pending, Has, Count
<1>3. QED
  BY <1>1, <1>2 DEF FreshInv, Fresh

(* Freezing keeps what is pending: the new patch is one nobody else has.   *)
LEMMA FreezePending ==
    ASSUME SentInv, NEW s \in Dev, Freeze(s), NEW d \in Dev, Pending(d)
    PROVE  Pending(d)'
<1>1. TypeOK /\ \A e, g \in Dev : Has(e, g) \in Nat
  BY HasType DEF SentInv, ClockInv, TypeInv
<1>2. CASE d # s
  BY <1>1, <1>2, FreezeHas DEF Pending
<1>3. CASE d = s /\ modifications[s] = <<>>
  BY <1>1, <1>3, FreezeHas DEF Pending
<1>4. CASE d = s /\ modifications[s] # <<>>
  <2>1. ASSUME NEW e \in Dev \ {s}
        PROVE  Has(e, s)' < Has(s, s)'
    <3>1. Has(e, s)' = Has(e, s) /\ Has(s, s)' = Has(s, s) + 1
      BY <1>1, <1>4, FreezeHas
    <3>2. Has(e, s) \in Nat /\ Has(s, s) \in Nat /\ Has(e, s) <= Has(s, s)
      BY <1>1 DEF SentInv, SentIsHeld
    <3>3. QED
      BY <3>1, <3>2
  <2>2. QED
    BY <1>4, <2>1 DEF Pending
<1>5. QED
  BY <1>2, <1>3, <1>4

LEMMA GetChangesFresh == ASSUME FreshInv, GetChanges PROVE Fresh'
<1>1. PICK s \in Dev, t \in Dev :
          /\ s = src /\ t = dst /\ t # s /\ s = src'
          /\ SentInv /\ TypeOK /\ pc = "send" /\ Running /\ todo # <<>>
          /\ modified_items' = modified_items /\ Freeze(s)
  BY Parties DEF GetChanges, FreshInv, SentInv, ClockInv, TypeInv, Running, dbVars
<1> DEFINE log == FrozenPatches(s, Date(s))
           known == sent[s][t]
           new == vector_clock'[s]
           out == Unsent(log, new, known)
<1>2. \/ out = {} /\ UNCHANGED <<pc, sent>>
      \/ out # {} /\ sent' = [sent EXCEPT ![s][t] = new] /\ pc' = "deliver" /\ todo' = todo
  BY <1>1 DEF GetChanges, TypeOK
<1>3. out # {} => new # known
  <2>1. log \in Seq(Patch) /\ new \in Clock
    BY <1>1, FreezeMatches DEF SentInv
  <2>2. ASSUME new = known, NEW q \in out PROVE FALSE
    <3>1. PICK i \in 1 .. Len(log) : log[i].num \in known[log[i].dev] + 1 .. new[log[i].dev]
      BY <2>2 DEF Unsent
    <3> HIDE DEF log, new, known
    <3>2. log[i] \in Patch
      BY <2>1, <3>1, ElementOfSeq
    <3>3. log[i].dev \in Ids
      BY <3>2 DEF Patch
    <3>4. new[log[i].dev] \in Nat
      BY <2>1, <3>3 DEF Clock
    <3>5. QED
      BY <2>2, <3>1, <3>4
  <2>3. QED
    BY <2>2
<1> HIDE DEF out, log
<1>4. \A d \in Dev : modified_items'[d] > 0 /\ (Running' => d # src') => Pending(d)'
  <2>1. Running'
    BY <1>1, <1>2 DEF Running
  <2>2. QED
    BY <1>1, <2>1, FreezePending DEF FreshInv, Fresh
<1>5. ASSUME NEW e \in Dev \ {s}
      PROVE  Has(e, s)' < Has(s, s)' \/ sent[s][e] = new
  <2>1. CASE modifications[s] = <<>>
    BY <1>1, <2>1, FreezeHas DEF FreshInv, Fresh
  <2>2. CASE modifications[s] # <<>>
    <3>1. Has(e, s)' = Has(e, s) /\ Has(s, s)' = Has(s, s) + 1
      BY <1>1, <2>2, FreezeHas
    <3>2. Has(e, s) \in Nat /\ Has(s, s) \in Nat /\ Has(e, s) <= Has(s, s)
      BY <1>1, HasType DEF SentInv, SentIsHeld
    <3>3. QED
      BY <3>1, <3>2
  <2>3. QED
    BY <2>1, <2>2
<1>6. \A e \in Dev \ {s} : sent'[s][e] = sent[s][e] \/ sent'[s][e] = new
  <2>1. sent \in [Dev -> [Dev -> Clock]]
    BY <1>1 DEF TypeOK
  <2> HIDE DEF new
  <2>2. CASE sent' = sent
    BY <2>2
  <2>3. CASE sent' = [sent EXCEPT ![s][t] = new]
    BY <1>1, <2>1, <2>3
  <2>4. QED
    BY <1>2, <2>2, <2>3
<1>7. \A e \in Dev \ {s} : Has(e, s)' < Has(s, s)' \/ sent'[s][e] = vector_clock'[s]
  BY <1>5, <1>6
<1>8. pc' = "deliver" => dst' = t /\ Has(t, s)' < Has(s, s)'
  BY <1>1, <1>2, <1>3, <1>5 DEF dst
<1>9. pc' = "deliver" => Has(dst, src)' < Has(src, src)'
  BY <1>1, <1>8 DEF Has, Count
<1>10. \A e \in Dev \ {src'} : Has(e, src)' < Has(src, src)' \/ sent'[src'][e] = vector_clock'[src']
  BY <1>1, <1>7 DEF Has, Count
<1>11. QED
  BY <1>4, <1>9, <1>10 DEF Fresh

LEMMA AcceptChangesFresh == ASSUME FreshInv, AcceptChanges PROVE Fresh'
<1>1. PICK s \in Dev, t \in Dev :
          /\ s = src /\ t = dst /\ t # s /\ s = src'
          /\ SentInv /\ TypeOK /\ pc' = "read" /\ Running /\ Running'
          /\ UNCHANGED <<modified_items, sent>> /\ Freeze(t)
  BY Parties DEF AcceptChanges, FreshInv, SentInv, ClockInv, TypeInv, Running, dbVars
<1>2. \A d \in Dev : modified_items'[d] > 0 /\ (Running' => d # src') => Pending(d)'
  BY <1>1, FreezePending DEF FreshInv, Fresh
<1>3. /\ modifications'[s] = modifications[s] /\ vector_clock'[s] = vector_clock[s]
      /\ \A e \in Dev : Has(e, s)' = Has(e, s)
  BY <1>1, FreezeHas
<1>4. modifications'[s] = <<>> =>
          \A e \in Dev \ {s} : Has(e, s)' < Has(s, s)' \/ sent'[s][e] = vector_clock'[s]
  BY <1>1, <1>3 DEF FreshInv, Fresh
<1>5. modifications'[src'] = <<>> =>
          \A e \in Dev \ {src'} :
              Has(e, src)' < Has(src, src)' \/ sent'[src'][e] = vector_clock'[src']
  BY <1>1, <1>4 DEF Has, Count
<1>6. QED
  BY <1>1, <1>2, <1>5 DEF Fresh

(* What is read was made by its device, which is not the one that has      *)
(* something nobody else has; the sender has no secret left.               *)
LEMMA ReadPatchFresh == ASSUME FreshInv, ReadPatch PROVE Fresh'
<1>1. PICK s \in Dev, t \in Dev :
          /\ s = src /\ t = dst /\ t # s /\ s = src'
          /\ SentInv /\ TypeOK /\ pc = "read" /\ pc' = "read" /\ Running /\ Running' /\ Receiving
          /\ UNCHANGED <<modified_items, modifications>>
  BY Parties
  DEF ReadPatch, FreshInv, SentInv, ClockInv, TypeInv, Running, Receiving, dbVars
<1>2. PICK p \in msg, g \in Dev : ReadStep(p, g)
  BY <1>1, ReadHas DEF SentInv
<1>3. /\ \A e, h \in Dev : ~ (e = t /\ h = g) => Has(e, h)' = Has(e, h)
      /\ \/ Has(t, g)' = Has(t, g)
         \/ Has(t, g)' = p.num /\ p.num = Has(t, g) + 1
      /\ p.num <= Has(s, g)
      /\ vector_clock'[s] = vector_clock[s]
      /\ \A e \in Dev \ {s} : sent'[s][e] = sent[s][e]
  BY <1>1, <1>2 DEF ReadStep, SentInv, MessageIsWhole, Has, Count
<1>4. \A e, h \in Dev : Has(e, h) \in Nat /\ Has(e, h) <= Has(h, h)
  BY <1>1, HasType DEF SentInv, SentIsHeld
<1>5. \A h \in Dev : Has(h, h)' = Has(h, h)
  <2>1. Has(t, t) \in Nat /\ Has(s, t) \in Nat /\ Has(s, t) <= Has(t, t)
    BY <1>4
  <2>2. g = t => Has(t, t)' = Has(t, t)
    BY <1>3, <2>1
  <2>3. QED
    BY <1>3, <2>2
<1>6. ASSUME NEW d \in Dev, d # s, Pending(d)
      PROVE  Pending(d)'
  <2>1. CASE modifications[d] # <<>>
    BY <1>1, <2>1 DEF Pending
  <2>2. CASE \A e \in Dev \ {d} : Has(e, d) < Has(d, d)
    <3>1. ASSUME NEW e \in Dev \ {d}
          PROVE  Has(e, d)' < Has(d, d)'
      <4>1. Has(e, d) < Has(d, d) /\ Has(s, d) < Has(d, d) /\ Has(d, d)' = Has(d, d)
        BY <1>5, <1>6, <2>2
      <4>2. Has(e, d) \in Nat /\ Has(s, d) \in Nat /\ Has(d, d) \in Nat
        BY <1>4
      <4>3. Has(e, d)' = Has(e, d) \/ (Has(e, d)' = Has(e, d) + 1 /\ Has(e, d)' <= Has(s, d))
        BY <1>3
      <4>4. QED
        BY <4>1, <4>2, <4>3
    <3>2. QED
      BY <3>1 DEF Pending
  <2>3. QED
    BY <1>6, <2>1, <2>2 DEF Pending
<1>7. \A d \in Dev : modified_items'[d] > 0 /\ (Running' => d # src') => Pending(d)'
  BY <1>1, <1>6 DEF FreshInv, Fresh
<1>8. ASSUME modifications[s] = <<>>, NEW e \in Dev \ {s}
      PROVE  Has(e, s)' < Has(s, s)' \/ sent'[s][e] = vector_clock'[s]
  <2>1. CASE e = t
    BY <1>1, <1>3, <2>1 DEF SentInv, SentIsHeld
  <2>2. CASE e # t
    BY <1>1, <1>3, <1>5, <1>8, <2>2 DEF FreshInv, Fresh
  <2>3. QED
    BY <2>1, <2>2
<1>9. modifications'[src'] = <<>> =>
          \A e \in Dev \ {src'} :
              Has(e, src)' < Has(src, src)' \/ sent'[src'][e] = vector_clock'[src']
  BY <1>1, <1>8 DEF Has, Count
<1>10. QED
  BY <1>1, <1>7, <1>9 DEF Fresh

LEMMA NextFresh ==
    ASSUME OpsNotEmpty, DocClosed, FreshInv, [Next]_vars PROVE Fresh'
<1>1. CASE \E d \in Dev : Edit(d)
  BY <1>1, EditFresh
<1>2. CASE \E d \in Dev : Bind(d)
  BY <1>2 DEF Bind, FreshInv, SentInv, Serving
<1>3. CASE \E d \in Dev : SendChanges(d)
  BY <1>3, SendChangesFresh
<1>4. CASE \E d, e \in Dev : Connect(d, e)
  BY <1>4, FreshUnchanged DEF Connect, FreshInv, Running, itemVars
<1>5. CASE Tick \/ UndoPatch \/ EndRead \/ MergePatch \/ UNCHANGED vars
  BY <1>5, FreshUnchanged
  DEF Tick, UndoPatch, EndRead, MergePatch, vars, itemVars, dbVars, FreshInv, Running
<1>6. CASE DropChanges
  <2>1. dst \in Dev
    BY <1>6, Parties DEF DropChanges, Running, FreshInv, SentInv, ClockInv
  <2>2. QED
    BY <1>6, <2>1 DEF DropChanges, FreshInv, SentInv, Serving
<1>7. QED
  BY <1>1, <1>2, <1>3, <1>4, <1>5, <1>6, GetChangesFresh, EndSendFresh,
     RejectChangesNever, AcceptChangesFresh, ReadPatchFresh DEF Next, Run, FreshInv

-----------------------------------------------------------------------------
(* The marks that the merge reads.                                         *)

AllStd(log) == \A i \in 1 .. Len(log) : log[i].ins_type = "STD"
Marked(log, from) == \A i \in 1 .. Len(log) : log[i].ins_type # "STD" => i >= from

(* The patch f of dst is not held by src; it is left to read.              *)
Unknown(f) == f.num > vector_clock[src][ReadDev(f.dev, dst, src)]
InMessage(f) == \E q \in msg : q.dev = ReadDev(f.dev, dst, src) /\ q.num = f.num

(* Only the device that receives has marks, from the index where it will   *)
(* merge on. What is marked as unknown to the sender is so, or is left to  *)
(* read; what is new was read; and in the end something is new.            *)
Marks ==
    /\ \A d \in Dev : (pc \in {"read", "undo", "merge"} => d # dst) => AllStd(patches[d])
    /\ pc = "deliver" =>
          \A x \in Ids : \A n \in base[x] + 1 .. vector_clock[src][x] :
              \E q \in msg : q.dev = x /\ q.num = n
    /\ pc = "read" =>
          /\ Marked(patches[dst], ifi)
          /\ \/ Has(dst, src) < Has(src, src)
             \/ \E i \in 1 .. Len(patches[dst]) : patches[dst][i].ins_type = "NEW"
          /\ \A i \in 1 .. Len(patches[dst]) :
                /\ patches[dst][i].ins_type = "UNK" =>
                      Unknown(patches[dst][i]) \/ InMessage(patches[dst][i])
                /\ patches[dst][i].ins_type = "NEW" => ~ InMessage(patches[dst][i])
    /\ Merging =>
          /\ Marked(patches[dst], IF pc = "undo" THEN first ELSE idx)
          /\ \A i \in 1 .. Len(patches[dst]) :
                patches[dst][i].ins_type = "UNK" => Unknown(patches[dst][i])

MarkInv == FreshInv /\ Marks

LEMMA FrozenStd ==
    ASSUME TypeOK, NEW d \in Dev, AllStd(patches[d])
    PROVE  AllStd(FrozenPatches(d, Date(d)))
<1>1. patches[d] \in Seq(Patch) /\ vector_clock[d] \in Clock /\ modifications[d] \in Seq(Op)
  BY DEF TypeOK
<1>2. CASE modifications[d] = <<>>
  BY <1>2 DEF FrozenPatches
<1>3. CASE modifications[d] # <<>>
  <2> DEFINE n == LastPatch(d, Date(d))
  <2>1. n \in Patch /\ n.ins_type = "STD" /\ FrozenPatches(d, Date(d)) = Append(patches[d], n)
    BY <1>1, <1>3, DateType, LastPatchType DEF FrozenPatches, LastPatch
  <2> HIDE DEF n
  <2>2. /\ Len(Append(patches[d], n)) = Len(patches[d]) + 1 /\ Len(patches[d]) \in Nat
        /\ Append(patches[d], n)[Len(patches[d]) + 1] = n
        /\ \A i \in 1 .. Len(patches[d]) : Append(patches[d], n)[i] = patches[d][i]
    BY <1>1, <2>1, AppendProperties, LenProperties
  <2>3. \A i \in 1 .. Len(patches[d]) + 1 : i \in 1 .. Len(patches[d]) \/ i = Len(patches[d]) + 1
    BY <2>2
  <2>4. QED
    BY <2>1, <2>2, <2>3 DEF AllStd
<1>4. QED
  BY <1>2, <1>3

LEMMA MarkUnkMarks ==
    ASSUME NEW log \in Seq(Patch), NEW c, NEW b, AllStd(log)
    PROVE  /\ Marked(MarkUnk(log, c, b), FirstUnk(log, c, b))
           /\ \A i \in 1 .. Len(MarkUnk(log, c, b)) :
                 /\ MarkUnk(log, c, b)[i].ins_type # "NEW"
                 /\ MarkUnk(log, c, b)[i].ins_type = "UNK" => IsUnk(log[i], c, b)
<1> DEFINE new == MarkUnk(log, c, b)
           S == {i \in 1 .. Len(log) : IsUnk(log[i], c, b)} \cup {NoIndex}
<1>1. Len(log) \in Nat /\ Len(new) = Len(log) /\ \A i \in 1 .. Len(log) : log[i] \in Patch
  BY LenProperties, ElementOfSeq, MarkUnkIs DEF SameKeys
<1>2. \A i \in 1 .. Len(log) : new[i].ins_type = IF IsUnk(log[i], c, b) THEN "UNK" ELSE "STD"
  <2>1. \A q \in Patch : [q EXCEPT !.ins_type = "UNK"].ins_type = "UNK"
    BY DEF Patch
  <2>2. QED
    BY <1>1, <2>1 DEF MarkUnk, AllStd
<1>3. S \in SUBSET Nat /\ NoIndex \in S
  BY <1>1 DEF NoIndex
<1>4. \A i \in S : FirstUnk(log, c, b) <= i
  BY <1>3, MinIsLeast DEF FirstUnk
<1>5. FirstUnk(log, c, b) \in Nat
  BY FirstUnkType
<1> HIDE DEF new
<1>6. Marked(new, FirstUnk(log, c, b))
  BY <1>1, <1>2, <1>4, <1>5 DEF Marked
<1>7. QED
  BY <1>1, <1>2, <1>6 DEF new

LEMMA MarkStdMarks ==
    ASSUME NEW log \in Seq(Patch), NEW p, NEW i \in 1 .. Len(log)
    PROVE  /\ Len(MarkStd(log, p)) = Len(log)
           /\ MarkStd(log, p)[i].ins_type # "STD" => ~ Same(log[i], p)
           /\ ~ Same(log[i], p) => MarkStd(log, p)[i] = log[i]
<1>1. Len(MarkStd(log, p)) = Len(log) /\ log[i] \in Patch
  BY MarkStdIs, ElementOfSeq DEF SameKeys
<1>2. [log[i] EXCEPT !.ins_type = "STD"].ins_type = "STD"
  BY <1>1 DEF Patch
<1>3. QED
  BY <1>1, <1>2 DEF MarkStd

LEMMA FirstToMergeMarks ==
    ASSUME NEW log \in Seq(Patch), NEW from \in Nat, Marked(log, from)
    PROVE  Marked(log, FirstToMerge(log, from))
<1> DEFINE S == {i \in 1 .. Len(log) : i >= from /\ log[i].ins_type # "STD"}
                \cup {Len(log) + 1}
<1>1. Len(log) \in Nat
  BY LenProperties
<1>2. S \in SUBSET Nat /\ Len(log) + 1 \in S
  BY <1>1
<1>3. FirstToMerge(log, from) \in Nat /\ \A i \in S : FirstToMerge(log, from) <= i
  BY <1>2, MinIsLeast DEF FirstToMerge
<1>4. QED
  BY <1>1, <1>3 DEF Marked

(* A name that a log holds is not the global name of its device.           *)
LEMMA LogNames ==
    ASSUME NEW d \in Dev, NEW log \in Seq(Patch), NEW c \in Clock, Matches(log, c), c[d] = 0,
           NEW i \in 1 .. Len(log)
    PROVE  /\ log[i] \in Patch /\ log[i].dev \in Ids /\ log[i].dev # d
           /\ log[i].num \in Nat \ {0} /\ log[i].num <= c[log[i].dev] /\ c[log[i].dev] \in Nat
<1>1. log[i] \in Patch /\ log[i].num <= c[log[i].dev]
  BY ElementOfSeq DEF Matches
<1>2. log[i].dev \in Ids /\ log[i].num \in Nat \ {0}
  BY <1>1 DEF Patch
<1>3. QED
  BY <1>1, <1>2 DEF Clock

LEMMA SameThreadMarks ==
    ASSUME Marks,
           UNCHANGED <<patches, vector_clock, pc, src, todo, base, msg, ifi, first, idx>>
    PROVE  Marks'
<1>1. /\ dst' = dst /\ \A d, g \in Dev : Has(d, g)' = Has(d, g)
      /\ \A f : (Unknown(f)' <=> Unknown(f)) /\ (InMessage(f)' <=> InMessage(f))
      /\ Merging' <=> Merging
  BY DEF dst, Has, Count, Unknown, InMessage, Merging
<1>2. Has(dst, src)' = Has(dst, src) /\ Has(src, src)' = Has(src, src)
  BY <1>1 DEF Has, Count
<1>3. QED
  BY <1>1, <1>2 DEF Marks

LEMMA IdleMarks ==
    ASSUME Marks, UNCHANGED patches, pc \in {"idle", "send"}, pc' \in {"idle", "send"}
    PROVE  Marks'
BY DEF Marks, Merging

LEMMA GetChangesMarks == ASSUME MarkInv, GetChanges PROVE Marks'
<1>1. PICK s \in Dev, t \in Dev :
          /\ s = src /\ t = dst /\ s = src' /\ SentInv /\ TypeOK /\ pc = "send" /\ Freeze(s)
  BY Parties DEF GetChanges, MarkInv, FreshInv, SentInv, ClockInv, TypeInv, Running
<1> DEFINE log == FrozenPatches(s, Date(s))
           known == sent[s][t]
           new == vector_clock'[s]
           out == Unsent(log, new, known)
<1>2. /\ log \in Seq(Patch) /\ Matches(log, new) /\ new \in Clock /\ known \in Clock
      /\ patches' = [patches EXCEPT ![s] = log]
  BY <1>1, FreezeMatches DEF SentInv, TypeOK, GetChanges
<1>3. \A x \in Ids : \A n \in known[x] + 1 .. new[x] : \E q \in out : q.dev = x /\ q.num = n
  BY <1>2, UnsentIsAll
<1>4. \/ pc' = "send"
      \/ pc' = "deliver" /\ base' = known /\ msg' = out
  BY <1>1, <1>2 DEF GetChanges, TypeOK
<1>5. AllStd(log)
  BY <1>1, FrozenStd DEF MarkInv, Marks
<1> HIDE DEF log, out
<1>6. \A d \in Dev : AllStd(patches'[d])
  BY <1>1, <1>2, <1>5 DEF MarkInv, Marks, TypeOK
<1>7. \A d \in Dev : AllStd(patches[d])'
  BY <1>6 DEF AllStd
<1>8. QED
  BY <1>1, <1>3, <1>4, <1>7 DEF Marks, Merging

LEMMA AcceptChangesMarks == ASSUME MarkInv, AcceptChanges PROVE Marks'
<1>1. PICK s \in Dev, t \in Dev :
          /\ s = src /\ t = dst /\ t # s /\ s = src' /\ t = dst'
          /\ SentInv /\ TypeOK /\ base \in Clock /\ pc = "deliver" /\ pc' = "read" /\ Freeze(t)
          /\ msg' = msg /\ vector_clock[s] \in Clock
  BY Parties
  DEF AcceptChanges, MarkInv, FreshInv, SentInv, ClockInv, TypeInv, TypeOK, Running, msgVars, dst
<1> DEFINE log == FrozenPatches(t, Date(t))
           c == vector_clock'[t]
           known == ReadClock(base, s, t)
           new == MarkUnk(log, c, known)
<1>2. /\ log \in Seq(Patch) /\ Matches(log, c) /\ c \in Clock /\ c[t] = 0
      /\ patches' = [patches EXCEPT ![t] = new] /\ ifi' = FirstUnk(log, c, known)
      /\ patches \in [Dev -> Seq(Patch)]
  BY <1>1, FreezeMatches DEF SentInv, TypeOK, AcceptChanges
<1>3. AllStd(log)
  BY <1>1, FrozenStd DEF MarkInv, Marks
<1>4. /\ Marked(new, FirstUnk(log, c, known)) /\ Len(new) = Len(log)
      /\ \A i \in 1 .. Len(log) : Agree(new[i], log[i])
      /\ \A i \in 1 .. Len(new) : new[i].ins_type # "NEW"
      /\ \A i \in 1 .. Len(new) : new[i].ins_type = "UNK" => IsUnk(log[i], c, known)
  BY <1>2, <1>3, MarkUnkIs, MarkUnkMarks DEF SameKeys
<1>5. patches'[t] = new /\ \A d \in Dev : d # t => patches'[d] = patches[d]
  BY <1>2
<1> HIDE DEF log, new
<1>6. /\ vector_clock'[s] = vector_clock[s]
      /\ Has(t, s)' = Has(t, s) /\ Has(s, s)' = Has(s, s)
  BY <1>1, FreezeHas
<1>7. ASSUME NEW i \in 1 .. Len(new), new[i].ins_type = "UNK"
      PROVE  \/ new[i].num > vector_clock[s][ReadDev(new[i].dev, t, s)]
             \/ \E q \in msg : q.dev = ReadDev(new[i].dev, t, s) /\ q.num = new[i].num
  <2> DEFINE f == log[i]
             x == ReadDev(f.dev, t, s)
  <2>1. /\ new[i].dev = f.dev /\ new[i].num = f.num
        /\ f.num \in known[f.dev] + 1 .. c[f.dev]
    BY <1>4, <1>7 DEF Agree, IsUnk
  <2>2. f.dev \in Ids /\ f.dev # t /\ f.num \in Nat
    BY <1>1, <1>2, <1>4, LogNames
  <2> HIDE DEF f
  <2>3. x \in Ids /\ x # s /\ ReadDev(x, s, t) = f.dev
    BY <1>1, <2>2, ReadDevType, ReadDevNotOwn, ReadDevBack
  <2>4. known[f.dev] = base[x]
    BY <1>1, <2>3, ReadClockAt
  <2>5. base[x] \in Nat /\ vector_clock[s][x] \in Nat
    BY <1>1, <2>3 DEF Clock
  <2>6. f.num <= vector_clock[s][x] => f.num \in base[x] + 1 .. vector_clock[s][x]
    BY <2>1, <2>2, <2>4, <2>5
  <2>7. f.num <= vector_clock[s][x] => \E q \in msg : q.dev = x /\ q.num = f.num
    BY <1>1, <2>3, <2>6 DEF MarkInv, Marks
  <2>8. QED
    BY <2>1, <2>2, <2>5, <2>7
<1>8. \A d \in Dev : d # dst' => AllStd(patches[d])'
  BY <1>1, <1>5 DEF MarkInv, Marks, AllStd
<1>9. Has(dst, src)' < Has(src, src)'
  BY <1>1, <1>6 DEF MarkInv, FreshInv, Fresh, Has, Count
<1>10. \A i \in 1 .. Len(patches'[dst']) :
          /\ patches'[dst'][i].ins_type = "UNK" =>
                Unknown(patches[dst][i])' \/ InMessage(patches[dst][i])'
          /\ patches'[dst'][i].ins_type = "NEW" => ~ InMessage(patches[dst][i])'
  <2>1. patches'[dst'] = new
    BY <1>1, <1>5
  <2>2. ASSUME NEW i \in 1 .. Len(new)
        PROVE  /\ new[i].ins_type = "UNK" =>
                     \/ new[i].num > vector_clock'[src'][ReadDev(new[i].dev, dst', src')]
                     \/ \E q \in msg' : q.dev = ReadDev(new[i].dev, dst', src') /\ q.num = new[i].num
               /\ new[i].ins_type # "NEW"
    <3>1. src' = s /\ dst' = t /\ msg' = msg /\ vector_clock'[src'] = vector_clock[s]
      BY <1>1, <1>6
    <3>2. new[i].ins_type # "NEW"
      BY <1>4
    <3>3. ASSUME new[i].ins_type = "UNK"
          PROVE  \/ new[i].num > vector_clock[s][ReadDev(new[i].dev, t, s)]
                 \/ \E q \in msg : q.dev = ReadDev(new[i].dev, t, s) /\ q.num = new[i].num
      BY <1>7, <3>3
    <3>4. QED
      BY <3>1, <3>2, <3>3
  <2>3. QED
    BY <2>1, <2>2 DEF Unknown, InMessage
<1>11. Marked(patches[dst], ifi)'
  BY <1>1, <1>2, <1>4, <1>5 DEF Marked
<1>12. QED
  BY <1>1, <1>8, <1>9, <1>10, <1>11 DEF Marks, Merging

(* A patch that is new, or known to the sender after all, is not left to   *)
(* read a second time.                                                     *)
LEMMA ReadPatchMarks == ASSUME MarkInv, ReadPatch PROVE Marks'
<1>1. PICK s \in Dev, t \in Dev :
          /\ s = src /\ t = dst /\ t # s /\ s = src' /\ t = dst'
          /\ SentInv /\ ClockInv /\ TypeOK /\ pc = "read" /\ pc' = "read"
  BY Parties
  DEF ReadPatch, MarkInv, FreshInv, SentInv, ClockInv, TypeInv, Running, dst
<1>2. PICK p \in msg : Read(p)
  BY DEF ReadPatch
<1> DEFINE log == patches[t]
           c == vector_clock[t]
           n == Received(p)
           k == InsertionIndex(log, n, t)
           there(f, m) == \E q \in m : q.dev = ReadDev(f.dev, t, s) /\ q.num = f.num
           unk(f) == f.num > vector_clock[s][ReadDev(f.dev, t, s)]
<1>3. /\ log \in Seq(Patch) /\ c \in Clock /\ Matches(log, c) /\ c[t] = 0
      /\ msg \in SUBSET Patch /\ patches \in [Dev -> Seq(Patch)]
      /\ vector_clock \in [Dev -> Clock] /\ Len(log) \in Nat /\ ifi \in Nat
  BY <1>1, LenProperties DEF ClockInv, ClockMatchesPatches, Message, TypeOK
<1>4. /\ p \in Patch /\ p.dev \in Ids /\ p.dev # s
      /\ \A q \in msg : Same(q, p) => q = p
  BY <1>1, <1>3 DEF Patch, ClockInv, Message
<1>5. /\ n \in Patch /\ n.num = p.num /\ n.dev = ReadDev(p.dev, s, t)
      /\ ReadDev(n.dev, t, s) = p.dev /\ n.ins_type = "NEW"
  <2>1. n \in Patch /\ n.num = p.num /\ n.dev = ReadDev(p.dev, s, t)
    BY <1>1, <1>4, ReceivedType
  <2>2. n.ins_type = "NEW"
    BY <1>4 DEF Received, Patch
  <2>3. QED
    BY <1>1, <1>4, <2>1, <2>2, ReadDevBack
<1>6. /\ msg' = msg \ {p}
      /\ \/ patches' = [patches EXCEPT ![t] = MarkStd(log, n)] /\ vector_clock' = vector_clock
            /\ ifi' = ifi
         \/ /\ ~ Contains(c, n.dev, n.num)
            /\ patches' = [patches EXCEPT ![t] = InsertPatch(log, n, k)]
            /\ vector_clock' = [vector_clock EXCEPT ![t] = UpdatePatch(@, n.dev, n.num)]
            /\ ifi' = IF ifi > k THEN k ELSE ifi
  BY <1>1, <1>2 DEF Read
<1>7. k \in 1 .. Len(log) + 1
  BY <1>1, <1>3, <1>5, InsertionIndexIs
<1> HIDE DEF n, k
<1>8. /\ Marked(log, ifi)
      /\ Has(t, s) < Has(s, s) \/ \E i \in 1 .. Len(log) : log[i].ins_type = "NEW"
      /\ \A i \in 1 .. Len(log) : log[i].ins_type = "UNK" => unk(log[i]) \/ there(log[i], msg)
      /\ \A i \in 1 .. Len(log) : log[i].ins_type = "NEW" => ~ there(log[i], msg)
      /\ \A d \in Dev : d # t => AllStd(patches[d])
  BY <1>1 DEF MarkInv, Marks, Unknown, InMessage
<1>9. ASSUME NEW i \in 1 .. Len(log)
      PROVE  /\ Same(log[i], n) => there(log[i], msg)
             /\ there(log[i], msg) => there(log[i], msg \ {p}) \/ Same(log[i], n)
  <2>1. log[i].dev \in Ids /\ log[i].dev # t
    BY <1>1, <1>3, LogNames
  <2>2. ReadDev(ReadDev(log[i].dev, t, s), s, t) = log[i].dev
    BY <1>1, <2>1, ReadDevBack
  <2>3. QED
    BY <1>2, <1>5, <2>2 DEF Same
<1>10. \A f : there(f, msg \ {p}) => there(f, msg)
  OBVIOUS
<1>11. ~ there(n, msg \ {p})
  BY <1>4, <1>5 DEF Same
<1> DEFINE rest == msg \ {p}
           good(new) ==
              /\ patches' = [patches EXCEPT ![t] = new]
              /\ Marked(new, ifi')
              /\ \/ Has(t, s)' < Has(s, s)'
                 \/ \E i \in 1 .. Len(new) : new[i].ins_type = "NEW"
              /\ \A i \in 1 .. Len(new) :
                    /\ new[i].ins_type = "UNK" => unk(new[i]) \/ there(new[i], rest)
                    /\ new[i].ins_type = "NEW" => ~ there(new[i], rest)
<1> HIDE DEF there, unk, log
<1>12. ASSUME patches' = [patches EXCEPT ![t] = MarkStd(log, n)], vector_clock' = vector_clock,
              ifi' = ifi
       PROVE  \E new : good(new) /\ vector_clock'[s] = vector_clock[s]
  <2> DEFINE new == MarkStd(log, n)
  <2>1. Len(new) = Len(log) /\ \A i \in 1 .. Len(log) :
            /\ new[i].ins_type # "STD" => ~ Same(log[i], n)
            /\ ~ Same(log[i], n) => new[i] = log[i]
    <3>1. Len(new) = Len(log)
      BY <1>3, MarkStdIs DEF SameKeys
    <3>2. QED
      BY <1>3, <3>1, MarkStdMarks
  <2> HIDE DEF new
  <2>2. Has(t, s)' = Has(t, s) /\ Has(s, s)' = Has(s, s)
    BY <1>12 DEF Has, Count
  <2>3. Marked(new, ifi')
    BY <1>8, <1>12, <2>1 DEF Marked
  <2>4. (\E i \in 1 .. Len(log) : log[i].ins_type = "NEW")
        => \E i \in 1 .. Len(new) : new[i].ins_type = "NEW"
    BY <1>8, <1>9, <2>1
  <2>5. ASSUME NEW i \in 1 .. Len(new)
        PROVE  /\ new[i].ins_type = "UNK" => unk(new[i]) \/ there(new[i], rest)
               /\ new[i].ins_type = "NEW" => ~ there(new[i], rest)
    <3>1. new[i].ins_type # "STD" => new[i] = log[i] /\ ~ Same(log[i], n) /\ i \in 1 .. Len(log)
      BY <2>1
    <3>2. QED
      BY <1>8, <1>9, <1>10, <3>1
  <2>6. good(new)
    BY <1>8, <1>12, <2>2, <2>3, <2>4, <2>5 DEF new
  <2> HIDE DEF good
  <2>7. QED
    BY <1>12, <2>6
<1>13. ASSUME ~ Contains(c, n.dev, n.num),
              patches' = [patches EXCEPT ![t] = InsertPatch(log, n, k)],
              vector_clock' = [vector_clock EXCEPT ![t] = UpdatePatch(@, n.dev, n.num)],
              ifi' = IF ifi > k THEN k ELSE ifi
       PROVE  \E new : good(new) /\ vector_clock'[s] = vector_clock[s]
  <2> DEFINE new == InsertPatch(log, n, k)
  <2>1. Len(new) = Len(log) + 1
    BY <1>3, <1>5, <1>7, InsertPatchIs DEF Added
  <2>2. /\ new[k] = n /\ k \in 1 .. Len(new)
        /\ \A j \in 1 .. Len(new) :
              j = k \/ \E i \in 1 .. Len(log) : i <= j /\ new[j] = log[i]
    <3>1. new[k] = n /\ k \in 1 .. Len(new)
      BY <1>3, <1>7, <2>1 DEF InsertPatch
    <3>2. ASSUME NEW j \in 1 .. Len(new), j # k
          PROVE  \E i \in 1 .. Len(log) : i <= j /\ new[j] = log[i]
      <4>1. CASE j < k
        BY <1>3, <1>7, <2>1, <4>1 DEF InsertPatch
      <4>2. CASE ~ (j < k)
        <5>1. j - 1 \in 1 .. Len(log) /\ new[j] = log[j - 1]
          BY <1>3, <1>7, <2>1, <3>2, <4>2 DEF InsertPatch
        <5>2. QED
          BY <5>1
      <4>3. QED
        BY <4>1, <4>2
    <3>3. QED
      BY <3>1, <3>2
  <2> HIDE DEF new
  <2>3. \A i \in 1 .. Len(log) : ~ Same(log[i], n)
    BY <1>1, <1>3, <1>13, LogNames DEF Same, Contains
  <2>4. Marked(new, ifi')
    <3>1. ASSUME NEW j \in 1 .. Len(new), new[j].ins_type # "STD"
          PROVE  j >= ifi'
      <4>1. CASE j = k
        BY <1>3, <1>7, <1>13, <4>1
      <4>2. CASE j # k
        <5>1. PICK i \in 1 .. Len(log) : i <= j /\ new[j] = log[i]
          BY <2>2, <4>2
        <5>2. i >= ifi
          BY <1>8, <3>1, <5>1 DEF Marked
        <5>3. QED
          BY <1>3, <1>7, <1>13, <2>1, <5>1, <5>2
      <4>3. QED
        BY <4>1, <4>2
    <3>2. QED
      BY <3>1 DEF Marked
  <2>5. ASSUME NEW j \in 1 .. Len(new)
        PROVE  /\ new[j].ins_type = "UNK" => unk(new[j]) \/ there(new[j], rest)
               /\ new[j].ins_type = "NEW" => ~ there(new[j], rest)
    <3>1. CASE j = k
      BY <1>5, <1>11, <2>2, <3>1
    <3>2. CASE j # k
      <4>1. PICK i \in 1 .. Len(log) : new[j] = log[i]
        BY <2>2, <3>2
      <4>2. QED
        BY <1>8, <1>9, <1>10, <2>3, <4>1
    <3>3. QED
      BY <3>1, <3>2
  <2>6. good(new)
    BY <1>5, <1>13, <2>2, <2>4, <2>5 DEF new
  <2>7. vector_clock'[s] = vector_clock[s]
    BY <1>1, <1>13
  <2> HIDE DEF good
  <2>8. QED
    BY <2>6, <2>7
<1>14. PICK new : good(new) /\ vector_clock'[s] = vector_clock[s]
  <2> HIDE DEF good
  <2> QED BY <1>6, <1>12, <1>13
<1>15. patches'[dst'] = new /\ \A d \in Dev : d # dst' => AllStd(patches'[d])
  BY <1>1, <1>3, <1>8, <1>14
<1>16. \A d \in Dev : d # dst' => AllStd(patches[d])'
  BY <1>15 DEF AllStd
<1>17. Marked(patches[dst], ifi)'
  BY <1>14, <1>15 DEF Marked
<1>18. \/ Has(dst, src)' < Has(src, src)'
       \/ \E i \in 1 .. Len(patches'[dst']) : patches'[dst'][i].ins_type = "NEW"
  BY <1>1, <1>14, <1>15 DEF Has, Count
<1>19. ASSUME NEW i \in 1 .. Len(new)
       PROVE  /\ new[i].ins_type = "UNK" =>
                    \/ new[i].num > vector_clock'[src'][ReadDev(new[i].dev, dst', src')]
                    \/ \E q \in msg' : q.dev = ReadDev(new[i].dev, dst', src') /\ q.num = new[i].num
              /\ new[i].ins_type = "NEW" =>
                    ~ \E q \in msg' : q.dev = ReadDev(new[i].dev, dst', src') /\ q.num = new[i].num
  <2>1. src' = s /\ dst' = t /\ msg' = msg \ {p} /\ vector_clock'[src'] = vector_clock[s]
    BY <1>1, <1>6, <1>14
  <2>2. /\ new[i].ins_type = "UNK" => unk(new[i]) \/ there(new[i], rest)
        /\ new[i].ins_type = "NEW" => ~ there(new[i], rest)
    BY <1>14
  <2>3. QED
    BY <2>1, <2>2 DEF unk, there
<1>20. \A i \in 1 .. Len(patches'[dst']) :
          /\ patches'[dst'][i].ins_type = "UNK" =>
                Unknown(patches[dst][i])' \/ InMessage(patches[dst][i])'
          /\ patches'[dst'][i].ins_type = "NEW" => ~ InMessage(patches[dst][i])'
  BY <1>15, <1>19 DEF Unknown, InMessage
<1>21. QED
  BY <1>1, <1>16, <1>17, <1>18, <1>20 DEF Marks, Merging

LEMMA EndReadMarks == ASSUME MarkInv, EndRead PROVE Marks'
<1>1. PICK s \in Dev, t \in Dev :
          /\ s = src /\ t = dst /\ SentInv /\ TypeOK /\ pc = "read" /\ msg = {}
          /\ UNCHANGED <<patches, vector_clock, src>>
          /\ patches[t] \in Seq(Patch) /\ ifi \in Nat
  BY Parties
  DEF EndRead, MarkInv, FreshInv, SentInv, ClockInv, TypeInv, TypeOK, Running, itemVars
<1>2. \A i \in 1 .. Len(patches[t]) : ~ InMessage(patches[t][i])
  BY <1>1 DEF InMessage
<1>3. \E i \in 1 .. Len(patches[t]) : patches[t][i].ins_type = "NEW"
  <2>1. Has(s, s) <= Has(t, s)
    BY <1>1, EndReadBelow DEF Below, Has
  <2>2. ~ (Has(t, s) < Has(s, s))
    BY <1>1, <2>1, HasType
  <2>3. QED
    BY <1>1, <2>2 DEF MarkInv, Marks
<1>4. pc' = "undo" /\ dst' = dst /\ first' = FirstToMerge(patches[t], ifi)
  BY <1>1, <1>3 DEF EndRead, dst
<1>5. Marked(patches[t], first')
  BY <1>1, <1>4, FirstToMergeMarks DEF MarkInv, Marks
<1>6. \A i \in 1 .. Len(patches[t]) : patches[t][i].ins_type = "UNK" => Unknown(patches[t][i])
  BY <1>1, <1>2 DEF MarkInv, Marks
<1>7. \A f : Unknown(f)' <=> Unknown(f)
  BY <1>1, <1>4 DEF Unknown
<1>8. \A d \in Dev : d # dst' => AllStd(patches[d])'
  BY <1>1, <1>4 DEF MarkInv, Marks, AllStd
<1>9. Marked(patches[dst], IF pc = "undo" THEN first ELSE idx)'
  BY <1>1, <1>4, <1>5 DEF Marked
<1>10. \A i \in 1 .. Len(patches'[dst']) :
          patches'[dst'][i].ins_type = "UNK" => Unknown(patches[dst][i])'
  BY <1>1, <1>4, <1>6 DEF Unknown
<1>11. QED
  BY <1>4, <1>8, <1>9, <1>10 DEF Marks

LEMMA UndoPatchMarks == ASSUME MarkInv, UndoPatch PROVE Marks'
<1>1. /\ UNCHANGED <<patches, vector_clock, src, todo, first>> /\ dst' = dst
      /\ pc = "undo" /\ Merging
      /\ pc' = "undo" \/ (pc' = "merge" /\ idx' = first)
  BY DEF UndoPatch, dst, Merging
<1>2. \A f : Unknown(f)' <=> Unknown(f)
  BY <1>1 DEF Unknown
<1>3. Marked(patches[dst], IF pc = "undo" THEN first ELSE idx)'
  BY <1>1 DEF MarkInv, Marks, Marked
<1>4. \A d \in Dev : d # dst' => AllStd(patches[d])'
  BY <1>1 DEF MarkInv, Marks, AllStd
<1>5. \A i \in 1 .. Len(patches'[dst']) :
          patches'[dst'][i].ins_type = "UNK" => Unknown(patches[dst][i])'
  BY <1>1 DEF MarkInv, Marks, Unknown
<1>6. QED
  BY <1>1, <1>3, <1>4, <1>5 DEF Marks

(* A patch that is merged loses its mark; after the last one none is left. *)
LEMMA MergePatchMarks == ASSUME MarkInv, MergePatch PROVE Marks'
<1>1. PICK s \in Dev, t \in Dev :
          /\ s = src /\ t = dst /\ s = src' /\ TypeInv /\ pc = "merge" /\ Merging
          /\ vector_clock' = vector_clock /\ patches \in [Dev -> Seq(Patch)]
          /\ idx \in 1 .. Len(patches[t])
  BY Parties
  DEF MergePatch, MarkInv, FreshInv, SentInv, ClockInv, TypeInv, TypeOK, Thread, Running, Merging
<1> DEFINE log == patches[t]
           f == log[idx]
           g == [f EXCEPT !.data = Merged(f).data, !.ins_type = "STD"]
           new == [log EXCEPT ![idx] = g]
<1>2. patches' = [patches EXCEPT ![t] = new]
  BY <1>1 DEF MergePatch
<1>3. log \in Seq(Patch) /\ f \in Patch /\ Len(log) \in Nat
  BY <1>1, ElementOfSeq, LenProperties
<1>4. g.ins_type = "STD"
  BY <1>3 DEF Patch
<1> HIDE DEF g
<1>5. /\ Len(new) = Len(log) /\ new[idx] = g
      /\ \A i \in 1 .. Len(log) : i # idx => new[i] = log[i]
  BY <1>1, <1>3
<1> HIDE DEF new, f
<1>6. Marked(log, idx) /\ \A i \in 1 .. Len(log) : log[i].ins_type = "UNK" => Unknown(log[i])
  BY <1>1 DEF MarkInv, Marks
<1>7. /\ \A i \in 1 .. Len(new) : new[i].ins_type # "STD" => i >= idx /\ i # idx
      /\ \A i \in 1 .. Len(new) : new[i].ins_type = "UNK" => Unknown(new[i])
  BY <1>4, <1>5, <1>6 DEF Marked
<1>8. patches'[t] = new /\ \A d \in Dev : d # t => patches'[d] = patches[d] /\ AllStd(patches[d])
  BY <1>1, <1>2 DEF MarkInv, Marks
<1> HIDE DEF log
<1>9. CASE idx = Len(log) /\ pc' = "send"
  <2>1. AllStd(new)
    BY <1>1, <1>3, <1>5, <1>7, <1>9 DEF AllStd
  <2>2. \A d \in Dev : AllStd(patches[d])'
    BY <1>8, <2>1 DEF AllStd
  <2>3. QED
    BY <1>9, <2>2 DEF Marks, Merging
<1>10. CASE idx' = idx + 1 /\ pc' = "merge" /\ dst' = t
  <2>1. Marked(new, idx')
    BY <1>1, <1>3, <1>5, <1>7, <1>10 DEF Marked
  <2>2. Marked(patches[dst], IF pc = "undo" THEN first ELSE idx)'
    BY <1>8, <1>10, <2>1 DEF Marked
  <2>3. \A d \in Dev : d # dst' => AllStd(patches[d])'
    BY <1>8, <1>10 DEF AllStd
  <2>4. \A h : Unknown(h) <=> h.num > vector_clock'[src'][ReadDev(h.dev, dst', src')]
    BY <1>1, <1>10 DEF Unknown
  <2>5. \A i \in 1 .. Len(patches'[dst']) :
            patches'[dst'][i].ins_type = "UNK" => Unknown(patches[dst][i])'
    <3>1. patches'[dst'] = new
      BY <1>8, <1>10
    <3>2. \A i \in 1 .. Len(new) : new[i].ins_type = "UNK" =>
              new[i].num > vector_clock'[src'][ReadDev(new[i].dev, dst', src')]
      BY <1>7, <2>4
    <3>3. QED
      BY <3>1, <3>2 DEF Unknown
  <2>6. QED
    BY <1>10, <2>2, <2>3, <2>5 DEF Marks
<1>11. QED
  BY <1>1, <1>9, <1>10 DEF MergePatch, msgVars, dst, log

LEMMA NextMarks == ASSUME MarkInv, [Next]_vars PROVE Marks'
<1>1. CASE \E d \in Dev : Edit(d) \/ SendChanges(d)
  BY <1>1, IdleMarks DEF Edit, SendChanges, MarkInv, itemVars
<1>2. CASE \E d \in Dev : Bind(d)
  BY <1>2 DEF Bind, MarkInv, FreshInv, SentInv, Serving
<1>3. CASE \E d, e \in Dev : Connect(d, e)
  BY <1>3, IdleMarks DEF Connect, MarkInv, itemVars
<1>4. CASE Tick \/ UNCHANGED vars
  BY <1>4, SameThreadMarks DEF Tick, vars, itemVars, msgVars, mergeVars, MarkInv
<1>5. CASE EndSend
  BY <1>5, IdleMarks DEF EndSend, MarkInv, itemVars
<1>6. CASE DropChanges
  <2>1. dst \in Dev
    BY <1>6, Parties DEF DropChanges, Running, MarkInv, FreshInv, SentInv, ClockInv
  <2>2. QED
    BY <1>6, <2>1 DEF DropChanges, MarkInv, FreshInv, SentInv, Serving
<1>7. QED
  BY <1>1, <1>2, <1>3, <1>4, <1>5, <1>6, GetChangesMarks, RejectChangesNever, AcceptChangesMarks,
     ReadPatchMarks, EndReadMarks, UndoPatchMarks, MergePatchMarks
  DEF Next, Run, MarkInv, FreshInv

LEMMA InitMarks == ASSUME DocClosed, InitBound = Dev, Init PROVE MarkInv
<1>1. pc = "idle" /\ \A d \in Dev : modified_items[d] = 0 /\ patches[d] = <<>>
  BY DEF Init, InitGroup
<1>2. Fresh
  BY <1>1 DEF Fresh, Running
<1>3. \A d \in Dev : AllStd(patches[d])
  BY <1>1 DEF AllStd
<1>4. QED
  BY <1>1, <1>2, <1>3, InitHeld, GroupAssumption DEF Init, Apart, MarkInv, FreshInv, Marks, Merging

(* MarkInv is inductive in a group whose devices have all bound the item.  *)
THEOREM MarkInvariant ==
    ASSUME DocClosed, OpsNotEmpty, InitBound = Dev PROVE Spec => []MarkInv
<1>1. Init => MarkInv
  BY InitMarks
<1>2. MarkInv /\ [Next]_vars => MarkInv'
  BY NextType, NextClock, NextServing, NextHeld, NextFresh, NextMarks
  DEF MarkInv, FreshInv, SentInv, ClockInv
<1>3. QED
  BY <1>1, <1>2, PTL DEF Spec

(* If every device has bound the item, a patch that is merged as unknown   *)
(* to the sender is not held by the sender: no operation is transformed    *)
(* against one that its author had seen. Patches that the sender learnt    *)
(* from others, and that come again with the message, are not marked.      *)
THEOREM MarksAreRight ==
    ASSUME DocClosed, OpsNotEmpty, InitBound = Dev PROVE Spec => []UnkIsUnknown
<1>1. ASSUME MarkInv, pc = "merge", NEW i \in idx .. Len(patches[dst]),
             patches[dst][i].ins_type = "UNK"
      PROVE  Unknown(patches[dst][i])
  <2>1. idx \in Nat \ {0} /\ Len(patches[dst]) \in Nat
    BY <1>1, Parties, LenProperties
    DEF MarkInv, FreshInv, SentInv, ClockInv, TypeInv, TypeOK, Thread, Running
  <2>2. i \in 1 .. Len(patches[dst])
    BY <2>1
  <2>3. QED
    BY <1>1, <2>2 DEF MarkInv, Marks, Merging
<1>2. MarkInv => UnkIsUnknown
  BY <1>1 DEF UnkIsUnknown, Unknown
<1>3. QED
  BY <1>2, MarkInvariant, PTL

-----------------------------------------------------------------------------
(* Nothing is forgotten where all are connected.                           *)

Meshed == \A d, e \in Dev :
              d # e => \E k \in 1 .. Len(connections[d]) : connections[d][k] = e

(* A Db whose modified_items is empty has made no patch that another lacks. *)
NothingLeft == \A d \in Dev : modified_items[d] = 0 =>
    modifications[d] = <<>> /\ \A e \in Dev : Has(e, d) = Has(d, d)

MeshInv == SentInv /\ Meshed /\ NothingLeft

LEMMA MeshedUnchanged == ASSUME Meshed, UNCHANGED connections PROVE Meshed'
BY DEF Meshed

LEMMA LeftUnchanged ==
    ASSUME NothingLeft, UNCHANGED <<vector_clock, modifications, modified_items>>
    PROVE  NothingLeft'
BY DEF NothingLeft, Has, Count

(* Who had nothing left makes no patch by freezing.                        *)
LEMMA FreezeLeft ==
    ASSUME MeshInv, NEW s \in Dev, Freeze(s), UNCHANGED modified_items
    PROVE  NothingLeft'
<1>1. TypeOK
  BY DEF MeshInv, SentInv, ClockInv, TypeInv
<1>2. ASSUME NEW d \in Dev, modified_items[d] = 0
      PROVE  modifications'[d] = <<>> /\ \A e \in Dev : Has(e, d)' = Has(d, d)'
  <2>1. modifications[d] = <<>> /\ \A e \in Dev : Has(e, d) = Has(d, d)
    BY <1>2 DEF MeshInv, NothingLeft
  <2>2. CASE d = s
    BY <1>1, <2>1, <2>2, FreezeHas
  <2>3. CASE d # s
    BY <1>1, <2>1, <2>3, FreezeHas
  <2>4. QED
    BY <2>2, <2>3
<1>3. QED
  BY <1>2 DEF NothingLeft

LEMMA ReadPatchLeft == ASSUME MeshInv, ReadPatch PROVE NothingLeft'
<1>1. PICK s \in Dev, t \in Dev :
          /\ s = src /\ t = dst /\ t # s /\ Receiving /\ TypeOK
          /\ UNCHANGED <<modified_items, modifications>>
  BY Parties DEF ReadPatch, MeshInv, SentInv, ClockInv, TypeInv, Running, Receiving, dbVars
<1>2. PICK p \in msg, g \in Dev : ReadStep(p, g)
  BY ReadHas, <1>1 DEF MeshInv, SentInv, ReadPatch
<1>3. /\ \A e, h \in Dev : ~ (e = t /\ h = g) => Has(e, h)' = Has(e, h)
      /\ \/ Has(t, g)' = Has(t, g)
         \/ Has(t, g)' = p.num /\ p.num = Has(t, g) + 1
      /\ p.num <= Has(s, g)
  BY <1>1, <1>2 DEF ReadStep, MeshInv, SentInv, MessageIsWhole, Has, Count
<1>4. ASSUME NEW d \in Dev, modified_items[d] = 0
      PROVE  modifications'[d] = <<>> /\ \A e \in Dev : Has(e, d)' = Has(d, d)'
  <2>1. modifications[d] = <<>> /\ \A e \in Dev : Has(e, d) = Has(d, d) /\ Has(e, d) \in Nat
    BY <1>1, <1>4, HasType DEF MeshInv, NothingLeft
  <2>2. CASE d = g
    <3>1. Has(t, g) = Has(s, g) /\ Has(t, g) \in Nat
      BY <2>1, <2>2
    <3>2. Has(t, g)' = Has(t, g)
      BY <1>3, <3>1
    <3>3. QED
      BY <1>1, <1>3, <2>1, <2>2, <3>2
  <2>3. CASE d # g
    BY <1>1, <1>3, <2>1, <2>3
  <2>4. QED
    BY <2>2, <2>3
<1>5. QED
  BY <1>1, <1>4 DEF NothingLeft

(* At its end, send_changes has served every device.                       *)
LEMMA EndSendLeft ==
    ASSUME \A d \in Dev : \E e \in Dev : e # d, MeshInv, EndSend PROVE NothingLeft'
<1>1. PICK s \in Dev :
          /\ s = src /\ TypeOK /\ Running /\ todo = <<>> /\ pc = "send"
          /\ modified_items' = [modified_items EXCEPT ![s] = 0]
          /\ modified_items \in [Dev -> Nat]
          /\ UNCHANGED <<vector_clock, modifications>>
          /\ Len(connections[s]) \in Nat
  BY LenProperties
  DEF EndSend, Running, itemVars, MeshInv, SentInv, ClockInv, TypeInv, TypeOK, Thread
<1>2. NbServed = Len(connections[s])
  BY <1>1, EmptySeq DEF NbServed
<1>3. ASSUME NEW e \in Dev, e # s
      PROVE  Has(e, s) = Has(s, s)
  <2>1. PICK k \in 1 .. Len(connections[s]) : connections[s][k] = e
    BY <1>3 DEF MeshInv, Meshed
  <2>2. Below(vector_clock[s], s, e)
    BY <1>1, <1>2, <2>1 DEF MeshInv, SentInv, MessageIsWhole
  <2>3. Has(s, s) <= Has(e, s)
    BY <2>2 DEF Below, Has
  <2>4. Has(e, s) <= Has(s, s) /\ Has(e, s) \in Nat /\ Has(s, s) \in Nat
    BY <1>1, HasType DEF MeshInv, SentInv, SentIsHeld
  <2>5. QED
    BY <2>3, <2>4
<1>4. modifications[s] = <<>>
  <2>1. PICK e \in Dev : e # s
    OBVIOUS
  <2>2. PICK k \in 1 .. Len(connections[s]) : connections[s][k] = e
    BY <2>1 DEF MeshInv, Meshed
  <2>3. NbServed > 0
    BY <1>1, <1>2, <2>2
  <2>4. QED
    BY <1>1, <2>3 DEF MeshInv, SentInv, Serving
<1>5. ASSUME NEW d \in Dev, modified_items'[d] = 0
      PROVE  modifications[d] = <<>> /\ \A e \in Dev : Has(e, d) = Has(d, d)
  <2>1. CASE d = s
    BY <1>3, <1>4, <2>1
  <2>2. CASE d # s
    BY <1>1, <1>5, <2>2 DEF MeshInv, NothingLeft
  <2>3. QED
    BY <2>1, <2>2
<1>6. QED
  BY <1>1, <1>5 DEF NothingLeft, Has, Count

LEMMA EditLeft == ASSUME MeshInv, NEW d \in Dev, Edit(d) PROVE NothingLeft'
<1>1. /\ modified_items \in [Dev -> Nat] /\ modifications \in [Dev -> Seq(Op)]
      /\ modified_items' = [modified_items EXCEPT ![d] = IF modifications[d] = <<>> THEN @ + 1 ELSE @]
      /\ \A e \in Dev : e # d => modifications'[e] = modifications[e]
      /\ UNCHANGED <<vector_clock, sent>>
  BY DEF Edit, MeshInv, SentInv, ClockInv, TypeInv, TypeOK
<1>2. modified_items'[d] # 0
  BY <1>1 DEF MeshInv, NothingLeft
<1>3. \A e \in Dev : e # d => modified_items'[e] = modified_items[e]
  BY <1>1
<1>4. \A e, g \in Dev : Has(e, g)' = Has(e, g)
  BY <1>1, ClocksUnchanged
<1>5. QED
  BY <1>1, <1>2, <1>3, <1>4 DEF MeshInv, NothingLeft

LEMMA NextLeft ==
    ASSUME \A d \in Dev : \E e \in Dev : e # d, MeshInv, [Next]_vars
    PROVE  Meshed' /\ NothingLeft'
<1>1. CASE \E d \in Dev : Edit(d) \/ Bind(d) \/ SendChanges(d)
  BY <1>1, EditLeft, LeftUnchanged, MeshedUnchanged
  DEF MeshInv, Edit, Bind, SendChanges, itemVars, dbVars
<1>2. CASE \E d, e \in Dev : Connect(d, e)
  <2>1. PICK d \in Dev, e \in Dev : Connect(d, e)
    BY <1>2
  <2>2. d # e /\ e \notin Range(connections[d]) /\ connections[d] \in Seq(Dev)
    BY <2>1 DEF Connect, MeshInv, SentInv, ClockInv, TypeInv, TypeOK
  <2>3. PICK k \in 1 .. Len(connections[d]) : connections[d][k] = e
    BY <2>2 DEF MeshInv, Meshed
  <2>4. k \in DOMAIN connections[d]
    BY <2>2, LenProperties
  <2>5. FALSE
    BY <2>2, <2>3, <2>4 DEF Range
  <2>6. QED
    BY <2>5
<1>3. CASE GetChanges \/ RejectChanges \/ AcceptChanges
  <2>1. UNCHANGED <<connections, modified_items>>
    BY <1>3 DEF GetChanges, RejectChanges, AcceptChanges, dbVars
  <2>2. \E s \in Dev : Freeze(s)
    BY <1>3, Parties DEF GetChanges, RejectChanges, AcceptChanges, Running, MeshInv, SentInv, ClockInv
  <2>3. QED
    BY <2>1, <2>2, FreezeLeft, MeshedUnchanged DEF MeshInv
<1>4. CASE Tick \/ DropChanges \/ EndRead \/ UndoPatch \/ MergePatch \/ UNCHANGED vars
  BY <1>4, LeftUnchanged, MeshedUnchanged
  DEF MeshInv, Tick, DropChanges, EndRead, UndoPatch, MergePatch, vars, itemVars, dbVars
<1>5. CASE ReadPatch
  BY <1>5, ReadPatchLeft, MeshedUnchanged DEF MeshInv, ReadPatch, dbVars
<1>6. CASE EndSend
  BY <1>6, EndSendLeft, MeshedUnchanged DEF MeshInv, EndSend
<1>7. QED
  BY <1>1, <1>2, <1>3, <1>4, <1>5, <1>6 DEF Next, Run

LEMMA InitLeft == ASSUME DocClosed, InitGroup(Dev, FullConn) PROVE MeshInv
<1>1. SentInv
  BY InitHeld, MeshAssumption DEF Apart
<1>2. \A d, g \in Dev : Has(d, g) = 0 /\ modifications[d] = <<>>
  BY StoredType DEF InitGroup, Has, Count, ZeroClock
<1>3. ASSUME NEW d \in Dev, NEW e \in Dev, d # e
      PROVE  \E k \in 1 .. Len(connections[d]) : connections[d][k] = e
  <2>1. connections[d] \in Seq(Dev) /\ e \in Range(connections[d])
    BY <1>3, MeshAssumption DEF InitGroup
  <2>2. DOMAIN connections[d] = 1 .. Len(connections[d])
    BY <2>1, LenProperties
  <2>3. QED
    BY <2>1, <2>2 DEF Range
<1>4. QED
  BY <1>1, <1>2, <1>3 DEF MeshInv, Meshed, NothingLeft

(* In a group where all have bound the item and all are connected, a Db    *)
(* that has nothing more to send has been heard by all: send_changes       *)
(* clears modified_items after its loop, and nothing that was made before  *)
(* it, or received in the middle of it, is lost.                           *)
THEOREM NothingIsForgotten == ASSUME DocClosed PROVE MCSpec => []MeshForgetsNothing
<1> DEFINE Inv == meshed => MeshInv
<1>1. MCInit => Inv
  BY InitLeft DEF MCInit
<1>2. MeshInv /\ [Next]_vars => MeshInv'
  BY MeshAssumption, NextType, NextClock, NextServing, NextHeld, NextLeft
  DEF MeshInv, SentInv, ClockInv
<1>3. Inv /\ [MCNext]_<<vars, meshed>> => Inv'
  BY <1>2 DEF MCNext
<1>4. MeshInv => NothingForgotten
  <2>1. ASSUME MeshInv, NEW d \in Dev, modified_items[d] = 0, NEW e \in Range(connections[d])
        PROVE  vector_clock[e][Stored(d, e)] = vector_clock[d][Loc]
    <3>1. connections[d] \in Seq(Dev)
      BY <2>1 DEF MeshInv, SentInv, ClockInv, TypeInv, TypeOK
    <3>2. e \in Dev
      BY <3>1, LenProperties, ElementOfSeq DEF Range
    <3>3. Has(e, d) = Has(d, d)
      BY <2>1, <3>2 DEF MeshInv, NothingLeft
    <3>4. QED
      BY <3>3 DEF Has, Count, Stored
  <2>2. QED
    BY <2>1 DEF NothingForgotten, MeshInv, NothingLeft
<1>5. Inv => MeshForgetsNothing
  BY <1>4 DEF MeshForgetsNothing
<1>6. QED
  BY <1>1, <1>3, <1>5, PTL DEF MCSpec

=============================================================================
