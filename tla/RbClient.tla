------------------------------ MODULE RbClient ------------------------------
(***************************************************************************)
(* The TypeScript clients of the tracker: every device has one Db with one *)
(* variable that all have from the start (the root directory). The Db      *)
(* stores what changes, binds the variable once it is logged in, sends     *)
(* changes to the devices it is linked to, and answers the tracker, which  *)
(* asks one bound device to bring a newcomer up to date.                   *)
(*                                                                         *)
(* Messages between devices go through data channels made with             *)
(* ordered: false, and wait in the connection until it opens: they arrive  *)
(* once, at any time, in any order. Messages with the tracker keep theirs. *)
(* Sessions says which devices take part, how many times each edits, and   *)
(* whether the tracker has to link them;                                   *)
(* MaxDate bounds their clocks.                                            *)
(***************************************************************************)
EXTENDS RbPatches

CONSTANTS Sessions, MaxDate

VARIABLES edits,    \* how many times each device will edit
          item,     \* the log of each device (DbItem.patch_manager)
          disk,     \* what its storage has
          db,       \* its Db: logged in, variable bound, to send, to store
          binds,    \* bind_obj on their way to the tracker
          bound,    \* the devices the tracker has bound, in order
          updates,    \* req_inode_updates on their way to each device
          channel,  \* changes on their way
          refused,  \* the devices that threw on a message
          claimed   \* whether a device was said to know what the one that is asked has not
clientvars == <<edits, item, disk, db, binds, bound, updates, channel, refused, claimed>>

LinkedLog(d, devices) == [NewLog EXCEPT !.ext = [e \in devices \ {d} |-> Nobody]]
\* A session where all the devices are linked from the start, as those of the
\* tests are (tpc.ts), needs no login and no tracker.
ClientInit ==
    \E s \in Sessions :
    /\ edits = s.edits
    /\ item = [d \in Machines |-> IF s.linked THEN LinkedLog(d, DOMAIN s.edits) ELSE NewLog]
    /\ disk = [d \in Machines |-> [known |-> Nobody, patches |-> {}]]
    /\ db = [d \in Machines |-> [logged |-> s.linked, bound |-> s.linked,
                               toSend |-> ~ s.linked, toStore |-> ~ s.linked]]
    /\ binds = {} /\ bound = <<>> /\ updates = [d \in Machines |-> <<>>]
    /\ channel = {} /\ refused = {} /\ claimed = FALSE

Present == DOMAIN edits
\* Date.now(), of which only a patch that is made keeps something.
Now(d) == IF item[d].typed THEN 0 .. MaxDate ELSE {0}
ChangesTo(from, to, log) == [from |-> from, to |-> to, msg |-> Changes(log, to)]
\* A message without patches is not sent.
Packets(from, to, log) == IF ToBeSent(log, to) = <<>> THEN {} ELSE {ChangesTo(from, to, log)}

\* The variable is modified: the Db has something to store and to send.
Edit(d) ==
    /\ ~ item[d].typed /\ edits[d] > 0
    /\ edits' = [edits EXCEPT ![d] = @ - 1]
    /\ item' = [item EXCEPT ![d].typed = TRUE]
    /\ db' = [db EXCEPT ![d].toSend = TRUE, ![d].toStore = TRUE]
    /\ UNCHANGED <<disk, binds, bound, updates, channel, refused, claimed>>

\* send_stuff: the first time, the variable is bound with the clock as it is
\* then; what each linked device is not taken to know is sent to it.
SendStuff(d, logged) ==
    \E now \in Now(d) :
        LET linked == DOMAIN item[d].ext
            log == IF linked = {} THEN item[d] ELSE Freeze(item[d], d, now)
        IN  /\ item' = [item EXCEPT ![d] = FoldSet(LAMBDA e, l : AfterChanges(l, e), log, linked)]
            /\ channel' = channel \cup UNION {Packets(d, e, log) : e \in linked}
            /\ db' = [db EXCEPT ![d].logged = logged, ![d].toSend = FALSE, ![d].bound = TRUE]
            /\ binds' = binds \cup (IF db[d].bound THEN {} ELSE {[dev |-> d, known |-> item[d].clock]})
            /\ UNCHANGED <<edits, disk, bound, updates, refused, claimed>>
\* The answer to the login sends what waits, then the timer does.
LogIn(d) == ~ db[d].logged /\ SendStuff(d, TRUE)
TimeToSend(d) == db[d].logged /\ db[d].toSend /\ SendStuff(d, TRUE)

\* The item is stored, by the timer.
TimeToStore(d) ==
    /\ db[d].toStore
    /\ \E now \in Now(d) :
          LET log == Freeze(item[d], d, now)
          IN  item' = [item EXCEPT ![d] = log] /\ disk' = [disk EXCEPT ![d] = StoreLog(@, log)]
    /\ db' = [db EXCEPT ![d].toStore = FALSE]
    /\ UNCHANGED <<edits, binds, bound, updates, channel, refused, claimed>>

\* The tracker asks the first device that is bound to update the new one.
TrackerBinds ==
    \E b \in binds :
        /\ binds' = binds \ {b}
        /\ bound' = Append(bound, b.dev)
        /\ updates' = IF bound = <<>> THEN updates ELSE [updates EXCEPT ![Head(bound)] = Append(@, b)]
        /\ UNCHANGED <<edits, item, disk, db, channel, refused, claimed>>

\* recv_req_inode_updates.
UpdateAsked(d) ==
    /\ updates[d] # <<>>
    /\ \E now \in Now(d) :
          LET req == Head(updates[d])
              log == Freeze(KnownBy(item[d], req.dev, req.known), d, now)
          IN  /\ channel' = channel \cup Packets(d, req.dev, log)
              /\ item' = [item EXCEPT ![d] = AfterChanges(log, req.dev)]
              /\ claimed' = (claimed \/ ~ IdsIn(req.known) \subseteq IdsIn(log.clock))
    /\ updates' = [updates EXCEPT ![d] = Tail(@)]
    /\ UNCHANGED <<edits, disk, db, binds, bound, refused>>

\* recv_changes: what the sender does not know is sent back at once.
ReceiveChanges(p) ==
    LET d == p.to IN
    \E now \in Now(d) :
        LET r == AppChanges(Freeze(item[d], d, now), p.msg, p.from)
            back == r.ok /\ r.unk # {}
            moved == r.new # {}
        IN  /\ item' = [item EXCEPT ![d] = IF back THEN AfterChanges(r.log, p.from) ELSE r.log]
            /\ channel' = (channel \ {p}) \cup (IF back THEN Packets(d, p.from, r.log) ELSE {})
            /\ db' = [db EXCEPT ![d].toSend = @ \/ moved, ![d].toStore = @ \/ moved]
            /\ refused' = IF r.ok THEN refused ELSE refused \cup {d}
            /\ UNCHANGED <<edits, disk, binds, bound, updates, claimed>>

ClientNext ==
    \/ \E d \in Present : Edit(d) \/ LogIn(d) \/ TimeToSend(d) \/ TimeToStore(d) \/ UpdateAsked(d)
    \/ TrackerBinds
    \/ \E p \in channel : ReceiveChanges(p)
ClientSpec == ClientInit /\ [][ClientNext]_clientvars

-----------------------------------------------------------------------------
\* The clock of a log is its patches, each there once.
ClockOfLog(d) == /\ IdsOf(item[d].patches) = IdsIn(item[d].clock)
                 /\ Len(item[d].patches) = Cardinality(IdsIn(item[d].clock))

Precedes(d, p, q) == FindPatch(item[d].patches, p) < FindPatch(item[d].patches, q)
OneOrder ==
    \A d, e \in Machines :
        LET both == IdsOf(item[d].patches) \cap IdsOf(item[e].patches)
        IN  \A p, q \in both : Precedes(d, p, q) => Precedes(e, p, q)

\* The merges of a device end, and its variable shows the patches of its log, also
\* when one that both sides know comes between an unknown and a new one ("make
\* unk' (unk after std)", OtMerger.ts:139).
MergesEnd == \A d \in Machines : item[d].whole

\* As long as the merges end, the operations of every patch are written after the
\* patches that come before it in the log, and no others: what new_patch, unk_patch
\* and std_patch promise ("res = update of data (according to unk patches)",
\* OtMerger.ts:51). A device that binds the variable may know patches that the one
\* that is asked has not; this one then counts them as part of what it sends on.
WrittenAfterBefore ==
    MergesEnd => \A d \in Machines : \A i \in DOMAIN item[d].patches :
        item[d].patches[i].after = SetToBag(IdsOf(SubSeq(item[d].patches, 1, i - 1)))

\* Devices that hold the same patches show the same value, and show it after a
\* merge as if the patches had been made in this order: the logs have no hole,
\* give the patches in one order although their dates are rewritten where they
\* arrive, and, as long as the merges end, hold operations for their place in it.
\* PatchManager.ts:247.
CopiesAgree ==
    /\ \A d \in Machines : ClockOfLog(d)
    /\ OneOrder
    /\ ~ claimed => WrittenAfterBefore

\* The storage has the log, with the operations as the last merge left them,
\* whenever nothing is to be stored. PatchManager.ts:473.
StorageRight ==
    \A d \in Present : ~ db[d].toStore =>
        disk[d].patches = {item[d].patches[i] : i \in DOMAIN item[d].patches}
\* What is taken to be sent has arrived or is on its way, unless the device threw
\* on a message; and when nothing is to be sent, everything is. DbItem.ts:43.
Carries(p, id) == \E i \in DOMAIN p.msg.patches : p.msg.patches[i].id = id
SentArrives ==
    \A d \in Present : \A e \in DOMAIN item[d].ext :
        /\ \A id \in IdsIn(item[d].ext[e]) :
              Known(item[e].clock, id) \/ e \in refused \/ \E p \in channel : p.to = e /\ Carries(p, id)
        /\ db[d].logged /\ ~ db[d].toSend => IdsIn(item[d].clock) \subseteq IdsIn(item[d].ext[e])

\* The devices agree, and nothing of what one has done is lost on the way to its
\* storage or to the others. PatchManager.ts:247 and 473, DbItem.ts:43.
ClientsAgree == CopiesAgree /\ StorageRight /\ SentArrives
=============================================================================
