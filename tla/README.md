# A TLA+ model of AgencyDB

AgencyDB is a peer to peer database that stores operations rather than states.
Every `Db` keeps, for each variable it shares, a log of *patches*; patches made
in parallel are put in one total order by everybody, and each `Db` undoes and
redoes its log with operational transformation so that all end with the same
value. Around that core the repository holds an event loop with its
connections (raw, TLS, datagrams), a tracker that puts clients in touch, and
`RB/` (RiotBase), the same design in C++ and again in TypeScript, parts of which
are live. These modules
model the core first, then the protocols and the structures around it. Paths
below are relative to the root of the repository (`PROJECT.json` writes them
from the directory above it).

## 1. Inventory

| Component | State | Operations | Modelled |
|---|---|---|---|
| Names and clocks (`src/ts/System/DevId.ts`, `PatchId.ts`, `VectorClock.ts`) | a clock: name of a device -> last patch number | `read_from` (renames), `update_patch`, `self_inc`, `contains` | `DbItem` |
| `DbItem` (`src/ts/Db/DbItem.ts`) | `patches`, `vector_clock`, `ext_states[].sent`, `modifications`, the variable | `new_modification`, `freeze_last_mod`, `get_changes`, `app_changes` | `DbItem`, `Db` |
| `Db`, `DbConn`, `DbConnToDb` (`src/ts/Db.ts`, `src/ts/Db/`) | `items`, `connections`, `modified_items` | `bind`, connect, `send_changes`, `recv_changes` | `Db` |
| `OtMerger` (`src/ts/Core/OtMerger.ts`) | `cq_new`, `cq_unk` during one merge | `undo_patch`, `new_patch`, `unk_patch`, `std_patch` | `Db`, `TestOt` |
| String operations (`src/ts/LvString/OtWrapperStringOperations.ts`) | the text, the rights, read offsets in two operation buffers | `Insert`, `RemUnd` (a registered `Remove`), the rights given and withdrawn; undo; every pair of transformations | `StringOt`, `StringPairs` |
| Directory operations (`src/ts/LvDirectory/`) | entries, rights | `SetVal`, `Delete`, rights; undo (of rights only) | `DirectoryOt` |
| `test_ot` (`src/ts/Test/test_ot.ts`, `test/test_LvString.ts`) | the phase of the test | edits in parallel, every `Db` sends in turn, compare | `TestOt` |
| `RegCallbacks`, `OtWrapper.sig_change` | pending callbacks, an armed timer | `add`, `call_all`, `on_change` | `RegCallbacks` |
| `TrackerConn` (`Tracker/TrackerConn.ts`) | buffer, timer, WebSocket state | `submit`, `onopen`, timer | `TrackerConn` |
| Event loop (`src/ts/EvLoop/EvLoop.cpp`, `Event.cpp`) | flags, deletion list, `nb_out_waiting`, sockets | `run`, `stop`, the events of the kernel, deletion, `CheckSent` | `EvLoop` |
| `TcpRawConnection`, `TcpSslConnection` | queues, the states of a TLS read and a TLS write | `inp`, `out`, `write`, `flush`, the end | `EvLoop`, `TcpSsl` |
| `UdpConnection`, `UdpSocket`, `MsgQueue`, `CycleEndedList` | queued datagrams, the list of the connections that wait | send, receive, `out`, `clear( op )` | `Udp` |
| `Dns`, `Smtp` (`EvLoop/`) | cache, waiting requests; the step of a dialogue | `req`, `ans`; one step per answer | `Dns`, `Smtp` |
| Parser of the tracker (`Tracker/TlsConnectionTrackerParser.h`) | label, marks, counters, kept buffers | one packet at a time | `TrackerParser` |
| Tracker server (`RB/.../Tracker/Tracker.cpp`, `TrackerServerSession.cpp`) | sessions, objects and their devices, tokens, tasks | login, logout, bind, timers, deletion | `TrackerServer`, `TrackerUsers` |
| Identifiers (`RB/.../Tracker/Core/IdGenerator.cpp`) | the last date and a counter | `new_id`, restart | `IdGenerator` |
| WebSocket connection (`TrackerServerTcpConnection.cpp`, `ParseWebSocketMsg.h`, `ReadContHelpers.h`) | where in the request or in the frame the last packet ended | parse, answer, relay, frame | `WsConnection` |
| Numbers and strings in messages (`RB/.../System/BinStream.h`) | a buffer | numbers of variable length, identifiers, clocks | `BinStream` |
| Shared buffers (`CbQueue`, `CbString`) | buffers with counts, offsets | append, read, take a string, move | `Buffers` |
| `IntervalSet`, `SetOfPatchId` | sorted bounds | insert, remove, contain, unite | `IntervalSet` |
| `TimedTaskList` | a ring of slots | plan, cancel, execute late | `TaskList` |
| `Vec`, `DoublyLinkedCycleEndedList`, `KsAllocator` | cells, links, free blocks | grow, insert, remove; allocate, free | `Containers` |
| Strings of RiotBase (`OtWrapperString.cpp`, `Variable/Ot/OtWrapper.h`) | text, cursors, rights, log | insertions, removals, cursors; undo; merge | `RbString` |
| Strings of that client (`RB/ts/RiotBase/Variable/String/OtWrapperString.ts`, `Caret.ts`, `Variable/Ot/OtWrapper.ts`) | text, cursors, rights; `cq_unk` | `insert`, `remove_und`, cursors, rights; undo; merge; edition by a page | `RbTsString` |
| Log of a variable in the TypeScript client (`RB/ts/RiotBase/Variable/Ot/PatchManager.ts`, `OtMerger.ts`) | `patches`, `vector_clock`, `ext_states[].sent` | `freeze_last_mod`, `get_changes`, `app_changes`, `update_known_patches_for`, `get_added_or_changed_patches` | `RbPatches` |
| `Db`, `DbItem`, `PersistentData` of that client (`RB/ts/RiotBase/Db/`) | items to send and to store, their timers and flags, the storage | change, login, send, store, answer the tracker, receive | `RbClient` |
| `TrackerClient`, `PeerConnection` (same directory) | a web socket, two connections per peer, buffers, commands that wait | send, open, offer, answer, receive | `RbPeers` |
| Symbolic compiler, generators, dispatch, other containers, `Db` of the C++ RiotBase | | | no, see section 8 |

How they interact. A user operation goes through the wrapper of the variable,
which applies it and calls `DbItem.new_modification`; the first one registers
the item in `Db.modified_items`. `Db.send_changes` walks over its connections;
for each, `get_changes` freezes the pending modifications into a patch, takes
what the destination was not sent and *records it as sent before it is
delivered*. `DbConnToDb` calls `recv_changes` of the other `Db` directly: a
reception runs to its end inside the sender's loop, and may throw through it.
`app_changes` freezes the receiver's own modifications, checks the clock the
message is based on, inserts the patches it lacks at their place in the order,
and merges: patches are undone from the end to the first one inserted, then
applied again, each transformed against what the other side did not know
(`cq_unk`) or what has just arrived (`cq_new`). A change of a variable registers
the callbacks of its watchers for one later pass.

In the C++ part everything is called from `EvLoop::run`: the kernel reports what
happened to a descriptor, the loop calls `inp` or `out` of its event, and an
event that has ended is put in a list and deleted after the round. A TLS
connection sits on the raw one; a WebSocket connection of the tracker parses
what comes in with a state that outlives packets and calls the session of its
client, which registers tasks in the timed lists and messages in the
connections of other sessions. `Dns` and `Smtp` are clients of the same loop.
Bytes stay in reference-counted buffers shared by queues and strings.

The TypeScript client has one log per variable. A change lists the item to be
stored and to be sent, each by a timer; the first sending binds the variable at
the tracker, which asks one of the devices that have bound it to bring the
newcomer up to date from what it says it knows. A device that has been sent
patches, or has received some, is sent every later one; a message from a device
that lacks some is answered at once. Devices speak through data channels whose
offers and answers the tracker passes on.

What is hard. Nothing runs in parallel inside one program, so there are no data
races; what is hard is the order of things. In the core: patches that arrive
through a third device, twice, or dated by a clock that is ahead; local
modifications pending while a message comes in; items bound late; an exception
halfway; rights withdrawn while another device uses them; and the arithmetic of
the transformations, whose wrong results stay unseen until a later merge undoes
them. Around it: a packet that ends at any byte; a socket that fills in the
middle of a write or of the walk that empties a list; a connection that ends
with data still to go; a TLS read that needs a write and the reverse; a task
executed late; a client that leaves between a request and its answer; a restart
of the tracker; buffers whose owner changes. `PROJECT.json` lists these hazards
line by line, each with the properties about it.

What makes each component correct: a clock says exactly what the log holds;
logs are sorted and two devices agree on the order; a merge marks rightly what
the sender does not know; nothing that was modified is forgotten; every patch
arrives; undoing a patch restores what it changed; two parallel operations give
one result; and the end of it all, the values are the same everywhere. An event
is deleted once, after its data went out; what waits is listed and served; a
parser calls the same whatever the packets; a buffer is kept as long as someone
reads it and no longer; a name is asked once and answered once; a session ends
when its client, its token and its tasks have, and its peers hear of it; two
identifiers are never the same; a detailed structure does what the plain one
it stands for does.

## 2. Modules

| Module | What it is |
|---|---|
| `DbItem` | names, renaming, clocks, as operators; the state of one item in each `Db`, and the parts of `freeze_last_mod`, `get_changes`, `app_changes` as operators |
| `ReplicatedLog` | abstract: logs that grow by one patch at a time and are in one order |
| `Db` | EXTENDS `DbItem`: the group of `Db`, the thread, one action per operation or loop iteration; the properties. Implements `ReplicatedLog` |
| `StringOt`, `DirectoryOt` | the transformations of strings, with rights, and the operations of directories, as operators |
| `StringPairs` | EXTENDS `StringOt`: one operation each by two users on one string, and the merge of the two |
| `TestOt` | composes `Db` with `StringOt` and drives them as `test_ot` does |
| `RegCallbacks`, `TrackerConn` | the deferred callbacks; the connection of a page |
| `EvLoop` | the loop, its raw connections, the timers, and what the kernel and the program may do meanwhile |
| `TcpSsl` | one TLS connection, its thread, and the peer |
| `Udp`, `Dns` (EXTENDS `Udp`), `Smtp` | datagrams; the resolver over them; a mail |
| `TrackerParser` | the generated parser, label by label, with its marks and kept buffers |
| `TrackerServer` | EXTENDS `TimedTasks`: sessions, devices of the objects, tokens, timers |
| `TrackerUsers`, `IdGenerator` | the requests for one user name, and the identifiers, with restarts |
| `BinStream`, `WsConnection` (EXTENDS `BinStream`) | numbers and strings as bytes; the commands and frames of a WebSocket connection |
| `ByteQueue`, `PatchSets`, `Agenda` | abstract: queues of bytes that share nothing; sets of patch numbers; tasks with their dates |
| `Buffers`, `IntervalSet`, `TaskList` | what implements them: shared counted buffers; lists of bounds; a ring of slots. Each is shown to implement its abstract module by INSTANCE with a refinement mapping |
| `TimedTasks` | a list of timed tasks, as operators: plan, cancel, execute. `TaskList` and `TrackerServer` use it |
| `Containers` | a vector, a list, an allocator |
| `RbString` | the C++ strings and their merger, as operators |
| `RbTsString` | the strings of the TypeScript client and their merger, as operators; the edition by a page as actions |
| `RbPatches` | the log of a variable of the TypeScript client and its merges, as operators |
| `RbClient` | EXTENDS `RbPatches`: the clients, their storage, the tracker that asks one to update another, the messages |
| `RbPeers` | how two clients come to talk, and what their commands go through |
| `MC...` | the instances for TLC. `MCTestOt`, `MCStructures`, `MCTracker`, `MCRiotBase` hold parts that share no state: a variable `part` says which one moves, so that each is explored alone, and one run asks of all. `MCEvLoop` does the same with the loop and the TLS connection |
| `DbProofs`, `DbSentProofs` | theorems about `Db`: types, the shape of logs, the clocks, the order and the refinement of `ReplicatedLog`; then, on these, what devices know of each other (`DbSentProofs` also on `MCDb`, for the groups that are connected from the start) |
| `StructuresProofs` | the identifiers are unique; users keep theirs; what a page submits arrives; changes reach the callbacks; a vector, a list and an allocator do what they stand for |
| `StringProofs` | two concurrent operations on a string, of any length, are merged rightly |
| `TimersProofs` | the ring of timed tasks implements `Agenda`; the sessions of the tracker end in time, for a reason, and are told of each other |
| `RiotBaseProofs` | the interval sets implement `PatchSets`; datagrams, lookups, the commands between two clients and a mail get where they should |
| `EvLoopProofs` | theorems about the event loop, its deletions and its count, and about the output of a TLS connection |

### The core

One item is modelled in each `Db`, as items share nothing but `modified_items`.
The operations on the variable are constants of `DbItem` (`LocalOps`,
`UndoData`, `NewData`), as the code reaches them through the wrapper; `MCDb`
gives them no effect, `TestOt` gives them those of `StringOt`. The local device
is `Loc` inside each `Db` and the message is renamed by its reader, as
`DevId.read_from` does. The call stack is the variable `pc`:

| `pc` | place in the code | actions |
|---|---|---|
| `idle` | the application | `Edit`, `Bind`, `Connect`, `SendChanges`, `Tick` |
| `send` | loop over the connections, `Db.ts` | `GetChanges`, `EndSend` |
| `deliver` | entry of `recv_changes` | `DropChanges`, `RejectChanges`, `AcceptChanges` |
| `read` | loop that reads the patches | `ReadPatch`, `EndRead` |
| `undo` | undo loop | `UndoPatch` |
| `merge` | merge loop | `MergePatch` |

Positions start from 1. Messages are the set of the patches they carry: for one
device they are read in the order of their numbers, and the order of the devices
(insertion order of a JavaScript object) is any. The date is the true time plus
a constant skew per device; time passes when no loop is in progress that does
not read it. Merges of items (`TODO` exceptions in the code) and the bytes of
messages are left out. In `StringOt` a document is a text with the rights of
its user, a buffer of operations is a sequence, and the reader that outlives its
buffer is kept. There is one user, the local one: the code writes no other
(the user of a `Db` is null, and reading another user back throws). In
`DirectoryOt` the values of entries are opaque and a merge leaves in the
directory what an undone patch has set, as the code does.

### The loop and its connections

An action of `EvLoop` is one call the loop makes for one event, with all it does,
or one step of the kernel (a byte arrives, a buffer empties, a connection is
established or refused, a timer expires) or of the program (write, flush, end,
stop). The kernel's queue has `Space` chunks and data is counted in chunks.
`TcpSsl` is the state of one `TcpSslConnection`: `state_SSL_read`,
`state_SSL_write`, the records in each direction; the TLS library is external and
answers `wants_inp` or `wants_out` as a handshake allows. In `Udp` and
`Dns` one socket carries the datagrams of all the connections; addresses are
model values and names may have none, their own, or be an alias. In `Smtp` an
answer is its code and the mails are short sequences over what the code tells
apart: a dot, an end of line, anything else.

### The tracker

`TrackerParser` names the labels of the generated automaton (`data.at`): an
action examines one byte at one of them, or takes the end of a packet there, and
`Packet` delivers the next one, of a size of `Sizes`. A stream is a sequence of
bytes in which each keyword is cut to two letters; only well-formed streams are
sent, because what the parser says of a string that runs past its frame depends
on the packets. The handlers are what `calls` records. `TrackerServer` has one
action per command of a client (`Login`, `Logout`, `BindObj`, `LoadObj`), for a
connection that comes and goes (`Connect`, `Close`), for a second that
passes (`Second`) and for each of the two timers, which may be late (`Timer1s`,
`Timer1h`): `Timer1s` is all that one call does, the alive_checks that have come and the
deletion of every session registered before it. `TrackerUsers` has the
requests and the restarts of the tracker. In `WsConnection` a step is one packet
received to its end (`Receive`), one message relayed from another session
(`Relay`), or one chance to write (`Out`); it has the bytes of the frames, because
its properties are about them, and the limits `OneByte` and `TwoBytes` stand for
125 and 65535 so that all three forms of a length occur in short messages.

### The structures

A state of `Buffers` is the buffers with their counts and links, and the queues
and strings that point into them, as the code has them; the mapping to
`ByteQueue` reads each queue from its first buffer to its last. `IntervalSet`
maps to the set of numbers between its bounds; `TaskList` to the date of each task.
The slots of a timed list are sets of tasks: nothing depends on the order of the tasks
of one slot, and a task is removed from its slot before it is put anywhere.
`Careful` in `Buffers` restricts the program to calls on which the code is
right, listed in section 3: with `FALSE` the invariant on the last buffer fails.

### The TypeScript client

A log of `RbPatches` has the patches with their numbers and dates, and of their
operations only what they are written after (`after`, a bag of patches: those
there were when the patch was made, then those a merge took it through, each as
often as it did). That is what `new_patch`, `unk_patch` and `std_patch` change,
and what must be right for their arithmetic, which `RbString` models, to be
applied to the right operations. `ReadPatch` is one turn of the loop of
`app_changes`, `MergeOne` one turn of its second loop, `AppChanges` the whole,
with the places where it throws. Devices are numbers, ordered as their global
names are; the log names the local one otherwise, which changes no order.

An action of `RbClient` is a timer, a command received, or a change by the user.
Messages between devices form a set: the channels are made with
`{ ordered: false }`. An exception leaves what was done (`refused`). The lines of
`RbPeers` are what both a web socket and a data channel have: closed, commands
wait in `pending`; open, in the buffer a timer sends. ICE, and the opening of a
channel once each side has its descriptions, are external.

## 3. Runs

| Run | Instance | Shows |
|---|---|---|
| `pairs` | 2 devices, 2 patches each, 1 tick: connected both ways, or one bound and no connection at first | types; clock = log and sorted logs at every step, also when changes are dropped or rejected; when connected from the start, nothing forgotten and every patch arrives |
| `groups` | 3 devices in a chain that may also connect directly, 1 patch each, the first clock 2 ahead, 2 ticks | one order for all; bases known; served devices up to date, relayed patches included; marks right; the logs do what `ReplicatedLog` promises |
| `strings` | 3 `Db` of one clock, one insertion or one change of rights each in parallel; every pair of concurrent operations on texts of up to 5 characters, with the rights of the user in 5 states; pairs of directory patches; for the strings of `RB/ts`, pairs of one operation on texts of 1 to 3 characters with one cursor, and a page that types 5 characters | same text and rights everywhere; logs undo to the creation of the text; the pairs the transformations get right, in both orders; a copy that receives what the page sends has its text and cursors |
| `evloop` | an outgoing and an accepted connection with the timer of those that wait; one TLS connection | the deletion list is sound, waiters are counted, data goes out before the end; what was asked to end ends, what is written is sent, what arrives is read |
| `structures` | buffers, intervals, identifiers, tasks, users, callbacks, the connection of a page | three refinements; buffers kept while used; no identifier twice; users kept over restarts; changes seen by callbacks; the page's messages arrive once, in order |
| `tracker` | 11 streams cut into packets of 1, 2, 3 or 16 bytes; 2 sessions and an object | the parser calls what the grammar says and keeps exactly the buffers it needs; sessions, devices and tokens end in time and for a reason, but for the session of a client that logs in after a logout; peers hear of each other |
| `riotbase` | pairs of patches of the C++ strings; a WebSocket connection with 7 clients; numbers; datagrams; names; mails; a vector, a list, an allocator; two clients that edit twice each, two that edit once each and one that listens, through the tracker; three that are linked; two that connect to each other | both sides converge, undo restores; what is sent is understood, both ways, up to the first pong or close of the server; nothing asked of the network is forgotten or done twice; containers hold what they are given; logs give one order, hold operations for it, and are stored; what is taken to be sent arrives; commands reach the other side once |
| `lost_base`, `string_skew`, `ssl_stall`, `unk_std`, `early_bind` | small instances | the code against what it says of itself, below |

Deadlock is not checked: every run stops when its bounds are used up, and a
part that only makes one choice stops after it.

Findings, each a counterexample TLC gives:

* `lost_base`. `get_changes` records as sent what the destination may drop
  because it has not bound the item yet. The next message is based on it, and
  `app_changes` throws for every message after.
* `string_skew`. `OtMerger.std_patch` writes nothing: it takes for impossible
  (`OtMerger.ts:121`) a patch known on both sides, which a merge meets whenever a
  received patch is ordered before a patch both hold. `app_changes` stores that
  nothing as the patch, the operation is lost on one device, and three `Db` end
  `test_ot` with different strings if one clock is ahead. In `strings` the clocks
  are equal and the `Db` send in the order of the log, so that this does not
  happen.
* `ssl_stall`. A TLS write that wants to read waits for `inp`. If the record it
  waits for arrives between that write and the read of the same round, the read
  takes it, and the write is never tried again if the peer says nothing more.
* `unk_std`. `OtMerger.std_patch` calls `op_unk.reg_op` (`OtMerger.ts:144`), which
  no operation has: it throws when a patch that both sides know is merged after one
  that only the receiver knows. Two clients are enough, one that makes one edit
  while the other makes two. What was inserted in the log stays, with operations
  that are merged up to there; the variable shows neither state; the message is
  never sent again. `whole` says that no merge of a log ended so, and
  `WrittenAfterBefore` is about the merges that end; the order and the numbers of
  `CopiesAgree` hold in any case.
* `early_bind`. A client edits a variable, stores it (which makes the patch), logs
  in and binds it: the tracker passes its clock to a client that has bound it
  too, which adds it to what it takes the newcomer to know. The base of its
  message (`PatchManager.ts:190`) then has patches it does not hold itself. The
  newcomer does not count these as unknown to the sender (`:291`), and merges
  without taking either side through the other: the same patches, in the same
  order, with operations written for another one.

Met while modelling, and shown by no run: the models restrict themselves to the
other cases, or make the step and the property says what it leaves out:

* Core. Two removals that overlap, the other starting no later, keep the wrong
  part of the text (`OtWrapperStringOperations.ts:302`): two users who remove one
  same character remove two; the test of overlapping removals passes because the
  overlap there is half of the text. `new_patch` resumes the second part of a
  split removal at an offset of the buffer that has been replaced (`:98`), and
  may loop for ever. An insertion strictly inside a removed text is transformed
  in two ways that differ. `UNK` marks that a message without anything new leaves
  behind stay (two patches per device and a late bind break `UnkIsUnknown`).
  `send_changes` without a connection empties `modified_items` and leaves the
  pending modifications unregistered. A `SetVal` of a directory that is refused
  when it is merged, because the right was withdrawn in parallel, stays on the
  device that made it.
* Deferred calls. A callback that throws leaves the list full and nothing armed;
  the timer of `TrackerConn` is never reset, so that what is submitted after it
  fired stays in the buffer.
* Loop. `wait_for_data_to_be_sent` calls `run`, which returns only if something
  calls `stop`; `nb_out_waiting` may stay too high.
* Buffers. `CbString` of a cleared queue leaks; a moved empty queue or a crunched
  one leaves `end` wrong; a substring retains buffers it does not read. `clear`
  keeps a buffer it empties, and a `write_cont` larger than that buffer, or a
  move into that queue, leaves it in front of the bytes: `read_byte`
  (`CbQueue.h:87`, `CbString.h:68`), called after a test of `beg` only, then
  returns a stale byte. `Careful` excludes the calls that lead there.
  `IntervalSet::operator==` compares with an iterator of the wrong set
  (`IntervalSet.h:61`).
* Tracker. `cur_time_div` multiplies by the unit where it should divide, and the
  list of tokens has one slot: a token ends at the next hourly pass although it is
  "invalid after 24 hours" (`Tracker.cpp:169`). `login` (`Tracker.cpp:141`) does not
  ask whether its session is in `sessions_to_del`: a client that logs out and then
  logs in, on the same connection and before the next `timer_1s`, is registered,
  and its session is deleted without leaving `sessions`. `Login` makes this step,
  `returned` notes such sessions, `SessionsEnd` allows these in `sessions` and no
  other, and the server stops (`Defined`) once one of them is deleted there:
  `boost::intrusive` asserts, or the next search follows a dangling pointer. A
  second login on one connection leads there too and is not modelled. Relaying to an
  absent device asserts.
* Tracker parser. A string that is longer than its frame is refused when the frame
  comes in one packet, and read past it when it comes in two: the second buffer is
  walked without a test of the end of the frame (`TlsConnectionTrackerParserCb.h:143`
  and `172`). No such stream is sent.
* WebSocket. `websocket_connection_close` and `websocket_ping` write a whole control
  frame in `cw` (`TrackerServerTcpConnection.cpp:300` "opcode close", `:313` "opcode
  pong"), which `frame_cw` (`:228`) then puts in a binary frame, with the messages
  of the same call: the client gets neither a close nor a pong, but bytes it takes
  for commands. In `said` such a frame is `Control`, which is not a byte and is
  never received; `AnswersRight` is about the messages before the first one.
* Text formats. A signed byte from 64 on is misread; a packet that ends right
  after the masking key of a frame (`TrackerServerTcpConnection.cpp:158`) makes the
  parser point past its buffer: `Receive` does not cut there.
* C++ strings. Undoing the removal of a cursor gives it to the user who undoes;
  a patch whose operations are all void or refused loses what was unknown,
  because reading `cq_unk` consumes it (`OtWrapper.h:357`).
* Datagrams. `clear( op )` (`CycleEndedList.h:93`) empties the list of the
  connections with queued datagrams after it called each: one that is refused
  again registers itself meanwhile, and the list is emptied over it. It is marked
  as listed, never served, and `DatagramsKept` says no more of it than that it
  keeps its datagrams.
* TypeScript strings. Users and devices are compared by identity (`===` between
  `DevId` or `UsrId` objects), so that an operation read from a message is never
  the local user's and nothing is ever voided on that ground. A patch whose
  operations are void or refused leaves `cq_unk` as it was. `set_cursor_und.valid`
  has one parameter too many, and `unk` and `std` call `right` with their arguments
  in one array: a user who may only append is refused there and the sides
  diverge, which is why no such right is in the pairs. `reverse_patch_data_visitor`
  reads at indices of the operations where those of the buffer are meant, so that
  undoing two operations at once is garbled. `remove`, `set_cursor` and `rem_cursor`
  cannot be undone, and no client makes them. A `remove_und` covered by another one
  throws. The cursors a merge brings have no user, and `old_carets` is not moved
  by the text. `std_patch` throws as soon as `cq_unk` holds something and the result
  does too (the run `unk_std`), so that its transformations are checked as functions; an
  insertion at the very place of an unknown one is off by one there (`Clear`
  excludes it).
* TypeScript client. `to_be_sent.sort()` (`PatchManager.ts:181`, "ok because we work
  on indices") sorts numbers as texts: from eleven patches on they go out of
  order, and the receiver throws in the middle. `TextBefore` has it, the bounds
  do not reach it. A message that comes before the one it builds on throws and is
  never sent again. `update_VectorClock` goes twice through the patches and never
  through the merges, `nb_unk` counts the patches twice instead of the merges
  (`:421`), and two calls pass `args_unk` and `args_std` to `right` without
  spreading them (`OtMerger.ts:95,128`). `waiting_changes` is filled and never read.
  `recv_bind_obj` does nothing and an empty message is not sent: a newcomer does
  not know of the one that was asked, and sends it nothing, before it hears of it.
  `PersistentData` reads patches back in the order of their keys, which are texts.
* Resolver and mail. A query has no timeout and an alias ends the reading of its
  answer; `QUIT` is answered 221 and tested against 250, so that no mail is ever
  reported as sent.

## 4. Bounds

Core. `MaxPatches`, `MaxOps`, `MaxNow` stop patches, grouped operations and time.
Two patches each on two devices is enough for a patch to be made while another
is being received, for a message to carry what the sender got from the
receiver, and for a patch to be inserted before one that both hold. Three
devices are needed for a patch that arrives relayed, or again from its author,
and for `SameOrder` to compare foreign names; one patch each keeps these runs
small, and the skew of 2 with 2 ticks lets the dates of concurrent patches be
in any order. In the pairs of string operations, five characters and texts of one
or two inserted ones give every relative position of two operations. `TypeOK`,
`ClockMatchesPatches`, `ImplementsReplicatedLog`, `PatchesSorted`, `SameOrder`, `BaseIsKnown`,
`ServedAreUpToDate`, `UnkIsUnknown` and `PairsMerge` are also proved without bounds, and of the
structures and of `riotbase` `IntervalsApart`, `ImplementsPatchSets`, `ImplementsAgenda`,
`ContainersSound`, `LookupsServed`, `CommandsReach` and `MailRight`: their bounds below only
keep the runs short.

Loop. Two connections are the least for one to end while another waits in the
deletion list, one chunk in the kernel is enough for a socket to be full, and two
timers are the most there are at once, one in use and one that ends (proved).
`DeletionsListed`, `WaitersCounted`, `ClosedAfterSent` and `OutputHasReason` are also proved without bounds. The TLS handshake takes two
records, so that a read and a write may each wait for one. Two addresses and a
socket of two datagrams let the socket fill again while a list of two is
emptied; more datagrams repeat this.

Tracker. Packets of one byte stop the parser at every label, those of 16 bytes
hold several items at once, and 2 and 3 put an end in the middle and at the end
of each. `AliveDelay`, `Hour`, `Day` are 2, 2 and 4 seconds, which keeps the order
of the three lists and lets each be executed late (`Late`). Two sessions are a
client and its peer; the sessions are symmetric and no liveness is checked there.

Structures. Buffers of two bytes with three bytes written give queues of several
buffers with one that is not full; `MaxUse` bounds the counts. Six numbers hold
three intervals that do not touch. Three tasks on a ring of five slots, delays
and lateness of 2, and 11 units of time go twice round. The fields of an
identifier are 3, 2 and 8 wide instead of 2^10, 2^12 and 2^42: the counter of a
millisecond is used up, and the date does not wrap (`GeneratorAssumption`, true
for 139 years). The chunk of the allocator holds three small blocks, or one large
one.

C++ strings. Patches of two operations on texts of three characters give every
order of two positions and an operation transformed twice. Numbers go from 0
to 130 and around the powers of two at which a byte is added.

TypeScript strings. A text of three characters has a place before, in and after a
removal of one or two; one cursor is before, at or after each; three lists of
carets and five typed characters let the page group, move and split what it sends.

TypeScript client. Two devices that edit twice each meet everything between two
of them: a patch made during a merge, one stored and changed afterwards, a
newcomer that knows more or less than the one that is asked. The third device
that listens is brought up to date by one and sent by the other. Three linked
devices, two of which edit, give a patch that comes from its author and through
another, before or after a concurrent one. `MaxDate` of 1 lets clocks disagree
either way. Two commands a side wait in different connections, or in one and in
its buffer.

## 5. Fairness

`pairs`, `evloop` and `ssl_stall` state fairness; no other run claims that
anything happens.

* `Db`. `WF_vars(Run)`: a JavaScript call goes on until it returns.
  `WF_vars(SendChanges(d))`: no code of `src/ts` calls `send_changes`; the test
  harness does, for every `Db` in turn, and the liveness property is about an
  application that keeps doing so. `Edit`, `Bind`, `Connect` and `Tick` are never
  forced. `PatchReachesAll` is only claimed where every device has bound the item
  and is connected from the start (`MeshReachesAll`): `lost_base` shows that it is false otherwise.
* `EvLoop`. `WF_vars(Loop)`: the thread runs, and `epoll_wait` returns when
  there is something. `Expired(t)`: a timer of the kernel expires. `Acked(c)`: the
  peer takes the data or the connection is reset, as TCP promises;
  `Established(c) \/ Refused(c)`: a connection attempt has an outcome. That the
  peer sends, closes or resets, and that the program writes or stops, is never
  forced.
* `TcpSsl`. `Thread`, `HandshakeArrives`, `Acknowledged` likewise. Data, requests
  to handshake again and the end are not forced: `EventuallyWritten` fails because
  a silent peer is a lawful one.

## 6. Proofs

The theorems about `Db` are for any set of devices, connections, clocks, bounds,
and any type of variable that satisfies `DocClosed` (`DbProofs`): its operations
stay in `Op`, its values in `Doc`. The constants satisfy `DevAssumption`,
`SkewAssumption` and `GroupAssumption`.

* Logs (first part of `DbProofs`): what each helper does to a log. The code changes a log in two
  ways only: it rewrites patches in place (`SameKeys`), or it puts one in
  (`Added`). `InsertionIndexIs` and `FrozenIs` are the two that say where.
* `DbProofs`: `TypeCorrect` (`Spec => []TypeOK`) from the inductive
  `TypeInv == TypeOK /\ Thread`. `Thread` is needed because the loops index the
  log and take the head of the connections: it says these exist.
  `HistoryIsKept` (`Spec => HistoryKept`) follows from `LogStep`, by which every
  step changes each log in one of the two ways.
* Clocks (`DbProofs`): `ClockIsRight` (`Spec => []ClockMatchesPatches`).
  `ClockMatchesPatches` is not inductive alone: `app_changes` inserts any patch
  whose number is above the clock, while `update_patch` silently refuses all but
  the next one. `Message` says why it is always the next one: a message holds,
  for each device, the patches after its base without a gap (from the same
  property at the sender), the base is known to the receiver (the test that
  throws), and for each device they are read in order. It also needs that no
  `Db` stores anything under its own global name, so that the names of two
  devices are never mixed up when a message is read (`ReadDevInjective`).
* Order (`DbProofs`): `LogsAreSorted` (`Spec => []PatchesSorted`) and `OrderIsShared`
  (`Spec => []SameOrder`), from `OrderInv == ClockInv /\ PatchesSorted /\ AllOrigin`.
  `Patch.sup` only compares causal numbers, dates and devices: two patches that
  tie would have no place in the log. `AllOrigin` is what excludes them: every
  patch, in a log or in a message, agrees on these with the one in the log of
  the device that made it, that log is sorted, so it never holds two patches with
  one causal number, and `ClockMatchesPatches` says that a patch the clock does
  not contain is not there already. `GrowsSorted` then says that adding a patch
  above what is before it and below what is after it keeps a log sorted. As all
  copies of a patch agree with one original, the order of one log is the order
  of every other (`OrderCarries`), whatever names the devices have in it.
  `LogIsReplicated` (`Spec => ImplementsReplicatedLog`) is the refinement, step by
  step. A `Db` keeps its patches under local names and works on a log in the
  middle of which a message is being read; the mapping `Logs` gives each patch its
  global name. Every handler that freezes its modifications does `Make`: the
  number is the next one by `ClockMatchesPatches`, and nobody can hold that patch
  already, as `AllOrigin` would have its author hold it. `ReadPatch` does `Learn`
  or stutters: that the patch is the next one the receiver lacks is `Message`, that
  its author holds it is `AllOrigin`, and that it goes where the others have
  it is `SameOrder` in the next state. Marks, undoing, merging and all that is sent
  are stutters. `HistoryIsKept` is then a consequence, proved earlier on its own.
* `DbSentProofs`, in a group where every device has bound the item
  (`InitBound = Dev`, what `test_ot` does before anything is edited). Without it
  nothing here is true: a message that is dropped is taken as sent, and the run
  `lost_base` shows what follows.
  - `NoMessageIsRefused` (`Spec => []BaseIsKnown`) and `ServedHoldAll`
    (`Spec => []ServedAreUpToDate`), from `SentInv == ClockInv /\ Serving /\ SentIsHeld
    /\ MessageIsWhole`. The base of a message is what its sender has recorded as
    sent to this destination, and `get_changes` records before anything is
    delivered: `SentIsHeld` says that what is recorded is held by the destination
    or is in the message on its way, that no device holds more patches of another
    than this one has made, and `Serving` that at most one message is on its way
    and that `todo` is the end of the connections. `MessageIsWhole` carries the
    fact over the reading: each patch the sender counts is held by the receiver or
    still in the message, so that the receiver counts them all when it is empty.
  - `MarksAreRight` (`Spec => []UnkIsUnknown`), from `MarkInv == SentInv /\ Fresh /\ Marks`.
    A mark is cleared by the merge that follows; a message without anything new
    does not merge and would leave them. `Fresh` says that there is none: a `Db`
    that sends to a device has made or received, since it last did, a patch that
    this device lacks. It supposes `OpsNotEmpty`: a registered operation is not
    empty (`OtWrapper.reg` writes it), otherwise `freeze_last_mod` makes no patch.
  - `NothingIsForgotten` (`MCSpec => []MeshForgetsNothing`, as `pairs` checks it), for
    several devices each connected to every other from the start (`MeshAssumption`
    of `MCDb`): a `Db` that has nothing in `modified_items` has made no patch
    that another lacks: the others are sent by the next call of `send_changes`. A device
    that only receives never sends on, which `Meshed` makes harmless: the author of
    a patch sends it to all.
* Identifiers (`StructuresProofs`): `IdentifiersUnique` (`MaxClock >= 1 /\ IdSpec => []IdsUnique`), for
  any width of the three fields, any number of trackers and restarts, under
  `GeneratorAssumption`: bases are below `BaseSize` and the clock below `DateSize`.
  `IdsUnique` says nothing of the next identifier; the inductive `IdInv` says that
  every identifier given has a date that is past or present, and, if present,
  that the generator of its tracker remembers this date and has a counter that is
  not below it. A restart forgets, which is sound because it takes longer than a
  millisecond: after it (`Restart` moves the clock) no identifier is of the
  present. `IdInjective` reads the fields
  back from the number, from the lemmas on quotients `Quotients` and `Fields`, and
  `GenerateIsNew` concludes.
* `EvLoopProofs`, for any number of connections, any sizes of the kernel's buffer
  and of what is written, any data received. The theorems suppose `TwoTimers`:
  there is memory for one `CheckSent` timer more than the one that is ending; the
  count also supposes a finite number of events.
  - `ListsAreRight` (`TwoTimers => (Spec => [](TwoLists /\ TimersRight))`). `TwoLists`
    gives the chain of `next_ev_to_del` that begins at `last_ev_to_del`, and the one
    that `run` is walking, as two functions `f` and `g` from positions to events:
    without repetition, disjoint, and with every event whose link is set.
    `TimersRight` is needed because a timer that ends is in these lists while a
    new one may be made: one at most is ending, and only while the lists are
    walked can both exist.
  - `ClosesAfterSending` (`TwoTimers => (Spec => []ClosedAfterSent)`). The deletion looks at
    what the kernel holds and not at what the program has still to write.
    `Unsent` says why this is enough: an event is registered for deletion either
    with an error or when it waits for nothing, and a connection that has data,
    is connected and has no error waits for room. `Connecting` says that it is
    connected whenever it is read: the first event of a new connection always
    has `EPOLLOUT`, and the loop calls `out` before `inp`.
  - `DeletionsAreListed` (`TwoTimers => (Spec => []DeletionsListed)`), the property of the run,
    by `TwoLists`: what is `Listed` from an event is the least set closed under
    `next_ev_to_del`, and the rest of a chain is that set (`ChainIs`), with one end (`OneEnd`).
  - `WaitersAreCounted` (`[]WaitersCounted`): every method of an event changes the
    count as it changes what this event waits for (`Balanced`), and a step of the
    deletions takes the event out of the count before it puts it in again.
  - `OutputHasItsReason` (`SslSpec => []OutputHasReason`), for any data, records and
    handshakes, from `SslInv == SslType /\ Shaken /\ WritesDue`. What a call of the
    library returns is in `CallIs`: one that wants to write leaves the socket full.
    `WritesDue` says that a write that wants room has none (`Stuck`), or that the loop
    has been told of some, or is about to call `out`, or will try again in this
    same call. `Shaken` says that no record of a handshake is behind another record,
    and that what is missing of the handshake is the records to come and the first one
    there. That a write waits for something does not make it end: `ssl_stall` shows one
    that waits for ever.
* Users (`StructuresProofs`): `UsersAreKept` (`UsersSpec => UsersKept`), for any names,
  requests and restarts. The count of users starts again at each restart while
  the data base goes on: `Counted` says that a user of the data base has the
  device number of an earlier start, or the present one and a number not above
  the count.
* Pages (`StructuresProofs`): `SubmissionsArrive` (`ConnSpec => []ServerGets`), for any number of
  submissions. `ConnInv` cuts `InOrderOnce` in two, what the tracker has (`First`)
  and what the buffer has (`Rest`), so that a step changes one end of it.
* Callbacks (`StructuresProofs`): `ChangesReachCallbacks` (`CallbacksSpec => []CallbacksDue`), for any
  variables, any finite set of callbacks and any number of changes. A pass reads a
  list that its own callbacks extend: `CallsInv` adds that `pos` stays in the
  list, and that `timeout` says whether a timer is armed: `call_all` clears it before it
  calls anything, so that what a callback adds arms the next one.
* Containers (`StructuresProofs`): `ContainersHold` (`ContainersSpec => []ContainersSound`), for items,
  blocks and chunks of any size and any calls within the bounds. `Holds`, `Linked` and
  `Heaped` are kept by the operations of the vector, the list and the allocator.
  `Linked` has the index of each node, so that `Without` says in one way what the four
  cases of `remove` do; `Heaped` has the sequence of the free blocks: a block is given
  exactly when it is not one of them, and `ChainIs` makes what a walk meets the set
  of its members. What a walk meets is the least set closed by the links (`Chain`), which is
  reasoned about without recursion. That blocks do not overlap comes from their
  addresses, a number of chunks and a number of blocks (`BlocksFit`, `BlocksDisjoint`).
* `StringProofs`: `PairsAreMerged` (`PairsSpec => []PairsMerge`), for any string, any texts, any rights.
  The invariant `PairsInv` only says that a pair is chosen among the operations that `tar`
  registers on the document (`OpsOnAre`): the work is in the merge, for every pair (`AnyPairMerges`).
  - An operation on a text is a regrouping of words: a text with an insertion is
    `Join` of the words around it and of the one put in between, and a removal is the same
    read backwards. Two operations cut the text into four words at most (`FourWords`), and
    each case is an equation between two ways to put the same words together
    (`InsertionBehind`, `RemovalsOverlap`, `ShownApart`, ...), with the positions as their lengths.
  - `new_patch` is a loop over offsets in two buffers. For one operation against one it
    makes two turns at most: nothing is done for want of the right (`NewRefused`), the
    operation is taken (`NewTaken`), or cut in two (`NewCut`), when an insertion falls
    inside a removed text.
  - `TwoInsertions`, `InsertionAfterRemoval`, `RemovalAfterInsertion` and
    `RemovalAfterOther` give what each pair becomes; `MergedRights`, `RightsUndone` and
    `RightsInAnyOrder` the pairs with a change of rights.
  What the statement leaves out are the cases of section 3 in which the code is wrong or the
  order matters: they are conditions on the two operations, not on their sizes.
* `TimersProofs`, for any tasks, sessions and objects, any delays and any late
  executions within the assumptions: the ring is longer than the longest delay and
  the longest time between two executions together (`RingAssumption`; 60 slots for
  delays of 5 in the tracker), and an hour and a late timer are within a day
  (`ServerAssumption`).
  - `RingIsAgenda` (`TaskSpec => ImplementsAgenda`) and `PlannedInOneList`
    (`TaskSpec => []InOneList`), from `TaskInv`. That a task is in one slot does not say
    in which: the invariant that carries over is `Timely`, by which each slot holds
    exactly the tasks whose date is as far from the last execution as the slot is
    from `off_last_exe`, round the ring. `AddIs`, `ExecIs` and `DesactivateTimely` say that each
    operation keeps it and what it does to the dates; `ExecutedIs` that the slots an
    execution passes hold the tasks whose time has come and no other. The hypothesis
    on the length is what makes the remainder by the size of the ring
    injective (`WrapOnce`) and an offset that advances twice the sum of the two (`WrapTwice`).
  - `SessionsAlwaysEnd` (`ServerSpec => []SessionsEnd`), `PeersAlwaysKnow` (`ServerSpec =>
    []PeersKnow`) and `SessionsDeletedForReason` (`ServerSpec => DeletedForReason`), from
    `ServerInv`. `AliveChecks` says that the sessions without connection are those that
    have a task in the list of a minute, at the date of their end, which is after the
    last execution: so none is deleted early, and none stays longer than one late timer.
    The list of tokens has one slot (`ceil(360 / 3600)`), so each `timer_1h` takes all
    its tokens, whatever their dates: `EndsOfTokens` says that those there are were made
    since the last one. `BindersListed` is what `PeersKnow` needs: `load_obj` forgets the
    devices that are not connected, but never a client that is. `login` may register a
    session that is to be deleted (section 3): `SessionsAlwaysEnd` says that nothing but
    `sessions` refers to a deleted session, and `sessions` only to one of those.

* `RiotBaseProofs`. The recursive functions of these modules go over `0..n`: `Iterates` says
  that a function that satisfies such an equation exists, and `UpTo` what holds of its
  values, both from the well-founded order of `Nat`.
  - `IntervalsNeverTouch` (`IntervalSpec => []IntervalsApart`) and `IntervalsAreSets`
    (`IntervalSpec => ImplementsPatchSets`), for any numbers without gaps and any sets of
    patches. The code walks a list of bounds and cuts, widens or joins what it finds;
    `IntervalInv` says that the intervals are not empty and that none meets or touches
    another, and each operation on bounds is shown to be the operation on their members.
    That nothing touches is what makes an insertion find the neighbours it has to join.
  - `DatagramsAreKept` (`UdpSpec => []DatagramsKept`), for any addresses, any room and any
    refusals. `UdpInv` has the list of connections with queued datagrams as it is linked
    (`IsList`, `IsLinked`); a pass over it calls each once although those it
    calls link themselves again meanwhile, which `QueueIsRight` follows step by step.
  - `LookupsAreServed` (`DnsSpec => []LookupsServed`), from `DnsInv`, over the same sockets: `AskedOnce`
    says that a name has a request that waits or an entry, never two requests; `CacheRight`
    and `RepliesRight` that an address comes from the zone; `WaitsRight` that the queries
    that wait are those of their name; `AllServed` that each query waits or has its
    answer, not both. Late, repeated and unasked answers are among the steps.
  - `CommandsAlwaysReach` (`PeerSpec => []CommandsReach`), for any number of commands. `EachOnce` gives
    every command of a side one place among the places it may be in (waiting in a
    connection, in a buffer, on its way, received): an action moves places, and what each
    one moves is stated by a function from the places after it to those before
    (`StoreMoves`, `Unmoved`). `OfferRight` says how far the offer of a side has come: described
    before it travels, travelling until the other side has an answerer, and so for the
    answer; hence a connection that is not open waits for something that comes.
  - `MailsAreRight` (`SmtpSpec => []MailRight`), for any text. `SaidRight` ties what was said to the
    answers that came; `ReadsStuffed` follows the reader of the server through the stuffed
    text, line by line, and finds the text again, and no end before its end.

TLC also found the inductive invariants to hold: `ClockInv` on the instances of
`pairs`, `OrderInv`, `SentInv` and `MarkInv` on three devices like those of `groups`
(the last with 73,774 and, with two patches each, 1,073,819 states), `MeshInv` on `pairs`,
`LoopInv` on the loop of `evloop`, `SslInv` on its TLS connection (8,366 states), `ServerInv` on the sessions of `tracker` (1,949,536 states) and
`Timely` on the lists of `structures` and `tracker`.

Only model-checked:

* liveness, under fairness, which the prover does not do;
* what is said of logs that hold operations on strings (`TextsAgree`): a merge of several
  patches folds `new_patch` over them, and what it promises for a pair is false for some
  pairs (section 3), so that the property is one of the instances the test makes;
* `Transformed` and `CopyFollows`, of the strings of the TypeScript client, and `Converge`
  and `MergesExact`, of those of the C++ one: they walk buffers of operations by recursive
  operators, of which the prover knows nothing;
* `FormatsRight` and `ParserExact`, for the same reason: what a stream of bytes means is
  defined by recursion over it;
* the shared buffers (`ImplementsByteQueue` and the first parts of `StructuresSound`), whose
  chains are recursive;
* `ClientsAgree`: the logs of the TypeScript client are folds over their patches, and
  the merges write into them while they are read.

## 7. What is left

1. What `ReplicatedLog` promises extended to when patches arrive, and to values.
2. Runs for what section 3 lists without a run: stale marks, a group without
   connections, an insertion inside removed text, a directory whose right is
   withdrawn, the datagrams of a connection that is refused twice.
3. The listeners, the watchers of files and the functions posted to the loop.
4. Theorems: the buffers, whose chains would have to be functions from positions, as
   `TwoLists` has those of the loop and `Linked` those of the containers.
5. The TypeScript client: objects that are loaded later, with the changes that wait
   for them; logs merged into logs; the storage read back after a restart. `ClientsAgree`
   stays model-checked: its logs are folded, and a proof would need induction over them.

## 8. Not modelled

* The symbolic compiler (`src/ts/Symbol`) and the generators of declarations,
  whose results are program texts; `Variable`, `Method`, `Rp` and `Methods.*`,
  typing and generated dispatch without protocol; the page embedded in the
  tracker; identifiers and text forms in C++.
* The maps, arrays and numbers of `src/ts`, which have operations on rights
  alone or none; `BinaryReader` and `BinaryWriter`, whose numbers are those of
  `BinStream` and whose nested lengths nothing uses.
* Of the TypeScript client, the arrays and maps, symbolic evaluation, and
  the elements of pages; the merges of logs, most of which throw `TODO`.
* `Db` and `PatchManager` of the C++ RiotBase: `get_changes` meets an assertion (`TODO`)
  whenever there is something to send, and most of `Db.cpp` is commented out; the
  protocol is the one of `src/ts/Db`, which is modelled. `OldDb` and the
  directories `old/` are built by nothing. `OtWrapperMap` has no merge yet: none of
  the transformations its base class calls is written.
* `UdpDtlsConnection` and `TrackerServerUdpConnection`, which nothing opens;
  `SplittedVec`, used by dead code only; vectors of fixed size; the tail removal
  of `CycleEndedList`, used by that map only.
* Users other than the local one: no `Db` of `src/ts` has any.

The share of the source that the modules stand for is small for these reasons: of
the C++ that is counted, most is generated dispatch, dead directories, a former
data base, an embedded page, tests and the glue of the user interfaces.
