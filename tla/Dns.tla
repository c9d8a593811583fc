-------------------------------- MODULE Dns --------------------------------
(***************************************************************************)
(* The resolver (RB/cpp/RiotBase/EvLoop/Dns.cpp), which asks the server of *)
(* resolv.conf for the addresses of a name and keeps the answer for ever.  *)
(*                                                                         *)
(* The server, which is external, answers from Zone. The datagrams that    *)
(* reach it and its answers may be lost, be late or come twice, and a      *)
(* datagram whose num_request or name is not expected may come. A name     *)
(* that is given compressed after its first label is read as no name.      *)
(***************************************************************************)
EXTENDS Udp, Functions

CONSTANTS
    Names,
    Zone,           \* [Names -> Seq(records)]: [name, type, addr]
    Server,         \* the address of the server, in Addrs
    Nums,           \* the numbers of a request, drawn at random: 2^16
    MaxQueries,     \* bound
    MaxAddresses    \* bound: an entry that has as many is not added to

ASSUME DnsAssumption ==
    /\ Server \in Addrs /\ "" \notin Names /\ MaxQueries \in Nat
    /\ Zone \in [Names -> Seq(UNION {Range(Zone[n]) : n \in Names})]

VARIABLES
    cached_entries,     \* name |-> the addresses that were read
    waiting_reqs,       \* name |-> [num, ok]: the number of the request, the callbacks
    asked,              \* the name of each query; a callback is the number of its query
    queries,            \* the datagrams written on the connection: [num, name]
    answers,            \* the callbacks that were called: [id, v4, v6]
    known               \* the names of which an answer was read to its end

dnsvars == <<cached_entries, waiting_reqs, asked, queries, answers, known>>

Empty == [n \in {} |-> <<>>]
DnsInit ==
    /\ cached_entries = Empty /\ waiting_reqs = Empty
    /\ asked = <<>> /\ queries = <<>> /\ answers = <<>> /\ known = {}

Put(f, k, v) == [x \in DOMAIN f \cup {k} |-> IF x = k THEN v ELSE f[x]]
Without(f, k) == [x \in DOMAIN f \ {k} |-> f[x]]

\* What the callback of the query `id` is given.
AnswerTo(id, e) == [id |-> id, v4 |-> e.v4, v6 |-> e.v6]

\* query: answered at once, joined to the one that waits, or sent.
Cached(name) ==
    /\ name \in DOMAIN cached_entries
    /\ answers' = Append(answers, AnswerTo(Len(asked) + 1, cached_entries[name]))
    /\ UNCHANGED <<waiting_reqs, queries, udpvars>>
Added(name) ==
    /\ name \notin DOMAIN cached_entries /\ name \in DOMAIN waiting_reqs
    /\ waiting_reqs' = [waiting_reqs EXCEPT ![name].ok = Append(@, Len(asked) + 1)]
    /\ UNCHANGED <<answers, queries, udpvars>>
Asked(name) ==
    /\ name \notin DOMAIN cached_entries \cup DOMAIN waiting_reqs
    /\ \E num \in Nums :
         /\ queries' = Append(queries, [num |-> num, name |-> name])
         /\ waiting_reqs' = Put(waiting_reqs, name, [num |-> num, ok |-> <<Len(asked) + 1>>])
    /\ Flushed(Server, Len(queries) + 1)
    /\ UNCHANGED answers
Query(name) ==
    /\ Len(asked) < MaxQueries
    /\ asked' = Append(asked, name)
    /\ Cached(name) \/ Added(name) \/ Asked(name)
    /\ UNCHANGED <<cached_entries, known>>

\* check_name: the entry that is filled, that of the first name that is given. It
\* may hold what was read of an answer that was given up.
Kept(name) == IF name \in DOMAIN cached_entries THEN cached_entries[name] ELSE [v4 |-> <<>>, v6 |-> <<>>]
CheckName(e, num, name) ==
    IF e.name # "" THEN [e EXCEPT !.ok = e.name = name]
    ELSE IF name \in DOMAIN waiting_reqs /\ num = waiting_reqs[name].num
    THEN [e EXCEPT !.name = name, !.v4 = Kept(name).v4, !.v6 = Kept(name).v6]
    ELSE [e EXCEPT !.ok = FALSE]

\* One record: those of other types are skipped, one of another name ends all.
AddRecord(e, r) ==
    CASE ~ e.ok -> e
      [] e.ok /\ r.type = "A" -> [e EXCEPT !.v4 = Append(@, r.addr)]
      [] OTHER -> [e EXCEPT !.v6 = Append(@, r.addr)]
AnyName(e, num, r) == AddRecord([e EXCEPT !.ok = TRUE], r)  \* a mutant
ReadRecord(e, num, r) ==
    IF ~ e.ok \/ r.type \notin {"A", "AAAA"} THEN e ELSE AddRecord(CheckName(e, num, r.name), r)

\* The answer: the name that was asked, unless it asked for another type, then
\* the records.
ReadAnswer(a) ==
    LET f[i \in 0 .. Len(a.records)] ==
            IF i = 0 THEN CheckName([name |-> "", ok |-> TRUE, v4 |-> <<>>, v6 |-> <<>>], a.num, a.name)
            ELSE ReadRecord(f[i - 1], a.num, a.records[i])
    IN  f[Len(a.records)]

Entry(e) == [v4 |-> e.v4, v6 |-> e.v6]

\* parse: an answer that is given up in the middle leaves its entry in the cache,
\* and those who wait go on waiting.
Parsed(e) ==
    /\ cached_entries' = IF e.name = "" THEN cached_entries ELSE Put(cached_entries, e.name, Entry(e))
    /\ IF e.ok
       THEN /\ answers' = answers \o [i \in DOMAIN waiting_reqs[e.name].ok |->
                                        AnswerTo(waiting_reqs[e.name].ok[i], e)]
            /\ waiting_reqs' = Without(waiting_reqs, e.name)
            /\ known' = known \cup {e.name}
       ELSE UNCHANGED <<answers, waiting_reqs, known>>
    /\ UNCHANGED <<asked, queries, udpvars>>

\* inp of the socket: an answer to a datagram that was sent, which may be one
\* that was already answered, or with another number.
Reached == {queries[i] : i \in {j \in DOMAIN queries : \E k \in DOMAIN udp.net : udp.net[k] = <<Server, j>>}}
Answer(q, num) ==
    /\ ~ udp.gone /\ Len(Kept(q.name).v4) < MaxAddresses
    /\ Parsed(ReadAnswer([num |-> num, name |-> q.name, records |-> Zone[q.name]]))

DnsNext ==
    \/ \E name \in Names : Query(name)
    \/ \E q \in Reached, num \in Nums : Answer(q, num)

\* The resolver and its socket.
ResolverMoves == DnsNext \/ (SocketMoves /\ UNCHANGED dnsvars)
DnsSpec == UdpInit /\ DnsInit /\ [][ResolverMoves]_<<udpvars, dnsvars>>

-----------------------------------------------------------------------------
\* The addresses of a type that the zone has for a name, among the first records
\* of it; all of them.
FirstRecords(name, type) ==
    LET f[i \in 0 .. Len(Zone[name])] ==
            IF i = 0 THEN <<>>
            ELSE IF Zone[name][i].type = type /\ Zone[name][i].name = name
            THEN Append(f[i - 1], Zone[name][i].addr) ELSE f[i - 1]
    IN  f
RecordsOf(name, type) == FirstRecords(name, type)[Len(Zone[name])]

\* The callback of a query is called once at most, and only with addresses of
\* its name, all of them if an answer about it was read to its end; until then
\* it waits, in the order of the queries, unless the name is in the cache: a
\* name is asked once. Dns.cpp:136 and 185.
QueriesAnswered ==
    /\ \A i, j \in DOMAIN answers : answers[i].id = answers[j].id => i = j
    /\ \A i \in DOMAIN answers :
         LET name == asked[answers[i].id]
         IN  /\ Range(answers[i].v4) \subseteq Range(RecordsOf(name, "A"))
             /\ Range(answers[i].v6) \subseteq Range(RecordsOf(name, "AAAA"))
             /\ name \in known => /\ answers[i].v4 = RecordsOf(name, "A")
                                  /\ answers[i].v6 = RecordsOf(name, "AAAA")
    /\ \A id \in DOMAIN asked :
         (\E i \in DOMAIN answers : answers[i].id = id)
           # (asked[id] \in DOMAIN waiting_reqs
              /\ \E i \in DOMAIN waiting_reqs[asked[id]].ok : waiting_reqs[asked[id]].ok[i] = id)
    /\ \A n \in DOMAIN waiting_reqs : \A i, j \in DOMAIN waiting_reqs[n].ok :
         i < j => waiting_reqs[n].ok[i] < waiting_reqs[n].ok[j]
    /\ \A i, j \in DOMAIN queries : queries[i].name = queries[j].name => i = j

\* Nothing that is asked of the resolver, or of the socket it uses, is forgotten
\* or done twice.
LookupsServed == DatagramsKept /\ QueriesAnswered
=============================================================================
