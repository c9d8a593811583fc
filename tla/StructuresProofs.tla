-------------------------- MODULE StructuresProofs --------------------------
(***************************************************************************)
(* Theorems about small structures, each for every value of its constants: *)
(* the identifiers of the trackers, the users of a tracker, the connection *)
(* of a page to it, the callbacks of a page, and the containers: a vector, *)
(* a list and an allocator do what a sequence, a sequence and a set of     *)
(* blocks do, for any size of the items, of the blocks and of the chunks.  *)
(***************************************************************************)
EXTENDS IdGenerator, TrackerUsers, TrackerConn, RegCallbacks, Containers,
        SequenceTheorems, FiniteSetTheorems, WellFoundedInduction, TLAPS

-----------------------------------------------------------------------------
(* IdGenerator: the identifiers of the trackers are all different, for     *)
(* every size of the fields, every set of trackers and every number of     *)
(* restarts.                                                               *)

\* The larger of two quotients gives the larger number, whatever the remainders.
LEMMA Quotients ==
    ASSUME NEW D \in Nat \ {0}, NEW a \in Nat, NEW x \in Nat, NEW r \in 0..D - 1, NEW y \in 0..D - 1,
           a < x
    PROVE  a * D + r < x * D + y
<1>1. PICK k \in Nat : x = a + 1 + k
  <2>1. x - a - 1 \in Nat /\ x = a + 1 + (x - a - 1)
    OBVIOUS
  <2> QED
    BY <2>1
<1>2. x * D = a * D + D + k * D
  BY <1>1
<1>3. k * D \in Nat /\ a * D \in Nat
  OBVIOUS
<1>4. r < D /\ y >= 0
  OBVIOUS
<1> QED
  BY <1>2, <1>3, <1>4

\* A number has one quotient and one remainder: two fields side by side can be read back.
LEMMA Fields ==
    ASSUME NEW D \in Nat \ {0}, NEW a \in Nat, NEW x \in Nat, NEW r \in 0..D - 1, NEW y \in 0..D - 1,
           a * D + r = x * D + y
    PROVE  a = x /\ r = y
<1>1. a * D + r \in Nat /\ x * D + y \in Nat
  OBVIOUS
<1>2. ~(a < x)
  BY <1>1, Quotients
<1>3. ~(x < a)
  BY <1>1, Quotients
<1>4. a = x
  BY <1>2, <1>3
<1> QED
  BY <1>4

\* An identifier is a natural number that determines its three fields.
LEMMA IdInjective ==
    ASSUME NEW c \in Nat, NEW b \in Bases, NEW d \in 0..MaxClock,
           NEW e \in Nat, NEW f \in Bases, NEW g \in 0..MaxClock
    PROVE  /\ Id(c, b, d) \in Nat
           /\ Id(c, b, d) = Id(e, f, g) => c = e /\ b = f /\ d = g
<1> USE GeneratorAssumption
<1>1. d % DateSize = d /\ g % DateSize = g /\ d \in 0..DateSize - 1 /\ g \in 0..DateSize - 1
  OBVIOUS
<1>2. b \in 0..BaseSize - 1 /\ f \in 0..BaseSize - 1
  OBVIOUS
<1>3. c * BaseSize + b \in Nat /\ e * BaseSize + f \in Nat
  BY <1>2
<1>4. Id(c, b, d) = (c * BaseSize + b) * DateSize + d /\ Id(e, f, g) = (e * BaseSize + f) * DateSize + g
  BY <1>1 DEF Id
<1>5. Id(c, b, d) \in Nat
  <2>1. PICK a \in Nat : a = c * BaseSize + b
    BY <1>3
  <2>2. PICK m \in Nat : m = a * DateSize
    OBVIOUS
  <2> QED
    BY <2>1, <2>2, <1>1, <1>4
<1>6. ASSUME Id(c, b, d) = Id(e, f, g) PROVE c = e /\ b = f /\ d = g
  <2>1. c * BaseSize + b = e * BaseSize + f /\ d = g
    BY <1>1, <1>3, <1>4, <1>6, Fields
  <2>2. c = e /\ b = f
    BY <1>2, <2>1, Fields
  <2> QED
    BY <2>1, <2>2
<1> QED
  BY <1>5, <1>6

-----------------------------------------------------------------------------
\* What was given is of the past, or of this millisecond and of a tracker that remembers it.
Generators == [counter : Nat, pr_date : 0..MaxClock]
Fresher(id) == \E c \in Nat, b \in Bases, d \in 0..MaxClock :
                  /\ id = Id(c, b, d) /\ d <= clock
                  /\ d = clock => gens[b].pr_date = clock /\ c <= gens[b].counter

IdType == clock \in 1..MaxClock /\ gens \in [Bases -> Generators]
GivenFresher == \A id \in older \cup {newest} : id = -1 \/ Fresher(id)
IdInv == IdType /\ GivenFresher /\ IdsUnique

LEMMA IdInitInv == MaxClock >= 1 /\ IdInit => IdInv
<1> SUFFICES ASSUME MaxClock >= 1, IdInit PROVE IdInv
  OBVIOUS
<1>1. NewGenerator \in Generators
  BY GeneratorAssumption DEF NewGenerator, Generators
<1>2. IdType
  BY <1>1, GeneratorAssumption DEF IdInit, IdType
<1>3. GivenFresher /\ IdsUnique
  BY DEF IdInit, GivenFresher, IdsUnique
<1> QED
  BY <1>2, <1>3 DEF IdInv

\* The clock has moved: all that was given is of the past.
LEMMA ClockMoves ==
    ASSUME IdInv, clock < MaxClock, clock' = clock + 1, gens' \in [Bases -> Generators],
           UNCHANGED <<older, newest>>
    PROVE  IdInv'
<1>1. IdType'
  BY GeneratorAssumption DEF IdInv, IdType
<1>2. ASSUME NEW id \in older, id # -1 PROVE Fresher(id)'
  <2>1. PICK c \in Nat, b \in Bases, d \in 0..MaxClock : id = Id(c, b, d) /\ d <= clock
    BY <1>2 DEF IdInv, GivenFresher, Fresher
  <2>2. d <= clock' /\ d # clock'
    BY <2>1, GeneratorAssumption DEF IdInv, IdType
  <2> QED
    BY <2>1, <2>2 DEF Fresher, Id
<1>3. ASSUME newest # -1 PROVE Fresher(newest)'
  <2>1. PICK c \in Nat, b \in Bases, d \in 0..MaxClock : newest = Id(c, b, d) /\ d <= clock
    BY <1>3 DEF IdInv, GivenFresher, Fresher
  <2>2. d <= clock' /\ d # clock'
    BY <2>1, GeneratorAssumption DEF IdInv, IdType
  <2> QED
    BY <2>1, <2>2 DEF Fresher, Id
<1>4. GivenFresher'
  BY <1>2, <1>3 DEF GivenFresher, Fresher
<1>5. IdsUnique'
  BY DEF IdInv, IdsUnique
<1> QED
  BY <1>1, <1>4, <1>5 DEF IdInv

\* What a generator makes is none of what was given.
LEMMA GenerateIsNew ==
    ASSUME IdInv, NEW b \in Bases, NEW id \in older \cup {newest}
    PROVE  Id(NextCounter(gens[b], clock), b, clock) # id
<1> DEFINE n == NextCounter(gens[b], clock)
<1>1. clock \in 0..MaxClock /\ gens[b] \in Generators
  BY GeneratorAssumption DEF IdInv, IdType
<1>2. n \in Nat /\ (gens[b].pr_date = clock => n = gens[b].counter + 1)
  BY <1>1, GeneratorAssumption DEF NextCounter, Generators
<1>3. CASE id = -1
  <2>1. Id(n, b, clock) \in Nat
    BY <1>1, <1>2, IdInjective
  <2> QED
    BY <1>3, <2>1
<1>4. CASE id # -1
  <2>1. PICK c \in Nat, f \in Bases, d \in 0..MaxClock :
           /\ id = Id(c, f, d) /\ d <= clock
           /\ d = clock => gens[f].pr_date = clock /\ c <= gens[f].counter
    BY <1>4 DEF IdInv, GivenFresher, Fresher
  <2>2. SUFFICES ASSUME Id(n, b, clock) = Id(c, f, d) PROVE FALSE
    BY <2>1
  <2>3. n = c /\ b = f /\ clock = d
    BY <1>1, <1>2, <2>2, IdInjective
  <2>4. gens[b].pr_date = clock /\ c <= gens[b].counter
    BY <2>1, <2>3
  <2> QED
    BY <1>1, <1>2, <2>3, <2>4 DEF Generators
<1> QED
  BY <1>3, <1>4

LEMMA GenerateInv == ASSUME IdInv, NEW b \in Bases, Generate(b) PROVE IdInv'
<1> DEFINE n == NextCounter(gens[b], clock)
           new == Id(n, b, clock)
<1>1. clock \in 1..MaxClock /\ clock \in 0..MaxClock /\ gens[b] \in Generators
  BY GeneratorAssumption DEF IdInv, IdType
<1>2. n \in Nat /\ (gens[b].pr_date = clock => n > gens[b].counter)
  BY <1>1, GeneratorAssumption DEF NextCounter, Generators
<1>3. /\ gens' = [gens EXCEPT ![b] = [counter |-> n, pr_date |-> clock]]
      /\ older' = older \cup {newest} /\ newest' = new /\ clock' = clock
  BY DEF Generate, Generated, Keep
<1>4. IdType'
  BY <1>1, <1>2, <1>3 DEF IdInv, IdType, Generators
<1>5. gens'[b].pr_date = clock /\ gens'[b].counter = n /\ \A f \in Bases : f # b => gens'[f] = gens[f]
  BY <1>3 DEF IdInv, IdType
<1>6. ASSUME NEW id, id = new PROVE Fresher(id)'
  <2>1. id = Id(n, b, clock) /\ clock <= clock' /\ gens'[b].pr_date = clock' /\ n <= gens'[b].counter
    BY <1>6, <1>2, <1>1, <1>3, <1>5
  <2>2. PICK m \in Nat, d \in 0..MaxClock : m = n /\ d = clock
    BY <1>1, <1>2
  <2>3. id = Id(m, b, d) /\ d <= clock' /\ gens'[b].pr_date = clock' /\ m <= gens'[b].counter
    BY <2>1, <2>2
  <2> QED
    BY <2>3 DEF Fresher, Id
<1>7. ASSUME NEW id \in older \cup {newest}, id # -1 PROVE Fresher(id)'
  <2>1. PICK c \in Nat, f \in Bases, d \in 0..MaxClock :
           /\ id = Id(c, f, d) /\ d <= clock
           /\ d = clock => gens[f].pr_date = clock /\ c <= gens[f].counter
    BY <1>7 DEF IdInv, GivenFresher, Fresher
  <2>2. ASSUME d = clock' PROVE gens'[f].pr_date = clock' /\ c <= gens'[f].counter
    <3>1. gens[f].pr_date = clock /\ c <= gens[f].counter
      BY <1>3, <2>1, <2>2
    <3>2. CASE f # b
      BY <1>3, <1>5, <3>1, <3>2
    <3>3. CASE f = b
      BY <1>1, <1>2, <1>3, <1>5, <3>1, <3>3 DEF Generators
    <3> QED
      BY <3>2, <3>3
  <2> QED
    BY <1>3, <2>1, <2>2 DEF Fresher, Id
<1>8. GivenFresher'
  <2>1. ASSUME NEW id \in older' \cup {newest'} PROVE id = -1 \/ Fresher(id)'
    <3>1. id \in older \cup {newest} \/ id = new
      BY <1>3, <2>1
    <3> QED
      BY <1>6, <1>7, <3>1
  <2> QED
    BY <2>1 DEF GivenFresher, Fresher
<1>9. IdsUnique'
  BY <1>3, GenerateIsNew DEF IdsUnique
<1> QED
  BY <1>4, <1>8, <1>9 DEF IdInv

\* No identifier is ever given twice, whatever the ticks, the restarts and the
\* interleaving of the trackers.
THEOREM IdentifiersUnique == MaxClock >= 1 /\ IdSpec => []IdsUnique
<1>1. ASSUME IdInv, [IdNext]_idvars PROVE IdInv'
  <2>1. CASE Tick
    BY <1>1, <2>1, ClockMoves DEF Tick, IdInv, IdType
  <2>2. ASSUME NEW b \in Bases, Generate(b) PROVE IdInv'
    BY <1>1, <2>2, GenerateInv
  <2>3. ASSUME NEW b \in Bases, Restart(b) PROVE IdInv'
    <3>1. NewGenerator \in Generators
      BY GeneratorAssumption DEF NewGenerator, Generators
    <3>2. gens' \in [Bases -> Generators]
      BY <1>1, <2>3, <3>1 DEF Restart, IdInv, IdType
    <3> QED
      BY <1>1, <2>3, <3>2, ClockMoves DEF Restart
  <2>4. CASE UNCHANGED idvars
    BY <1>1, <2>4 DEF IdInv, IdType, GivenFresher, Fresher, IdsUnique, idvars, Id
  <2> QED
    BY <1>1, <2>1, <2>2, <2>3, <2>4 DEF IdNext
<1>2. IdInv => IdsUnique
  BY DEF IdInv
<1> QED
  BY <1>1, <1>2, IdInitInv, PTL DEF IdSpec

-----------------------------------------------------------------------------
(* TrackerUsers: the users of a tracker keep what identifies them, for any *)
(* names, any number of requests and any number of restarts.               *)

\* The users of the present tracker have been counted, the others come from an
\* earlier one: what a restart forgets cannot be given again.
UsrIds == [dev : Nat, num : Nat]
Counted == \A u \in DOMAIN users_db :
              LET id == users_db[u].id
              IN id \in UsrIds /\ id.dev <= dev /\ (id.dev = dev => id.num <= nb_created_users)
UsersInv == dev \in Nat /\ nb_created_users \in Nat /\ Counted /\ UserIdsDiffer

LEMMA UsersInitInv == UsersInit => UsersInv
  BY DEF UsersInit, UsersInv, Counted, UserIdsDiffer, Nobody

\* A tracker that starts has a device number that no user has.
LEMMA RestartInv == ASSUME UsersInv, RestartTracker PROVE UsersInv'
<1>1. dev' = dev + 1 /\ nb_created_users' = 0 /\ users_db' = users_db
  BY DEF RestartTracker, NewDev
<1>2. dev' \in Nat /\ nb_created_users' \in Nat
  BY <1>1 DEF UsersInv
<1>3. Counted'
  <2>1. ASSUME NEW u \in DOMAIN users_db
        PROVE  LET id == users_db[u].id
               IN id \in UsrIds /\ id.dev <= dev + 1 /\ id.dev # dev + 1
    BY <2>1 DEF UsersInv, Counted, UsrIds
  <2> QED
    BY <1>1, <2>1 DEF Counted
<1> QED
  BY <1>1, <1>2, <1>3 DEF UsersInv, UserIdsDiffer

\* A confirmation that comes after another one for the same name changes
\* nothing, the others add a user with an identifier of its own.
LEMMA RegInv ==
    ASSUME UsersInv, NEW tok, RegWaitingUsr(tok)
    PROVE  /\ UsersInv'
           /\ \A u \in DOMAIN users_db : u \in DOMAIN users_db' /\ users_db'[u] = users_db[u]
<1>1. CASE Exists(waiting[tok])
  BY <1>1 DEF RegWaitingUsr, UsersInv, Counted, UserIdsDiffer
<1>2. CASE ~Exists(waiting[tok])
  <2> DEFINE name == waiting[tok]
             new == [dev |-> dev, num |-> nb_created_users + 1]
  <2>1. /\ nb_created_users' = nb_created_users + 1 /\ dev' = dev
        /\ users_db' = Entered(users_db, name, [id |-> new, pass |-> tok])
    BY <1>2 DEF RegWaitingUsr
  <2>2. name \notin DOMAIN users_db
    BY <1>2 DEF Exists
  <2>3. /\ DOMAIN users_db' = DOMAIN users_db \cup {name}
        /\ users_db'[name].id = new
        /\ \A u \in DOMAIN users_db : users_db'[u] = users_db[u]
    BY <2>1, <2>2 DEF Entered
  <2>4. new \in UsrIds /\ new.dev = dev /\ new.num = nb_created_users + 1
    BY DEF UsersInv, UsrIds
  <2>5. ASSUME NEW u \in DOMAIN users_db PROVE users_db[u].id # new
    <3>1. users_db[u].id.dev = dev => users_db[u].id.num <= nb_created_users
      BY DEF UsersInv, Counted
    <3> QED
      BY <2>4, <3>1 DEF UsersInv
  <2>6. Counted'
    <3>1. ASSUME NEW u \in DOMAIN users_db'
          PROVE  LET id == users_db'[u].id
                 IN id \in UsrIds /\ id.dev <= dev /\ (id.dev = dev => id.num <= nb_created_users + 1)
      <4>1. CASE u = name
        BY <2>3, <2>4, <4>1 DEF UsersInv
      <4>2. CASE u \in DOMAIN users_db
        BY <2>3, <4>2 DEF UsersInv, Counted, UsrIds
      <4> QED
        BY <2>3, <3>1, <4>1, <4>2
    <3> QED
      BY <2>1, <3>1 DEF Counted
  <2>7. UserIdsDiffer'
    BY <2>3, <2>5 DEF UserIdsDiffer, UsersInv
  <2> QED
    BY <2>1, <2>3, <2>6, <2>7 DEF UsersInv
<1> QED
  BY <1>1, <1>2

\* A user that exists keeps its identifier and its password, whoever confirms
\* the same name later, and no other user ever has its identifier.
THEOREM UsersAreKept == UsersSpec => UsersKept
<1> DEFINE Keeps == /\ \A u \in DOMAIN users_db : u \in DOMAIN users_db' /\ users_db'[u] = users_db[u]
                    /\ UserIdsDiffer'
<1>1. ASSUME UsersInv, [UsersNext]_uservars PROVE UsersInv' /\ Keeps
  <2>1. CASE RestartTracker
    <3>1. users_db' = users_db
      BY <2>1 DEF RestartTracker
    <3> QED
      BY <1>1, <2>1, <3>1, RestartInv DEF UsersInv
  <2>2. ASSUME NEW u \in Users, CreateUser(u) PROVE UsersInv' /\ Keeps
    BY <1>1, <2>2 DEF CreateUser, UsersInv, Counted, UserIdsDiffer
  <2>3. ASSUME NEW tok \in 1..MaxRequests, RegWaitingUsr(tok) PROVE UsersInv' /\ Keeps
    BY <1>1, <2>3, RegInv DEF UsersInv
  <2>4. CASE UNCHANGED uservars
    BY <1>1, <2>4 DEF uservars, UsersInv, Counted, UserIdsDiffer
  <2> QED
    BY <1>1, <2>1, <2>2, <2>3, <2>4 DEF UsersNext
<1>2. UsersInv /\ [UsersNext]_uservars => [Keeps]_users_db
  BY <1>1
<1> QED
  BY <1>1, <1>2, UsersInitInv, PTL DEF UsersSpec, UsersKept

-----------------------------------------------------------------------------
(* TrackerConn: what a page submits reaches the tracker in order, once and *)
(* without delay, for any number of submissions.                           *)

\* InOrderOnce, one submission at a time: what the tracker has is the beginning
\* of what was submitted and, until the connection is closed, the buffer has the
\* rest.
ConnType == /\ submitted \in Nat /\ early \in Nat /\ bw \in Seq(Nat) /\ server \in Seq(Nat)
            /\ connection \in {"connecting", "open", "closed"}
First == \A i \in 1..Len(server) : server[i] = i
Rest == connection # "closed" => /\ Len(server) + Len(bw) = submitted
                                 /\ \A i \in 1..Len(bw) : bw[i] = Len(server) + i
ConnInv == ConnType /\ First /\ Rest /\ EarlyOnesSent

LEMMA ConnInitInv == ConnInit => ConnInv
  BY DEF ConnInit, ConnInv, ConnType, First, Rest, EarlyOnesSent

\* The two parts make up the whole.
LEMMA Whole == ConnInv => ServerGets
<1> SUFFICES ASSUME ConnInv PROVE InOrderOnce
  BY DEF ConnInv, ServerGets
<1>1. \A i \in DOMAIN server : server[i] = i
  BY DEF ConnInv, ConnType, First
<1>2. ASSUME connection # "closed" PROVE server \o bw = [i \in 1..submitted |-> i]
  <2>1. /\ server \in Seq(Nat) /\ bw \in Seq(Nat) /\ Len(server) + Len(bw) = submitted
        /\ \A i \in 1..Len(bw) : bw[i] = Len(server) + i
    BY <1>2 DEF ConnInv, ConnType, Rest
  <2>2. server \o bw \in Seq(Nat) /\ Len(server \o bw) = submitted
    BY <2>1
  <2>3. ASSUME NEW i \in 1..submitted PROVE (server \o bw)[i] = i
    <3>1. CASE i <= Len(server)
      BY <2>1, <3>1 DEF ConnInv, First
    <3>2. CASE i > Len(server)
      <4>1. i - Len(server) \in 1..Len(bw)
        BY <2>1, <2>3, <3>2
      <4>2. (server \o bw)[i] = bw[i - Len(server)]
        BY <2>1, <2>3, <3>2
      <4> QED
        BY <2>1, <4>1, <4>2
    <3> QED
      BY <2>1, <3>1, <3>2
  <2> DEFINE all == [i \in 1..submitted |-> i]
  <2>4. all \in Seq(Nat) /\ Len(all) = submitted /\ \A i \in 1..submitted : all[i] = i
    <3>1. submitted \in Nat /\ \A i \in 1..submitted : i \in Nat
      BY DEF ConnInv, ConnType
    <3>2. all \in Seq(Nat)
      BY <3>1, IsASeq
    <3> QED
      BY <3>1, <3>2
  <2> HIDE DEF all
  <2>5. server \o bw = all
    BY <2>2, <2>3, <2>4, SeqEqual
  <2> QED
    BY <2>5 DEF all
<1> QED
  BY <1>1, <1>2 DEF InOrderOnce

LEMMA SubmitInv == ASSUME ConnInv, OnSubmit PROVE ConnInv'
<1>1. /\ submitted' = submitted + 1 /\ bw' = Append(bw, submitted + 1)
      /\ server' = server /\ early' = early /\ connection' = connection /\ (send_timer => send_timer')
  BY DEF OnSubmit
<1>2. ConnType' /\ First'
  BY <1>1 DEF ConnInv, ConnType, First
<1>3. Rest'
  <2> SUFFICES ASSUME connection # "closed"
               PROVE  /\ Len(server) + Len(bw') = submitted + 1
                      /\ \A i \in 1..Len(bw') : bw'[i] = Len(server) + i
    BY <1>1 DEF Rest
  <2>1. Len(bw') = Len(bw) + 1 /\ bw'[Len(bw) + 1] = submitted + 1
        /\ \A i \in 1..Len(bw) : bw'[i] = bw[i]
    BY <1>1 DEF ConnInv, ConnType
  <2>2. Len(server) \in Nat /\ Len(bw) \in Nat
    BY DEF ConnInv, ConnType
  <2>3. Len(server) + Len(bw) = submitted /\ \A i \in 1..Len(bw) : bw[i] = Len(server) + i
    BY DEF ConnInv, Rest
  <2>4. ASSUME NEW i \in 1..Len(bw') PROVE bw'[i] = Len(server) + i
    <3>1. CASE i \in 1..Len(bw)
      BY <2>1, <2>3, <3>1
    <3>2. CASE i = Len(bw) + 1
      BY <2>1, <2>2, <2>3, <3>2
    <3> QED
      BY <2>1, <2>2, <3>1, <3>2
  <2> QED
    BY <2>1, <2>2, <2>3, <2>4
<1>4. EarlyOnesSent'
  BY <1>1 DEF ConnInv, EarlyOnesSent
<1> QED
  BY <1>2, <1>3, <1>4 DEF ConnInv

\* send(): the buffer goes to the end of what the tracker has.
LEMMA SentInv ==
    ASSUME ConnInv, connection # "closed", bw' = <<>>, server' = server \o bw
    PROVE  /\ bw' \in Seq(Nat) /\ server' \in Seq(Nat) /\ Len(server') = submitted /\ Len(bw') = 0
           /\ \A i \in 1..Len(server') : server'[i] = i
<1>1. server \o bw = [i \in 1..submitted |-> i] /\ server \in Seq(Nat) /\ bw \in Seq(Nat) /\ submitted \in Nat
  BY Whole DEF ServerGets, InOrderOnce, ConnInv, ConnType
<1>2. server \o bw \in Seq(Nat) /\ Len(server \o bw) = Len(server) + Len(bw)
  BY <1>1
<1>3. Len(server) + Len(bw) = submitted
  BY DEF ConnInv, Rest
<1> QED
  BY <1>1, <1>2, <1>3

LEMMA OpenInv == ASSUME ConnInv, Open PROVE ConnInv'
<1>1. /\ connection # "closed" /\ bw' = <<>> /\ server' = server \o bw
      /\ early' = submitted /\ submitted' = submitted /\ connection' = "open"
  BY DEF Open, OnOpen, Cleared
<1> QED
  BY <1>1, SentInv DEF ConnInv, ConnType, First, Rest, EarlyOnesSent

\* The timer: the WebSocket takes the data, loses it or throws.
LEMMA TimerInv == ASSUME ConnInv, Timer PROVE ConnInv'
<1>1. early' = submitted /\ submitted' = submitted /\ connection' = connection
  BY DEF Timer
<1>2. CASE connection = "open"
  <2>1. bw' = <<>> /\ server' = server \o bw
    BY <1>2 DEF Timer, Send, Throw, Cleared
  <2> QED
    BY <1>1, <1>2, <2>1, SentInv DEF ConnInv, ConnType, First, Rest, EarlyOnesSent
<1>3. CASE connection = "connecting"
  <2>1. bw' = bw /\ server' = server
    BY <1>3 DEF Timer, Send, Throw
  <2> QED
    BY <1>1, <1>3, <2>1 DEF ConnInv, ConnType, First, Rest, EarlyOnesSent
<1>4. CASE connection = "closed"
  <2>1. bw' = <<>> /\ server' = server
    BY <1>4 DEF Timer, Send, Throw, Cleared
  <2>2. <<>> \in Seq(Nat)
    OBVIOUS
  <2> QED
    BY <1>1, <1>4, <2>1, <2>2 DEF ConnInv, ConnType, First, Rest, EarlyOnesSent
<1> QED
  BY <1>2, <1>3, <1>4 DEF ConnInv, ConnType

\* The tracker gets what is submitted in order and once, and at once what was
\* submitted before the opening or the timer, whichever comes last.
THEOREM SubmissionsArrive == ConnSpec => []ServerGets
<1>1. ASSUME ConnInv, [ConnNext]_connvars PROVE ConnInv'
  <2>1. CASE CloseConn
    BY <1>1, <2>1 DEF CloseConn, ConnInv, ConnType, First, Rest, EarlyOnesSent
  <2>2. CASE UNCHANGED connvars
    BY <1>1, <2>2 DEF connvars, ConnInv, ConnType, First, Rest, EarlyOnesSent
  <2> QED
    BY <1>1, <2>1, <2>2, SubmitInv, OpenInv, TimerInv DEF ConnNext
<1> QED
  BY <1>1, ConnInitInv, Whole, PTL DEF ConnSpec


-----------------------------------------------------------------------------
(* RegCallbacks: whatever the changes, the callbacks that make more of     *)
(* them and the order of the Maps, no change is forgotten.                 *)

CallsType ==
    /\ on_change \in [Variables -> SUBSET Callbacks]
    /\ callbacks \in Seq(Callbacks) /\ pos \in 0..Len(callbacks)
    /\ timer \in BOOLEAN /\ timeout = timer

CallsInv == CallsType /\ CallbacksDue

\* An order of a set of callbacks is a sequence of all of them, once each.
LEMMA OrderIs ==
    ASSUME NEW S \in SUBSET Callbacks, NEW s \in Orders(S)
    PROVE  /\ s \in Seq(Callbacks) /\ DOMAIN s = 1..Len(s) /\ (S = {} => s = <<>>)
           /\ \A i \in 1..Len(s) : s[i] \in S
           /\ \A c \in S : \E i \in 1..Len(s) : s[i] = c
           /\ \A i, j \in 1..Len(s) : s[i] = s[j] => i = j
<1>1. IsFiniteSet(S)
  BY CallbacksAssumption, FS_Subset
<1>2. PICK n \in Nat : n = Cardinality(S)
  BY <1>1, FS_CardinalityType
<1>3. s \in [1..n -> S]
  BY <1>2 DEF Orders
<1>4. s \in Seq(S) /\ Len(s) = n /\ DOMAIN s = 1..n
  BY <1>3, <1>2
<1>5. /\ \A c \in S : In(c, s)
      /\ \A i, j \in DOMAIN s : s[i] = s[j] => i = j
  BY DEF Orders
<1>6. s \in Seq(Callbacks)
  BY <1>2, <1>3
<1>7. ASSUME S = {} PROVE s = <<>>
  <2>1. n = 0
    BY <1>2, <1>7, FS_EmptySet
  <2>2. QED
    BY <1>4, <2>1, EmptySeq
<1>8. QED
  BY <1>3, <1>4, <1>5, <1>6, <1>7 DEF In

LEMMA CallsInit == CallbacksInit => CallsInv
<1> SUFFICES ASSUME CallbacksInit PROVE CallsInv
  OBVIOUS
<1>1. /\ callbacks = <<>> /\ pos = 0 /\ timer = FALSE /\ timeout = FALSE /\ stale = {}
      /\ on_change \in [Variables -> SUBSET Callbacks]
  BY DEF CallbacksInit
<1>2. callbacks \in Seq(Callbacks) /\ Len(callbacks) = 0 /\ DOMAIN callbacks = {}
  BY <1>1, EmptySeq
<1>3. CallsType
  <2>1. timer \in BOOLEAN /\ timeout = timer
    BY <1>1, Zenon
  <2>2. pos \in 0..Len(callbacks)
    BY <1>1, <1>2
  <2>3. QED
    BY <1>1, <1>2, <2>1, <2>2, Zenon DEF CallsType
<1>4. CallbacksDue
  BY <1>1, <1>2 DEF CallbacksDue, CalledOnce, ChangesAreSeen, CallbacksArmed
<1>5. QED
  BY <1>3, <1>4 DEF CallsInv

\* A change pushes the callbacks that are not in the list after the others.
LEMMA SigChangeCalls == ASSUME CallsInv, NEW v \in Variables, SigChange(v) PROVE CallsInv'
<1> DEFINE own == on_change[v]
           added == Pushed(own)
<1>1. own \in SUBSET Callbacks /\ added \in SUBSET Callbacks
  BY DEF CallsInv, CallsType, Pushed
<1>2. PICK s \in Orders(added) : callbacks' = callbacks \o s
  BY DEF SigChange
<1>3. PICK l \in Nat, m \in Nat : l = Len(callbacks) /\ m = Len(s) /\ callbacks \in Seq(Callbacks)
  BY <1>1, <1>2, OrderIs, LenProperties DEF CallsInv, CallsType
<1> HIDE DEF added, own
<1>4. s \in Seq(Callbacks) /\ (added = {} => s = <<>>)
  BY <1>1, <1>2, OrderIs
<1>5. /\ callbacks' \in Seq(Callbacks) /\ Len(callbacks') = l + m
      /\ \A i \in 1..l : callbacks'[i] = callbacks[i]
      /\ \A i \in 1..m : callbacks'[l + i] = s[i]
  BY <1>2, <1>3, <1>4
<1>6. \A i \in 1..m : s[i] \in added
  BY <1>1, <1>2, <1>3, OrderIs
<1>0. \A a, b \in 1..m : s[a] = s[b] => a = b
  <2>1. \A a, b \in 1..Len(s) : s[a] = s[b] => a = b
    BY <1>1, <1>2, OrderIs
  <2>2. QED
    BY <2>1, <1>3
<1>7. CallsType'
  BY <1>3, <1>5 DEF SigChange, CallsInv, CallsType
<1>8. DOMAIN callbacks = 1..l /\ DOMAIN callbacks' = 1..(l + m)
  BY <1>3, <1>5
<1>9. CalledOnce'
  <2>1. ASSUME NEW i \in 1..(l + m), NEW j \in 1..(l + m), i < j PROVE callbacks'[i] # callbacks'[j]
    <3>1. CASE j <= l
      BY <2>1, <3>1, <1>5, <1>8 DEF CallsInv, CallbacksDue, CalledOnce
    <3>2. CASE i <= l /\ j > l
      <4>1. j - l \in 1..m /\ callbacks'[j] = s[j - l] /\ callbacks'[i] = callbacks[i]
        BY <2>1, <3>2, <1>5
      <4>2. ~In(s[j - l], callbacks)
        BY <4>1, <1>6 DEF added, Pushed
      <4>3. QED
        BY <4>1, <4>2, <2>1, <3>2, <1>8 DEF In
    <3>3. CASE i > l
      <4>1. /\ i - l \in 1..m /\ j - l \in 1..m /\ i - l # j - l
            /\ callbacks'[i] = s[i - l] /\ callbacks'[j] = s[j - l]
        BY <2>1, <3>3, <1>5
      <4>2. \A a, b \in 1..m : s[a] = s[b] => a = b
        BY <1>0
      <4>3. QED
        BY <4>1, <4>2
    <3>4. QED
      BY <3>1, <3>2, <3>3, <2>1, <1>3
  <2>2. QED
    BY <2>1, <1>3, <1>8 DEF CalledOnce
<1>10. ChangesAreSeen'
  <2>1. SUFFICES ASSUME NEW c \in (stale \ late)' PROVE \E i \in 1..(l + m) : i > pos /\ callbacks'[i] = c
    BY <1>8 DEF ChangesAreSeen, SigChange
  <2>2. CASE c \in stale \ late
    <3>1. PICK i \in 1..l : i > pos /\ callbacks[i] = c
      BY <2>2, <1>8 DEF CallsInv, CallbacksDue, ChangesAreSeen
    <3>2. QED
      BY <3>1, <1>3, <1>5
  <2>3. CASE c \in own /\ In(c, callbacks)
    <3>1. PICK i \in 1..l : callbacks[i] = c
      BY <2>3, <1>8 DEF In
    <3>2. c \notin FirstOnes(callbacks, pos)
      BY <2>1, <2>3 DEF SigChange, own
    <3>3. i > pos
      BY <3>1, <3>2, <1>3 DEF FirstOnes, CallsInv, CallsType
    <3>4. QED
      BY <3>1, <3>3, <1>3, <1>5
  <2>4. CASE c \in own /\ ~In(c, callbacks)
    <3>1. c \in added
      BY <2>4 DEF added, Pushed
    <3>2. PICK i \in 1..m : s[i] = c
      BY <3>1, <1>1, <1>2, <1>3, OrderIs
    <3>3. l + i \in 1..(l + m) /\ l + i > pos /\ callbacks'[l + i] = c
      BY <3>2, <1>3, <1>5 DEF CallsInv, CallsType
    <3>4. QED
      BY <3>3
  <2>5. QED
    BY <2>1, <2>2, <2>3, <2>4 DEF SigChange, own
<1>11. CallbacksArmed'
  <2>1. added = {} => callbacks' = callbacks
    BY <1>2, <1>3, <1>4
  <2>2. QED
    BY <2>1 DEF SigChange, CallsInv, CallsType, CallbacksDue, CallbacksArmed, added, own
<1>12. QED
  BY <1>7, <1>9, <1>10, <1>11 DEF CallsInv, CallbacksDue

\* A call makes its callback see the changes; the last one leaves none to see.
LEMMA CallAfterCalls ==
    ASSUME CallsInv, CallAfter(pos), timeout' = timer', timer' \in BOOLEAN, UNCHANGED on_change
    PROVE  CallsInv'
<1>1. callbacks \in Seq(Callbacks) /\ Len(callbacks) \in Nat /\ pos \in 0..Len(callbacks)
  BY LenProperties DEF CallsInv, CallsType
<1>2. DOMAIN callbacks = 1..Len(callbacks)
  BY <1>1
<1>3. CASE pos >= Len(callbacks)
  <2>1. callbacks' = <<>> /\ pos' = 0 /\ UNCHANGED <<stale, late>>
    BY <1>3 DEF CallAfter, Done
  <2>2. stale \ late = {}
    BY <1>1, <1>2, <1>3 DEF CallsInv, CallbacksDue, ChangesAreSeen
  <2>3. <<>> \in Seq(Callbacks) /\ Len(<<>>) = 0 /\ DOMAIN <<>> = {}
    BY EmptySeq
  <2>4. QED
    BY <2>1, <2>2, <2>3
    DEF CallsInv, CallsType, CallbacksDue, CalledOnce, ChangesAreSeen, CallbacksArmed
<1>4. CASE pos < Len(callbacks)
  <2>1. /\ pos' = pos + 1 /\ callbacks' = callbacks
        /\ stale' = stale \ {callbacks[pos + 1]} /\ late' = late \ {callbacks[pos + 1]}
    BY <1>1, <1>4 DEF CallAfter, Done
  <2>2. CallsType' /\ pos' # 0
    BY <1>1, <1>4, <2>1 DEF CallsInv, CallsType
  <2>3. CalledOnce'
    BY <2>1 DEF CallsInv, CallbacksDue, CalledOnce
  <2>4. ASSUME NEW c \in (stale \ late)' PROVE \E i \in DOMAIN callbacks : i > pos + 1 /\ callbacks[i] = c
    <3>1. c \in stale \ late /\ c # callbacks[pos + 1]
      BY <2>1, <2>4
    <3>2. PICK i \in DOMAIN callbacks : i > pos /\ callbacks[i] = c
      BY <3>1 DEF CallsInv, CallbacksDue, ChangesAreSeen
    <3>3. i # pos + 1 /\ i \in 1..Len(callbacks)
      BY <3>1, <3>2, <1>2
    <3>4. QED
      BY <3>2, <3>3, <1>1
  <2>5. QED
    BY <2>1, <2>2, <2>3, <2>4 DEF CallsInv, CallbacksDue, ChangesAreSeen, CallbacksArmed
<1>5. QED
  BY <1>1, <1>3, <1>4

\* Every callback of a variable that changes is called, once, after the change
\* or by the call_all in progress, for all variables and all numbers of changes;
\* a timer is always armed for it.  Only a change that a callback makes, after
\* another was called by the same call_all, is lost on that one.
THEOREM ChangesReachCallbacks == CallbacksSpec => []CallbacksDue
<1>1. CallbacksInit => CallsInv
  BY CallsInit
<1>2. CallsInv /\ [CallbacksNext]_cbvars => CallsInv'
  <2>1. SUFFICES ASSUME CallsInv, [CallbacksNext]_cbvars PROVE CallsInv'
    OBVIOUS
  <2>2. CASE CallAll
    BY <2>2, <2>1, CallAfterCalls DEF CallAll, Defined
  <2>3. CASE CallNext
    BY <2>3, <2>1, CallAfterCalls DEF CallNext, CallsInv, CallsType
  <2>4. ASSUME NEW v \in Variables, SigChange(v) PROVE CallsInv'
    BY <2>4, <2>1, SigChangeCalls
  <2>5. ASSUME NEW v \in Variables, NEW c \in Callbacks, OnChange(v, c) \/ RmOnChange(v, c)
        PROVE  CallsInv'
    BY <2>5, <2>1 DEF OnChange, RmOnChange, CallsInv, CallsType, CallbacksDue, CalledOnce,
        ChangesAreSeen, CallbacksArmed
  <2>6. CASE UNCHANGED cbvars
    BY <2>6, <2>1 DEF cbvars, CallsInv, CallsType, CallbacksDue, CalledOnce, ChangesAreSeen,
        CallbacksArmed
  <2>7. QED
    BY <2>1, <2>2, <2>3, <2>4, <2>5, <2>6 DEF CallbacksNext
<1>3. CallsInv => CallbacksDue
  BY DEF CallsInv
<1>4. QED
  BY <1>1, <1>2, <1>3, PTL DEF CallbacksSpec

-----------------------------------------------------------------------------
(* Containers: the vector, the list, the allocator.                        *)

-----------------------------------------------------------------------------
(* The vector.                                                             *)

Value == Items \cup {Raw}

\* The vector v has the items of s in memory that is there.
Holds(v, s) ==
    /\ s \in Seq(Items) /\ v = [size |-> Len(s), rese |-> v.rese, cells |-> v.cells]
    /\ v.rese \in Nat /\ v.cells \in [1 .. Room(v) -> Value]
    /\ Len(s) <= Room(v) /\ \A i \in 1 .. Len(s) : v.cells[i] = s[i]

\* What Holds says, field by field.
LEMMA HoldsParts ==
    ASSUME NEW v, NEW s, Holds(v, s)
    PROVE  \E r, n, k \in Nat : \E c \in [1 .. k -> Value] :
              /\ v = [size |-> n, rese |-> r, cells |-> c]
              /\ s \in Seq(Items) /\ n = Len(s) /\ n <= k /\ k = r \div ItemSize
              /\ \A i \in 1 .. n : c[i] = s[i] /\ s[i] \in Items
<1>1. Len(s) \in Nat /\ \A i \in 1 .. Len(s) : s[i] \in Items
  BY LenProperties, ElementOfSeq DEF Holds
<1>2. Room(v) = v.rese \div ItemSize /\ Room(v) \in Nat
  BY ContainersAssumption DEF Holds, Room
<1> QED
  BY <1>1, <1>2 DEF Holds

\* Memory that starts with the items of a sequence makes a vector that holds them.
LEMMA MadeHolds ==
    ASSUME NEW r \in Nat, NEW k, k = r \div ItemSize, NEW c \in [1 .. k -> Value],
           NEW s \in Seq(Items), NEW n, n = Len(s), n <= k, \A i \in 1 .. n : c[i] = s[i]
    PROVE  Holds([size |-> n, rese |-> r, cells |-> c], s)
BY DEF Holds, Room

\* So many items fit in r bytes.
LEMMA RoomFor ==
    ASSUME NEW r \in Nat, NEW n \in Nat
    PROVE  r \div ItemSize \in Nat /\ (n * ItemSize <= r <=> n <= r \div ItemSize)
<1> DEFINE D == ItemSize
<1>1. D \in Nat \ {0}
  BY ContainersAssumption
<1>2. PICK q \in Nat, m \in 0 .. D - 1 : q = r \div D /\ r = q * D + m
  BY <1>1
<1>3. CASE n <= q
  <2>1. PICK k \in Nat : q = n + k
    <3>1. q - n \in Nat /\ q = n + (q - n)
      BY <1>3
    <3> QED
      BY <3>1
  <2>2. q * D = n * D + k * D /\ k * D \in Nat /\ n * D \in Nat
    BY <1>1, <2>1
  <2> QED
    BY <1>2, <1>3, <2>2
<1>4. CASE n > q
  <2>1. q * D + m < n * D + 0
    <3>1. 0 \in 0 .. D - 1
      BY <1>1
    <3> QED
      BY <1>1, <1>2, <1>4, <3>1, Quotients
  <2>2. n * D \in Nat
    BY <1>1
  <2> QED
    BY <1>2, <1>4, <2>1, <2>2
<1> QED
  BY <1>2, <1>3, <1>4

\* Moving the items to memory where they fit loses none.
LEMMA MovedHolds ==
    ASSUME NEW v, NEW s, Holds(v, s), NEW bytes \in Nat, v.size * ItemSize <= bytes
    PROVE  Holds(Moved(v, bytes), s) /\ Room(Moved(v, bytes)) = bytes \div ItemSize
<1>1. PICK r, n, k \in Nat : \E c \in [1 .. k -> Value] :
              /\ v = [size |-> n, rese |-> r, cells |-> c]
              /\ s \in Seq(Items) /\ n = Len(s) /\ n <= k /\ k = r \div ItemSize
              /\ \A i \in 1 .. n : c[i] = s[i] /\ s[i] \in Items
  BY HoldsParts
<1>2. PICK c \in [1 .. k -> Value] :
              /\ v = [size |-> n, rese |-> r, cells |-> c]
              /\ s \in Seq(Items) /\ n = Len(s) /\ n <= k /\ k = r \div ItemSize
              /\ \A i \in 1 .. n : c[i] = s[i] /\ s[i] \in Items
  BY <1>1
<1>3. PICK m \in Nat : m = bytes \div ItemSize /\ n <= m
  BY <1>2, RoomFor
<1>4. PICK d : d = [i \in 1 .. m |-> IF i <= n THEN c[i] ELSE Raw]
  OBVIOUS
<1>5. d \in [1 .. m -> Value] /\ \A i \in 1 .. n : d[i] = s[i]
  BY <1>2, <1>3, <1>4 DEF Value
<1>6. Moved(v, bytes) = [size |-> n, rese |-> bytes, cells |-> d]
  <2>1. [i \in 1 .. bytes \div ItemSize |-> IF i <= v.size THEN v.cells[i] ELSE Raw] = d
    <3>1. v.size = n /\ v.cells = c
      BY <1>2
    <3> QED
      BY <1>3, <1>4, <3>1, Zenon
  <2>2. Moved(v, bytes) = [v EXCEPT !.rese = bytes, !.cells = d]
    BY <2>1, Zenon DEF Moved
  <2> HIDE <1>4
  <2> QED
    BY <1>2, <2>2
<1>7. Holds([size |-> n, rese |-> bytes, cells |-> d], s)
  <2>1. m = bytes \div ItemSize
    BY <1>3
  <2>2. s \in Seq(Items) /\ n = Len(s) /\ n <= m
    BY <1>2, <1>3
  <2> QED
    BY ONLY bytes \in Nat, <1>5, <2>1, <2>2, MadeHolds
<1>8. Room([size |-> n, rese |-> bytes, cells |-> d]) = bytes \div ItemSize
  BY DEF Room
<1> QED
  BY ONLY <1>6, <1>7, <1>8

\* What is reserved is there.
LEMMA ReserveHolds ==
    ASSUME NEW v, NEW s, Holds(v, s), NEW wanted \in Nat
    PROVE  /\ Holds(Reserve(v, wanted), s) /\ wanted <= Room(Reserve(v, wanted))
           /\ Holds(ReserveMore(v, wanted), s) /\ wanted <= Room(ReserveMore(v, wanted))
<1>1. v.size \in Nat /\ v.rese \in Nat /\ v.size <= v.rese \div ItemSize
  BY HoldsParts
<1>2. PICK w \in Nat : w = wanted * ItemSize
  BY ContainersAssumption
<1>3. PICK z \in Nat : z = v.size * ItemSize /\ z <= v.rese
  <2>1. v.size * ItemSize \in Nat
    BY <1>1, ContainersAssumption
  <2> QED
    BY <1>1, <2>1, RoomFor
<1>4. CASE w <= v.rese
  <2>1. wanted <= v.rese \div ItemSize
    BY <1>1, <1>2, <1>4, RoomFor
  <2> QED
    BY <1>1, <1>2, <1>4, <2>1 DEF Reserve, ReserveMore, Room
<1>5. CASE ~ (w <= v.rese)
  <2>1. PICK m \in Nat : m = (IF w > 2 * (v.rese + 1) THEN w ELSE 2 * (v.rese + 1)) /\ w <= m /\ z <= m
    BY <1>1, <1>3
  <2>2. wanted <= w \div ItemSize /\ wanted <= m \div ItemSize
    BY <1>2, <2>1, RoomFor
  <2>3. z <= w
    BY <1>1, <1>3, <1>5
  <2>4. Reserve(v, wanted) = Moved(v, w) /\ ReserveMore(v, wanted) = Moved(v, m)
    BY <1>2, <1>5, <2>1 DEF Reserve, ReserveMore
  <2> QED
    BY <1>3, <2>1, <2>2, <2>3, <2>4, MovedHolds
<1> QED
  BY <1>1, <1>2, <1>4, <1>5

\* The sequences that the vector stands for, item by item.
LEMMA EndIs ==
    ASSUME NEW T, NEW s \in Seq(T), NEW k \in Nat, NEW m \in Nat, Len(s) = k + m,
           NEW b, b = SubSeq(s, k + 1, k + m)
    PROVE  b \in Seq(T) /\ Len(b) = m /\ \A i \in 1 .. m : b[i] = s[k + i]
<1>1. SubSeq(s, k + 1, k + m) \in Seq(T)
  OBVIOUS
<1>2. Len(SubSeq(s, k + 1, k + m)) = m
  OBVIOUS
<1>3. \A i \in 1 .. m : SubSeq(s, k + 1, k + m)[i] = s[k + i]
  OBVIOUS
<1> QED
  BY <1>1, <1>2, <1>3, Zenon

\* The items of two sequences, one after the other.
LEMMA JoinedIs ==
    ASSUME NEW T, NEW a \in Seq(T), NEW b \in Seq(T), NEW n \in Nat, NEW m \in Nat, Len(a) = n, Len(b) = m,
           NEW e, e = a \o b
    PROVE  /\ e \in Seq(T) /\ Len(e) = n + m
           /\ \A i \in 1 .. n : e[i] = a[i]
           /\ \A i \in 1 .. m : e[n + i] = b[i]
<1>1. a \o b \in Seq(T)
  OBVIOUS
<1>2. Len(a \o b) = n + m
  BY ConcatProperties
<1>3. (\A i \in 1 .. n : (a \o b)[i] = a[i]) /\ \A i \in 1 .. m : (a \o b)[n + i] = b[i]
  OBVIOUS
<1> QED
  BY <1>1, <1>2, <1>3, Zenon

\* The n items of s without the len that follow the first off.
Shorter(s, n, off, len) == [i \in 1 .. n - len |-> IF i <= off THEN s[i] ELSE s[i + len]]

\* A sequence without len of its items, item by item, for any type of item.
LEMMA LessOf ==
    ASSUME NEW T, NEW n \in Nat, NEW s \in [1 .. n -> T], NEW off \in Nat, NEW len \in Nat, off + len <= n
    PROVE  Less(s, off, len) = Shorter(s, n, off, len)
<1>0. s \in Seq(T) /\ n = Len(s)
  OBVIOUS
<1> USE <1>0
<1>1. PICK k \in Nat : k = off + len /\ k <= n
  <2>1. off + len \in Nat
    OBVIOUS
  <2> QED
    BY <2>1
<1>2. PICK m \in Nat : n = k + m
  <2>1. n - k \in Nat /\ n = k + (n - k)
    BY <1>1
  <2> QED
    BY <2>1
<1>3. PICK a : a = SubSeq(s, 1, off)
  OBVIOUS
<1>4. a \in Seq(T) /\ Len(a) = off /\ \A i \in 1 .. off : a[i] = s[i]
  BY <1>1, <1>3
<1>5. PICK b : b = SubSeq(s, k + 1, n)
  OBVIOUS
<1>6. b \in Seq(T) /\ Len(b) = m /\ \A i \in 1 .. m : b[i] = s[k + i]
  <2>1. b = SubSeq(s, k + 1, k + m) /\ Len(s) = k + m
    BY <1>1, <1>2, <1>5
  <2>2. b \in Seq(T)
    BY <2>1, EndIs
  <2>3. Len(b) = m
    BY <2>1, EndIs
  <2>4. ASSUME NEW i \in 1 .. m PROVE b[i] = s[k + i]
    BY <2>1, EndIs
  <2> QED
    BY <2>2, <2>3, <2>4
<1>7. PICK e : e = a \o b
  OBVIOUS
<1>8. /\ e \in Seq(T) /\ Len(e) = off + m
      /\ \A i \in 1 .. off : e[i] = a[i]
      /\ \A i \in 1 .. m : e[off + i] = b[i]
  <2>1. e = a \o b /\ a \in Seq(T) /\ b \in Seq(T) /\ Len(a) = off /\ Len(b) = m
    BY <1>4, <1>6, <1>7
  <2>2. e \in Seq(T)
    BY <2>1, JoinedIs
  <2>3. Len(e) = off + m
    <3>1. Len(a \o b) = Len(a) + Len(b)
      BY <2>1, ConcatProperties
    <3> QED
      BY <2>1, <3>1
  <2>4. ASSUME NEW i \in 1 .. off PROVE e[i] = a[i]
    BY <2>1, JoinedIs
  <2>5. ASSUME NEW i \in 1 .. m PROVE e[off + i] = b[i]
    BY <2>1, JoinedIs
  <2> QED
    BY <2>2, <2>3, <2>4, <2>5
<1>9. ASSUME NEW i \in 1 .. n - len PROVE e[i] = IF i <= off THEN s[i] ELSE s[i + len]
  <2>1. CASE i <= off
    BY <1>4, <1>8, <2>1
  <2>2. CASE ~ (i <= off)
    <3>1. PICK j \in 1 .. m : i = off + j /\ k + j = i + len
      <4>1. i - off \in 1 .. m /\ i = off + (i - off) /\ k + (i - off) = i + len
        BY <1>1, <1>2, <2>2
      <4> QED
        BY <4>1
    <3> QED
      BY <1>6, <1>8, <2>2, <3>1
  <2> QED
    BY <2>1, <2>2
<1>10. Less(s, off, len) = e
  BY <1>1, <1>3, <1>5, <1>7 DEF Less
<1>11. PICK q \in Nat : q = n - len /\ Len(e) = q
  BY <1>1, <1>2, <1>8
<1>12. e = [i \in 1 .. q |-> IF i <= off THEN s[i] ELSE s[i + len]]
  <2>1. e \in [1 .. q -> T]
    <3>1. e \in Seq(T) /\ Len(e) = q
      BY <1>8, <1>11
    <3> QED
      BY ONLY <3>1, q \in Nat
  <2>2. \A i \in 1 .. q : e[i] = IF i <= off THEN s[i] ELSE s[i + len]
    BY <1>9, <1>11
  <2> QED
    BY ONLY <2>1, <2>2
<1>13. Shorter(s, n, off, len) = e
  <2>1. Shorter(s, n, off, len) = [i \in 1 .. q |-> IF i <= off THEN s[i] ELSE s[i + len]]
    BY <1>11 DEF Shorter
  <2> QED
    BY <1>12, <2>1, Zenon
<1> QED
  BY <1>10, <1>13

\* The same for the items of a vector.
LEMMA LessIs ==
    ASSUME NEW n \in Nat, NEW s \in [1 .. n -> Items], NEW off \in Nat, NEW len \in Nat, off + len <= n
    PROVE  Less(s, off, len) = [i \in 1 .. n - len |-> IF i <= off THEN s[i] ELSE s[i + len]]
<1>1. Less(s, off, len) = Shorter(s, n, off, len)
  BY ONLY n \in Nat, s \in [1 .. n -> Items], off \in Nat, len \in Nat, off + len <= n, LessOf
<1> QED
  BY <1>1, Zenon DEF Shorter

\* One item, n times.
LEMMA TimesIs ==
    ASSUME NEW x \in Items, NEW n \in Nat
    PROVE  /\ Times(x, n) \in Seq(Items) /\ Len(Times(x, n)) = n
           /\ \A i \in 1 .. n : Times(x, n)[i] = x
BY DEF Times

\* A sequence with len copies of x after its first off items, item by item.
LEMMA InsertionIs ==
    ASSUME NEW n \in Nat, NEW s \in [1 .. n -> Items], NEW off \in Nat, off <= n, NEW len \in Nat, NEW x \in Items
    PROVE  Insertion(s, off, Times(x, len))
              = [i \in 1 .. n + len |-> IF i <= off THEN s[i] ELSE IF i <= off + len THEN x ELSE s[i - len]]
<1>0. s \in Seq(Items) /\ n = Len(s)
  OBVIOUS
<1> USE <1>0
<1>t. PICK t : t = Insertion(s, off, Times(x, len))
  OBVIOUS
<1>1. PICK k \in Nat : k = off + len
  <2>1. off + len \in Nat
    OBVIOUS
  <2> QED
    BY <2>1
<1>2. PICK m \in Nat : n = off + m
  <2>1. n - off \in Nat /\ n = off + (n - off)
    OBVIOUS
  <2> QED
    BY <2>1
<1>3. PICK a : a = SubSeq(s, 1, off)
  OBVIOUS
<1>4. a \in Seq(Items) /\ Len(a) = off /\ \A i \in 1 .. off : a[i] = s[i]
  BY <1>3
<1>5. PICK b : b = SubSeq(s, off + 1, n)
  OBVIOUS
<1>6. b \in Seq(Items) /\ Len(b) = m /\ \A i \in 1 .. m : b[i] = s[off + i]
  <2>1. b = SubSeq(s, off + 1, off + m) /\ Len(s) = off + m /\ off \in Nat
    BY <1>2, <1>5
  <2>2. b \in Seq(Items)
    BY <2>1, EndIs
  <2>3. Len(b) = m
    BY <2>1, EndIs
  <2>4. ASSUME NEW i \in 1 .. m PROVE b[i] = s[off + i]
    BY <2>1, EndIs
  <2> QED
    BY <2>2, <2>3, <2>4
<1>7. PICK d : d = Times(x, len)
  OBVIOUS
<1>8. d \in Seq(Items) /\ Len(d) = len /\ \A i \in 1 .. len : d[i] = x
  BY <1>7, TimesIs
<1>9. PICK e : e = a \o d
  OBVIOUS
<1>10. /\ e \in Seq(Items) /\ Len(e) = k
       /\ \A i \in 1 .. off : e[i] = a[i]
       /\ \A i \in 1 .. len : e[off + i] = d[i]
  <2>1. Len(a \o d) = Len(a) + Len(d) /\ a \o d \in Seq(Items)
    BY <1>4, <1>8, ConcatProperties
  <2>2. e \in Seq(Items) /\ Len(e) = k
    BY <1>1, <1>4, <1>8, <1>9, <2>1
  <2>3. e = a \o d /\ a \in Seq(Items) /\ d \in Seq(Items) /\ Len(a) = off /\ Len(d) = len
    BY <1>4, <1>8, <1>9
  <2>4. ASSUME NEW i \in 1 .. off PROVE e[i] = a[i]
    BY <2>3, JoinedIs
  <2>5. ASSUME NEW i \in 1 .. len PROVE e[off + i] = d[i]
    BY <2>3, JoinedIs
  <2> QED
    BY <2>2, <2>4, <2>5
<1>11. t = e \o b
  BY <1>t, <1>3, <1>5, <1>7, <1>9 DEF Insertion
<1>12. /\ t \in Seq(Items) /\ Len(t) = k + m
       /\ \A i \in 1 .. k : t[i] = e[i]
       /\ \A i \in 1 .. m : t[k + i] = b[i]
  <2>1. t = e \o b /\ e \in Seq(Items) /\ b \in Seq(Items) /\ Len(e) = k /\ Len(b) = m
    BY <1>6, <1>10, <1>11
  <2>2. t \in Seq(Items)
    BY <2>1, JoinedIs
  <2>3. Len(t) = k + m
    <3>1. Len(e \o b) = Len(e) + Len(b)
      BY <2>1, ConcatProperties
    <3> QED
      BY <2>1, <3>1
  <2>4. ASSUME NEW i \in 1 .. k PROVE t[i] = e[i]
    BY <2>1, JoinedIs
  <2>5. ASSUME NEW i \in 1 .. m PROVE t[k + i] = b[i]
    BY <2>1, JoinedIs
  <2> QED
    BY <2>2, <2>3, <2>4, <2>5
<1>13. ASSUME NEW i \in 1 .. n + len
       PROVE t[i] = IF i <= off THEN s[i] ELSE IF i <= off + len THEN x ELSE s[i - len]
  <2>1. CASE i <= off
    <3>1. i \in 1 .. off /\ i \in 1 .. k
      BY <1>1, <2>1
    <3> QED
      BY <1>4, <1>10, <1>12, <2>1, <3>1
  <2>2. CASE ~ (i <= off) /\ i <= off + len
    <3>1. PICK j \in 1 .. len : i = off + j
      <4>1. i - off \in 1 .. len /\ i = off + (i - off)
        BY <2>2
      <4> QED
        BY <4>1
    <3>2. i \in 1 .. k
      BY <1>1, <2>2
    <3> QED
      BY <1>8, <1>10, <1>12, <2>2, <3>1, <3>2
  <2>3. CASE ~ (i <= off + len)
    <3>1. PICK j \in 1 .. m : i = k + j /\ off + j = i - len
      <4>1. i - k \in 1 .. m /\ i = k + (i - k) /\ off + (i - k) = i - len
        BY <1>1, <1>2, <2>3
      <4> QED
        BY <4>1
    <3>2. ~ (i <= off)
      BY <2>3
    <3> QED
      BY <1>6, <1>12, <2>3, <3>1, <3>2
  <2> QED
    BY <2>1, <2>2, <2>3
<1>14. PICK q \in Nat : q = n + len /\ Len(t) = q
  BY <1>1, <1>2, <1>12
<1>15. t = [i \in 1 .. q |-> IF i <= off THEN s[i] ELSE IF i <= off + len THEN x ELSE s[i - len]]
  <2>1. t \in [1 .. q -> Items]
    BY <1>12, <1>14
  <2>2. \A i \in 1 .. q : t[i] = IF i <= off THEN s[i] ELSE IF i <= off + len THEN x ELSE s[i - len]
    BY <1>13, <1>14
  <2> QED
    BY ONLY <2>1, <2>2
<1> QED
  BY <1>t, <1>14, <1>15

\* A sequence cut, or filled with x, to n items.
LEMMA SmallerIs ==
    ASSUME NEW l \in Nat, NEW s \in [1 .. l -> Items], NEW n \in Nat, NEW x \in Items
    PROVE  Smaller(s, n, x) = [i \in 1 .. n |-> IF i <= l THEN s[i] ELSE x]
<1>0. s \in Seq(Items) /\ l = Len(s)
  OBVIOUS
<1> USE <1>0
<1>1. CASE n <= l
  <2>1. PICK t : t = SubSeq(s, 1, n)
    OBVIOUS
  <2>2. t \in Seq(Items) /\ Len(t) = n /\ \A i \in 1 .. n : t[i] = s[i]
    BY <1>1, <2>1
  <2>3. Smaller(s, n, x) = t
    BY <1>1, <2>1 DEF Smaller
  <2>4. t = [i \in 1 .. n |-> IF i <= l THEN s[i] ELSE x]
    BY <1>1, <2>2
  <2> QED
    BY <2>3, <2>4
<1>2. CASE ~ (n <= l)
  <2>1. PICK m \in Nat : n = l + m
    <3>1. n - l \in Nat /\ n = l + (n - l)
      BY <1>2
    <3> QED
      BY <3>1
  <2>2. PICK d : d = Times(x, m)
    OBVIOUS
  <2>3. d \in Seq(Items) /\ Len(d) = m /\ \A i \in 1 .. m : d[i] = x
    BY <2>2, TimesIs
  <2>4. PICK e : e = s \o d
    OBVIOUS
  <2>5. /\ e \in Seq(Items) /\ Len(e) = n
        /\ \A i \in 1 .. l : e[i] = s[i]
        /\ \A i \in 1 .. m : e[l + i] = d[i]
    <3>1. Len(s \o d) = Len(s) + Len(d) /\ s \o d \in Seq(Items)
      BY <2>3, ConcatProperties
    <3>2. e \in Seq(Items) /\ Len(e) = n
      BY <2>1, <2>3, <2>4, <3>1
    <3>3. ASSUME NEW i \in 1 .. l PROVE e[i] = s[i]
      BY <2>1, <2>3, <2>4, JoinedIs
    <3>4. ASSUME NEW i \in 1 .. m PROVE e[l + i] = d[i]
      BY <2>1, <2>3, <2>4, JoinedIs
    <3> QED
      BY <3>2, <3>3, <3>4
  <2>6. ASSUME NEW i \in 1 .. n, ~ (i <= l) PROVE e[i] = x
    <3>1. PICK j \in 1 .. m : i = l + j
      <4>1. i - l \in 1 .. m /\ i = l + (i - l)
        BY <2>1, <2>6
      <4> QED
        BY <4>1
    <3> QED
      BY <2>3, <2>5, <3>1
  <2>7. Smaller(s, n, x) = e
    <3>1. n - l = m
      BY <2>1
    <3> QED
      BY <1>2, <2>2, <2>4, <3>1 DEF Smaller
  <2>8. ASSUME NEW i \in 1 .. n PROVE e[i] = IF i <= l THEN s[i] ELSE x
    <3>1. CASE i <= l
      <4>1. i \in 1 .. l
        BY <3>1
      <4> QED
        BY <2>5, <3>1, <4>1
    <3>2. CASE ~ (i <= l)
      BY <2>6, <3>2
    <3> QED
      BY <3>1, <3>2
  <2>9. e = [i \in 1 .. n |-> IF i <= l THEN s[i] ELSE x]
    BY <2>5, <2>8
  <2> QED
    BY <2>7, <2>9
<1> QED
  BY <1>1, <1>2

\* A sequence without its last item, which replaces the one at off.
LEMMA LastToIs ==
    ASSUME NEW n \in Nat, NEW s \in [1 .. n -> Items], NEW off \in 0 .. n - 1
    PROVE  LastTo(s, off) = [i \in 1 .. n - 1 |-> IF i = off + 1 THEN s[n] ELSE s[i]]
<1>0. s \in Seq(Items) /\ n = Len(s)
  OBVIOUS
<1> USE <1>0
<1>1. n - 1 \in Nat /\ n - 1 <= n /\ n \in 1 .. n
  OBVIOUS
<1>2. PICK t : t = SubSeq(s, 1, n - 1)
  OBVIOUS
<1>3. t \in Seq(Items) /\ Len(t) = n - 1 /\ \A i \in 1 .. n - 1 : t[i] = s[i]
  BY <1>1, <1>2
<1>4. s[n] \in Items
  BY <1>1, ElementOfSeq
<1>5. CASE off + 1 = n
  <2>1. LastTo(s, off) = t
    BY <1>2, <1>5 DEF LastTo
  <2>2. PICK m \in Nat : m = n - 1
    BY <1>1
  <2>3. t = [i \in 1 .. m |-> IF i = off + 1 THEN s[n] ELSE s[i]]
    BY <1>3, <1>5, <2>2
  <2> QED
    BY <2>1, <2>2, <2>3
<1>6. CASE off + 1 # n
  <2>1. PICK e : e = [t EXCEPT ![off + 1] = s[n]]
    OBVIOUS
  <2>2. e = LastTo(s, off)
    BY <1>2, <1>6, <2>1 DEF LastTo
  <2>3. t \in [1 .. n - 1 -> Items]
    BY <1>3, LenProperties, ElementOfSeq
  <2>4. e \in [1 .. n - 1 -> Items] /\ \A i \in 1 .. n - 1 : e[i] = IF i = off + 1 THEN s[n] ELSE s[i]
    BY <1>3, <1>4, <2>1, <2>3
  <2>5. e = [i \in 1 .. n - 1 |-> IF i = off + 1 THEN s[n] ELSE s[i]]
    BY <2>4
  <2> QED
    BY <2>2, <2>5
<1> QED
  BY <1>5, <1>6


\* The last item is destroyed.
LEMMA PoppedHolds ==
    ASSUME NEW r \in Nat, NEW n \in Nat, NEW k \in Nat, k = r \div ItemSize, n <= k, n # 0,
           NEW c \in [1 .. k -> Value],
           NEW t \in Seq(Items), Len(t) = n - 1, \A i \in 1 .. n - 1 : c[i] = t[i]
    PROVE  Holds(PopBack([size |-> n, rese |-> r, cells |-> c]), t)
<1>1. PICK d : d = [c EXCEPT ![n] = Raw]
  OBVIOUS
<1>2. PICK m \in Nat : m = n - 1 /\ m <= k
  <2>1. n - 1 \in Nat /\ n - 1 <= k
    OBVIOUS
  <2> QED
    BY <2>1
<1>3. d \in [1 .. k -> Value] /\ \A i \in 1 .. m : d[i] = t[i]
  <2>1. Raw \in Value
    BY DEF Value
  <2>2. d \in [1 .. k -> Value]
    BY <1>1, <2>1
  <2>3. ASSUME NEW i \in 1 .. m PROVE d[i] = t[i]
    <3>1. i # n /\ i \in 1 .. k /\ i \in 1 .. n - 1
      BY <1>2
    <3> QED
      BY <1>1, <3>1
  <2> QED
    BY <2>2, <2>3
<1>4. PICK v : v = [size |-> n, rese |-> r, cells |-> c]
  OBVIOUS
<1>4a. PopBack(v) = [size |-> m, rese |-> r, cells |-> d]
  <2>1. PopBack(v) = [v EXCEPT !.size = @ - 1, !.cells[v.size] = Raw]
    BY Zenon DEF PopBack
  <2>2. v = [size |-> n, rese |-> r, cells |-> c] /\ d = [c EXCEPT ![n] = Raw] /\ n - 1 = m
    BY <1>1, <1>2, <1>4
  <2> QED
    BY ONLY <2>1, <2>2
<1>5. Holds([size |-> m, rese |-> r, cells |-> d], t)
  BY <1>2, <1>3, MadeHolds
<1> QED
  BY <1>4, <1>4a, <1>5

\* push_back appends.
LEMMA PushBackHolds ==
    ASSUME NEW v, NEW s, Holds(v, s), NEW x \in Items
    PROVE  Holds(PushBack(v, x), Append(s, x))
<1>0. PICK w : w = ReserveMore(v, v.size + 1)
  OBVIOUS
<1>a. Holds(w, s) /\ v.size + 1 <= Room(w) /\ v.size = Len(s)
  <2>1. v.size \in Nat /\ v.size = Len(s)
    BY HoldsParts
  <2>2. v.size + 1 \in Nat
    BY <2>1
  <2> QED
    BY <1>0, <2>1, <2>2, ReserveHolds
<1>1. PICK r, n, k \in Nat : \E c \in [1 .. k -> Value] :
              /\ w = [size |-> n, rese |-> r, cells |-> c]
              /\ s \in Seq(Items) /\ n = Len(s) /\ n <= k /\ k = r \div ItemSize
              /\ \A i \in 1 .. n : c[i] = s[i] /\ s[i] \in Items
  BY HoldsParts, <1>a
<1>2. PICK c \in [1 .. k -> Value] :
              /\ w = [size |-> n, rese |-> r, cells |-> c]
              /\ s \in Seq(Items) /\ n = Len(s) /\ n <= k /\ k = r \div ItemSize
              /\ \A i \in 1 .. n : c[i] = s[i] /\ s[i] \in Items
  BY <1>1
<1>3. n + 1 <= k
  BY <1>a, <1>2 DEF Room
<1>4. PICK m \in Nat : m = n + 1
  OBVIOUS
<1>5. PICK d : d = [c EXCEPT ![m] = x]
  OBVIOUS
<1>6. /\ Append(s, x) \in Seq(Items) /\ Len(Append(s, x)) = m
      /\ \A i \in 1 .. n : Append(s, x)[i] = s[i]
      /\ Append(s, x)[m] = x
  BY <1>2, <1>4, AppendProperties
<1>7. d \in [1 .. k -> Value] /\ \A i \in 1 .. m : d[i] = Append(s, x)[i]
  <2>1. x \in Value
    BY DEF Value
  <2>2. d \in [1 .. k -> Value]
    BY <1>5, <2>1
  <2>3. ASSUME NEW i \in 1 .. n PROVE d[i] = Append(s, x)[i]
    <3>1. i # m /\ i \in 1 .. k
      BY <1>2, <1>4
    <3> QED
      BY <1>2, <1>5, <1>6, <3>1
  <2>4. d[m] = x
    <3>1. m \in 1 .. k
      BY <1>3, <1>4
    <3> QED
      BY <1>5, <3>1
  <2>5. \A i \in 1 .. m : i = m \/ i \in 1 .. n
    BY <1>4
  <2> QED
    BY <1>6, <2>2, <2>3, <2>4, <2>5
<1>8. PushBack(v, x) = [size |-> m, rese |-> r, cells |-> d]
  <2>1. PushBack(v, x) = [w EXCEPT !.cells[w.size + 1] = x, !.size = @ + 1]
    BY <1>0, Zenon DEF PushBack
  <2> QED
    BY <1>2, <1>4, <1>5, <2>1
<1>9. Holds([size |-> m, rese |-> r, cells |-> d], Append(s, x))
  BY <1>2, <1>3, <1>4, <1>6, <1>7, MadeHolds
<1> QED
  BY <1>8, <1>9

\* pop_back takes the last item away.
LEMMA PopBackHolds ==
    ASSUME NEW v, NEW s, Holds(v, s), s # <<>>
    PROVE  Holds(PopBack(v), SubSeq(s, 1, Len(s) - 1))
<1>1. PICK r, n, k \in Nat : \E c \in [1 .. k -> Value] :
              /\ v = [size |-> n, rese |-> r, cells |-> c]
              /\ s \in Seq(Items) /\ n = Len(s) /\ n <= k /\ k = r \div ItemSize
              /\ \A i \in 1 .. n : c[i] = s[i] /\ s[i] \in Items
  BY HoldsParts
<1>2. PICK c \in [1 .. k -> Value] :
              /\ v = [size |-> n, rese |-> r, cells |-> c]
              /\ s \in Seq(Items) /\ n = Len(s) /\ n <= k /\ k = r \div ItemSize
              /\ \A i \in 1 .. n : c[i] = s[i] /\ s[i] \in Items
  BY <1>1
<1>3. n # 0
  BY <1>2, EmptySeq
<1>4. PICK t : t = SubSeq(s, 1, n - 1)
  OBVIOUS
<1>5. t \in Seq(Items) /\ Len(t) = n - 1 /\ \A i \in 1 .. n - 1 : t[i] = s[i]
  BY <1>2, <1>3, <1>4
<1>5a. \A i \in 1 .. n - 1 : c[i] = t[i]
  <2>1. \A i \in 1 .. n - 1 : i \in 1 .. n
    BY <1>2
  <2> QED
    BY <1>2, <1>5, <2>1
<1>6. Holds(PopBack([size |-> n, rese |-> r, cells |-> c]), t)
  BY <1>2, <1>3, <1>5, <1>5a, PoppedHolds
<1> QED
  BY <1>2, <1>4, <1>6

\* What is after off moves down, then the last one goes.
LEMMA VecRemoveHolds ==
    ASSUME NEW v, NEW s, Holds(v, s), NEW off \in Nat, off + 1 <= Len(s)
    PROVE  Holds(VecRemove(v, off), Less(s, off, 1))
<1>1. PICK r, n, k \in Nat : \E c \in [1 .. k -> Value] :
              /\ v = [size |-> n, rese |-> r, cells |-> c]
              /\ s \in Seq(Items) /\ n = Len(s) /\ n <= k /\ k = r \div ItemSize
              /\ \A i \in 1 .. n : c[i] = s[i] /\ s[i] \in Items
  BY HoldsParts
<1>2. PICK c \in [1 .. k -> Value] :
              /\ v = [size |-> n, rese |-> r, cells |-> c]
              /\ s \in Seq(Items) /\ n = Len(s) /\ n <= k /\ k = r \div ItemSize
              /\ \A i \in 1 .. n : c[i] = s[i] /\ s[i] \in Items
  BY <1>1
<1>3. n # 0 /\ off \in Nat /\ off + 1 <= n
  BY <1>2
<1>4. PICK d : d = [i \in 1 .. k |-> IF i > off /\ i < n THEN c[i + 1] ELSE c[i]]
  OBVIOUS
<1>5. PICK t : t = Less(s, off, 1)
  OBVIOUS
<1>6. t \in Seq(Items) /\ Len(t) = n - 1 /\ \A i \in 1 .. n - 1 : t[i] = IF i <= off THEN s[i] ELSE s[i + 1]
  <2>1. s \in [1 .. n -> Items]
    BY <1>2
  <2>2. t = [i \in 1 .. n - 1 |-> IF i <= off THEN s[i] ELSE s[i + 1]]
    <3>1. PICK l \in Nat : l = 1 /\ off + l <= n
      BY <1>3
    <3>2. Less(s, off, l) = [i \in 1 .. n - l |-> IF i <= off THEN s[i] ELSE s[i + l]]
      BY <1>3, <2>1, <3>1, LessIs
    <3> QED
      BY <1>5, <3>1, <3>2, Zenon
  <2>3. PICK m \in Nat : m = n - 1
    BY <1>3
  <2>4. t \in [1 .. m -> Items]
    BY <1>3, <2>1, <2>2, <2>3
  <2>5. t \in Seq(Items) /\ Len(t) = n - 1
    BY <2>3, <2>4
  <2> QED
    BY <2>2, <2>5
<1>7. d \in [1 .. k -> Value]
  <2>1. ASSUME NEW i \in 1 .. k, i > off, i < n PROVE i + 1 \in 1 .. k
    BY <1>2, <1>3, <2>1
  <2> QED
    BY <1>4, <2>1
<1>8. ASSUME NEW i \in 1 .. n - 1 PROVE d[i] = t[i]
  <2>1. i \in 1 .. k /\ i \in 1 .. n /\ i + 1 \in 1 .. n /\ i < n
    BY <1>2
  <2>2. d[i] = IF i > off THEN c[i + 1] ELSE c[i]
    BY <1>4, <2>1
  <2>3. t[i] = IF i > off THEN s[i + 1] ELSE s[i]
    BY <1>3, <1>6, <2>1
  <2> QED
    BY <1>2, <2>1, <2>2, <2>3
<1>9. VecRemove(v, off) = PopBack([size |-> n, rese |-> r, cells |-> d])
  <2>1. [v EXCEPT !.cells = [i \in DOMAIN @ |-> IF i > off /\ i < v.size THEN @[i + 1] ELSE @[i]]]
           = [size |-> n, rese |-> r, cells |-> d]
    <3>1. v.size = n /\ v.cells = c /\ DOMAIN c = 1 .. k
      BY <1>2
    <3>2. [i \in DOMAIN v.cells |-> IF i > off /\ i < v.size THEN v.cells[i + 1] ELSE v.cells[i]] = d
      BY <1>4, <3>1, Zenon
    <3>3. [v EXCEPT !.cells = [i \in DOMAIN @ |-> IF i > off /\ i < v.size THEN @[i + 1] ELSE @[i]]]
             = [v EXCEPT !.cells = d]
      BY <3>2, Zenon
    <3> HIDE <1>4
    <3> QED
      BY <1>2, <3>3
  <2> QED
    BY <2>1 DEF VecRemove
<1>10. Holds(PopBack([size |-> n, rese |-> r, cells |-> d]), t)
  BY <1>2, <1>3, <1>6, <1>7, <1>8, PoppedHolds
<1> QED
  BY <1>5, <1>9, <1>10

\* remove_unordered puts the last item at off.
LEMMA RemoveUnorderedHolds ==
    ASSUME NEW v, NEW s, Holds(v, s), NEW off \in 0 .. Len(s) - 1
    PROVE  Holds(RemoveUnordered(v, off), LastTo(s, off))
<1>1. PICK r, n, k \in Nat : \E c \in [1 .. k -> Value] :
              /\ v = [size |-> n, rese |-> r, cells |-> c]
              /\ s \in Seq(Items) /\ n = Len(s) /\ n <= k /\ k = r \div ItemSize
              /\ \A i \in 1 .. n : c[i] = s[i] /\ s[i] \in Items
  BY HoldsParts
<1>2. PICK c \in [1 .. k -> Value] :
              /\ v = [size |-> n, rese |-> r, cells |-> c]
              /\ s \in Seq(Items) /\ n = Len(s) /\ n <= k /\ k = r \div ItemSize
              /\ \A i \in 1 .. n : c[i] = s[i] /\ s[i] \in Items
  BY <1>1
<1>3. n # 0 /\ n \in 1 .. k /\ n \in 1 .. n
  BY <1>2
<1>4. PICK d : d = [c EXCEPT ![off + 1] = c[n]]
  OBVIOUS
<1>5. PICK t : t = LastTo(s, off)
  OBVIOUS
<1>6. t \in Seq(Items) /\ Len(t) = n - 1 /\ \A i \in 1 .. n - 1 : t[i] = IF i = off + 1 THEN s[n] ELSE s[i]
  <2>1. s \in [1 .. n -> Items]
    BY <1>2
  <2>2. t = [i \in 1 .. n - 1 |-> IF i = off + 1 THEN s[n] ELSE s[i]]
    BY <1>2, <1>5, <2>1, LastToIs
  <2>3. PICK m \in Nat : m = n - 1
    BY <1>3
  <2>4. t \in [1 .. m -> Items]
    BY <1>3, <2>1, <2>2, <2>3
  <2> QED
    BY <2>2, <2>3, <2>4
<1>7. d \in [1 .. k -> Value]
  BY <1>3, <1>4
<1>8. ASSUME NEW i \in 1 .. n - 1 PROVE d[i] = t[i]
  <2>1. i \in 1 .. k /\ i \in 1 .. n
    BY <1>2
  <2> QED
    BY <1>2, <1>3, <1>4, <1>6, <2>1
<1>9. RemoveUnordered(v, off) = PopBack([size |-> n, rese |-> r, cells |-> d])
  <2>1. [v EXCEPT !.cells[off + 1] = v.cells[v.size]] = [size |-> n, rese |-> r, cells |-> d]
    <3>1. PICK p : p = off + 1
      OBVIOUS
    <3>2. PICK y : y = v.cells[v.size]
      OBVIOUS
    <3>3. v = [size |-> n, rese |-> r, cells |-> c] /\ d = [c EXCEPT ![p] = y]
      BY <1>2, <1>4, <3>1, <3>2
    <3>4. [v EXCEPT !.cells[p] = y] = [size |-> n, rese |-> r, cells |-> d]
      <4>1. v.cells = c
        BY <1>2
      <4>2. [v EXCEPT !.cells[p] = y] = [v EXCEPT !.cells = d]
        BY <3>3, <4>1, Zenon
      <4> HIDE <1>4
      <4> QED
        BY <1>2, <4>2
    <3> QED
      BY <3>1, <3>2, <3>4, Zenon
  <2> QED
    BY <2>1 DEF RemoveUnordered
<1>10. Holds(PopBack([size |-> n, rese |-> r, cells |-> d]), t)
  BY <1>2, <1>3, <1>6, <1>7, <1>8, PoppedHolds
<1> QED
  BY <1>5, <1>9, <1>10


\* A vector with another size and other cells, and the memory it had.
LEMMA Changed ==
    ASSUME NEW n, NEW r, NEW c, NEW v, v = [size |-> n, rese |-> r, cells |-> c], NEW m, NEW d
    PROVE  [v EXCEPT !.size = m, !.cells = d] = [size |-> m, rese |-> r, cells |-> d]
<1>1. v.size = n /\ v.rese = r /\ v.cells = c /\ DOMAIN v = {"size", "rese", "cells"}
  OBVIOUS
<1>2. PICK w : w = [v EXCEPT !.size = m, !.cells = d]
  OBVIOUS
<1>3. w.size = m /\ w.rese = r /\ w.cells = d /\ DOMAIN w = {"size", "rese", "cells"}
  BY ONLY <1>1, <1>2
<1>4. w = [size |-> m, rese |-> r, cells |-> d]
  BY ONLY <1>2, <1>3
<1> QED
  BY <1>2, <1>4

\* The memory has the values of a sequence.
LEMMA FilledHolds ==
    ASSUME NEW r \in Nat, NEW k, k = r \div ItemSize, NEW c \in [1 .. k -> Value],
           NEW n \in Nat, n <= k, NEW s \in [1 .. n -> Items], \A i \in 1 .. n : c[i] = s[i]
    PROVE  Holds([size |-> n, rese |-> r, cells |-> c], s)
<1>1. s \in Seq(Items) /\ n = Len(s)
  OBVIOUS
<1> QED
  BY <1>1, MadeHolds

\* remove_some takes len items away, wherever they are.
LEMMA RemoveSomeHolds ==
    ASSUME NEW v, NEW s, Holds(v, s), NEW off \in Nat, NEW len \in Nat, off + len <= Len(s)
    PROVE  Holds(RemoveSome(v, off, len), Less(s, off, len))
<1>1. PICK r, n, k \in Nat : \E c \in [1 .. k -> Value] :
              /\ v = [size |-> n, rese |-> r, cells |-> c]
              /\ s \in Seq(Items) /\ n = Len(s) /\ n <= k /\ k = r \div ItemSize
              /\ \A i \in 1 .. n : c[i] = s[i] /\ s[i] \in Items
  BY HoldsParts
<1>2. PICK c \in [1 .. k -> Value] :
              /\ v = [size |-> n, rese |-> r, cells |-> c]
              /\ s \in Seq(Items) /\ n = Len(s) /\ n <= k /\ k = r \div ItemSize
              /\ \A i \in 1 .. n : c[i] = s[i] /\ s[i] \in Items
  BY <1>1
<1>3. s \in [1 .. n -> Items]
  BY <1>2
<1>r. v.size = n /\ v.rese = r /\ v.cells = c /\ DOMAIN c = 1 .. k
  BY <1>2
<1>k. k = r \div ItemSize /\ n <= k /\ n = Len(s)
  BY <1>2
<1>f. v = [size |-> n, rese |-> r, cells |-> c]
  BY <1>2
<1>i. \A i \in 1 .. n : c[i] = s[i]
  BY <1>2
<1> HIDE <1>1, <1>2
<1>4. off + len <= n
  BY <1>k
<1>5. PICK m \in Nat : m = n - len /\ m <= k /\ m + len = n /\ off <= m
  <2>1. n - len \in Nat /\ n - len <= k /\ (n - len) + len = n /\ off <= n - len
    BY <1>k, <1>4
  <2> QED
    BY <2>1
<1>6. Less(s, off, len) = [i \in 1 .. n - len |-> IF i <= off THEN s[i] ELSE s[i + len]]
  BY ONLY n \in Nat, off \in Nat, len \in Nat, <1>3, <1>4, LessIs
<1>7. PICK t : t = [i \in 1 .. m |-> IF i <= off THEN s[i] ELSE s[i + len]]
  OBVIOUS
<1>8. PICK d : d = [i \in 1 .. k |-> IF i > off /\ i <= m THEN c[i + len] ELSE c[i]]
  OBVIOUS
<1>9. \A i \in 1 .. m : i \in 1 .. n /\ i + len \in 1 .. n /\ i \in 1 .. k /\ i + len \in 1 .. k
  BY <1>k, <1>5
<1>10. t \in [1 .. m -> Items]
  BY <1>3, <1>7, <1>9
<1>11. d \in [1 .. k -> Value]
  <2>1. ASSUME NEW i \in 1 .. k, i > off, i <= m PROVE i + len \in 1 .. k
    BY <1>9, <2>1
  <2> QED
    BY <1>8, <2>1
<1>12. ASSUME NEW i \in 1 .. m PROVE d[i] = t[i]
  <2>1. d[i] = IF i > off THEN c[i + len] ELSE c[i]
    BY <1>8, <1>9
  <2>2. t[i] = IF i <= off THEN s[i] ELSE s[i + len]
    BY <1>7
  <2>3. (~ (i <= off)) <=> i > off
    OBVIOUS
  <2> QED
    BY <1>i, <1>9, <2>1, <2>2, <2>3
<1>13. RemoveSome(v, off, len) = [size |-> m, rese |-> r, cells |-> d]
  <2>1. [i \in DOMAIN v.cells |-> IF i > off /\ i <= v.size - len THEN v.cells[i + len] ELSE v.cells[i]] = d
    BY <1>r, <1>5, <1>8, Zenon
  <2>2. RemoveSome(v, off, len) = [v EXCEPT !.size = m, !.cells = d]
    BY <1>r, <1>5, <2>1, Zenon DEF RemoveSome
  <2> QED
    BY <1>f, <2>2, Changed
<1>14. Holds([size |-> m, rese |-> r, cells |-> d], t)
  <2>1. k = r \div ItemSize /\ m <= k /\ \A i \in 1 .. m : d[i] = t[i]
    BY <1>k, <1>5, <1>12
  <2> QED
    BY ONLY r \in Nat, m \in Nat, <1>10, <1>11, <2>1, FilledHolds
<1>15. Less(s, off, len) = t
  BY <1>5, <1>6, <1>7, Zenon
<1> QED
  BY <1>13, <1>14, <1>15

\* insert_some puts len copies after the first off items, whether the memory moves or not.
LEMMA InsertSomeHolds ==
    ASSUME NEW v, NEW s, Holds(v, s), NEW off \in Nat, off <= Len(s), NEW len \in Nat, NEW x \in Items
    PROVE  Holds(InsertSome(v, off, len, x), Insertion(s, off, Times(x, len)))
<1>0. PICK w : w = ReserveMore(v, v.size + len)
  OBVIOUS
<1>a. Holds(w, s) /\ v.size + len <= Room(w) /\ v.size = Len(s)
  <2>1. v.size \in Nat /\ v.size = Len(s)
    BY HoldsParts
  <2>2. v.size + len \in Nat
    BY <2>1
  <2> QED
    BY <1>0, <2>1, <2>2, ReserveHolds
<1>1. PICK r, n, k \in Nat : \E c \in [1 .. k -> Value] :
              /\ w = [size |-> n, rese |-> r, cells |-> c]
              /\ s \in Seq(Items) /\ n = Len(s) /\ n <= k /\ k = r \div ItemSize
              /\ \A i \in 1 .. n : c[i] = s[i] /\ s[i] \in Items
  BY HoldsParts, <1>a
<1>2. PICK c \in [1 .. k -> Value] :
              /\ w = [size |-> n, rese |-> r, cells |-> c]
              /\ s \in Seq(Items) /\ n = Len(s) /\ n <= k /\ k = r \div ItemSize
              /\ \A i \in 1 .. n : c[i] = s[i] /\ s[i] \in Items
  BY <1>1
<1>3. s \in [1 .. n -> Items]
  BY <1>2
<1>r. w.size = n /\ w.rese = r /\ w.cells = c /\ DOMAIN c = 1 .. k
  BY <1>2
<1>k. k = r \div ItemSize /\ n <= k /\ n = Len(s)
  BY <1>2
<1>f. w = [size |-> n, rese |-> r, cells |-> c]
  BY <1>2
<1>i. \A i \in 1 .. n : c[i] = s[i]
  BY <1>2
<1> HIDE <1>1, <1>2
<1>4. n + len <= k
  BY <1>a, <1>k, <1>r DEF Room
<1>5. PICK m \in Nat : m = n + len /\ m <= k
  <2>1. n + len \in Nat
    OBVIOUS
  <2> QED
    BY <1>4, <2>1
<1>6. Insertion(s, off, Times(x, len))
         = [i \in 1 .. n + len |-> IF i <= off THEN s[i] ELSE IF i <= off + len THEN x ELSE s[i - len]]
  <2>1. off <= n
    BY <1>k
  <2>2. PICK f : f = [i \in 1 .. n + len |-> IF i <= off THEN s[i] ELSE IF i <= off + len THEN x ELSE s[i - len]]
    OBVIOUS
  <2>3. Insertion(s, off, Times(x, len)) = f
    BY ONLY n \in Nat, off \in Nat, len \in Nat, x \in Items, <1>3, <2>1, <2>2, InsertionIs
  <2> QED
    BY <2>2, <2>3, Zenon
<1>7. PICK t : t = [i \in 1 .. m |-> IF i <= off THEN s[i] ELSE IF i <= off + len THEN x ELSE s[i - len]]
  OBVIOUS
<1>8. PICK d : d = [i \in 1 .. k |-> IF i <= off \/ i > m THEN c[i] ELSE IF i <= off + len THEN x ELSE c[i - len]]
  OBVIOUS
<1>9. \A i \in 1 .. m : /\ i \in 1 .. k /\ (i <= off => i \in 1 .. n)
                        /\ (i > off + len => i - len \in 1 .. n /\ i - len \in 1 .. k)
  BY <1>k, <1>5
<1>10. t \in [1 .. m -> Items]
  <2>1. ASSUME NEW i \in 1 .. m
        PROVE (IF i <= off THEN s[i] ELSE IF i <= off + len THEN x ELSE s[i - len]) \in Items
    <3>1. (~ (i <= off + len)) <=> i > off + len
      OBVIOUS
    <3> QED
      BY <1>3, <1>9, <3>1
  <2> QED
    BY <1>7, <2>1
<1>11. d \in [1 .. k -> Value]
  <2>1. ASSUME NEW i \in 1 .. k, ~ (i <= off + len), ~ (i > m) PROVE i - len \in 1 .. k
    <3>1. i \in 1 .. m /\ i > off + len
      BY <2>1
    <3> QED
      BY <1>9, <3>1
  <2>2. x \in Value
    BY DEF Value
  <2> QED
    BY <1>8, <2>1, <2>2
<1>12. ASSUME NEW i \in 1 .. m PROVE d[i] = t[i]
  <2>1. i \in 1 .. k /\ ~ (i > m)
    BY <1>9
  <2>2. CASE i <= off
    <3>1. ~ (i > off + len) /\ ~ (i > off)
      BY <2>2
    <3>2. d[i] = c[i] /\ t[i] = s[i]
      BY <1>7, <1>8, <2>1, <2>2, <3>1
    <3> QED
      BY <1>i, <1>9, <2>2, <3>2
  <2>3. CASE i > off /\ i <= off + len
    <3>1. ~ (i > off + len) /\ ~ (i <= off)
      BY <2>3
    <3>2. d[i] = x /\ t[i] = x
      BY <1>7, <1>8, <2>1, <2>3, <3>1
    <3> QED
      BY <3>2
  <2>4. CASE i > off + len
    <3>1. ~ (i <= off + len) /\ ~ (i <= off) /\ i - len \in 1 .. n
      BY <1>9, <2>4
    <3>2. d[i] = c[i - len] /\ t[i] = s[i - len]
      BY <1>7, <1>8, <2>1, <2>4, <3>1
    <3> QED
      BY <1>i, <3>1, <3>2
  <2> QED
    BY <2>2, <2>3, <2>4
<1>13. CASE len # 0
  <2>1. w.size + len = m /\ DOMAIN w.cells = 1 .. k
    BY <1>r, <1>5
  <2>2. [i \in DOMAIN w.cells |-> IF i <= off \/ i > w.size + len THEN w.cells[i]
                                ELSE IF i <= off + len THEN x ELSE w.cells[i - len]] = d
    BY <1>r, <1>8, <2>1, Zenon
  <2>3. InsertSome(v, off, len, x) = [w EXCEPT !.size = m, !.cells = d]
    BY <1>0, <1>13, <2>1, <2>2, Zenon DEF InsertSome
  <2>4. InsertSome(v, off, len, x) = [size |-> m, rese |-> r, cells |-> d]
    BY <1>f, <2>3, Changed
  <2>5. Holds([size |-> m, rese |-> r, cells |-> d], t)
    <3>1. k = r \div ItemSize /\ m <= k /\ \A i \in 1 .. m : d[i] = t[i]
      BY <1>k, <1>5, <1>12
    <3> QED
      BY ONLY r \in Nat, m \in Nat, <1>10, <1>11, <3>1, FilledHolds
  <2>6. Insertion(s, off, Times(x, len)) = t
    BY <1>5, <1>6, <1>7, Zenon
  <2> QED
    BY <2>4, <2>5, <2>6
<1>14. CASE len = 0
  <2>1. InsertSome(v, off, len, x) = v
    BY <1>14 DEF InsertSome
  <2>2. t = s
    <3>1. m = n
      BY <1>5, <1>14
    <3>2. ASSUME NEW i \in 1 .. m PROVE t[i] = s[i]
      <4>1. (~ (i <= off) => ~ (i <= off + len)) /\ i - len = i
        BY <1>14
      <4> QED
        BY <1>7, <4>1
    <3> QED
      BY <1>3, <1>10, <3>1, <3>2
  <2>3. Insertion(s, off, Times(x, len)) = s
    BY <1>5, <1>6, <1>7, <2>2, Zenon
  <2> QED
    BY <2>1, <2>3
<1> QED
  BY <1>13, <1>14

\* operator= makes the vector that of the other sequence.
LEMMA AssignHolds ==
    ASSUME NEW v, NEW s, Holds(v, s), NEW m \in Nat, NEW t \in [1 .. m -> Items]
    PROVE  Holds(Assign(v, t), t)
<1>0. PICK w : w = Reserve(v, m)
  OBVIOUS
<1>a. Holds(w, s) /\ m <= Room(w)
  BY <1>0, ReserveHolds
<1>b. Len(t) = m
  OBVIOUS
<1>1. PICK r, n, k \in Nat : \E c \in [1 .. k -> Value] :
              /\ w = [size |-> n, rese |-> r, cells |-> c]
              /\ s \in Seq(Items) /\ n = Len(s) /\ n <= k /\ k = r \div ItemSize
              /\ \A i \in 1 .. n : c[i] = s[i] /\ s[i] \in Items
  BY HoldsParts, <1>a
<1>2. PICK c \in [1 .. k -> Value] :
              /\ w = [size |-> n, rese |-> r, cells |-> c]
              /\ s \in Seq(Items) /\ n = Len(s) /\ n <= k /\ k = r \div ItemSize
              /\ \A i \in 1 .. n : c[i] = s[i] /\ s[i] \in Items
  BY <1>1
<1>3. s \in [1 .. n -> Items]
  BY <1>2
<1>r. w.size = n /\ w.rese = r /\ w.cells = c /\ DOMAIN c = 1 .. k
  BY <1>2
<1>k. k = r \div ItemSize /\ n <= k /\ n = Len(s)
  BY <1>2
<1>f. w = [size |-> n, rese |-> r, cells |-> c]
  BY <1>2
<1>i. \A i \in 1 .. n : c[i] = s[i]
  BY <1>2
<1> HIDE <1>1, <1>2
<1>4. m <= k
  BY <1>a, <1>k, <1>r DEF Room
<1>5. PICK z \in Nat : z = v.size
  BY HoldsParts
<1>6. PICK d : d = [i \in 1 .. k |-> IF i <= m THEN t[i] ELSE IF i <= z THEN Raw ELSE c[i]]
  OBVIOUS
<1>7. d \in [1 .. k -> Value] /\ \A i \in 1 .. m : d[i] = t[i]
  <2>1. \A i \in 1 .. k : i <= m => i \in 1 .. m
    OBVIOUS
  <2>2. \A i \in 1 .. m : i \in 1 .. k /\ i <= m
    BY <1>4
  <2>3. d \in [1 .. k -> Value]
    BY <1>6, <2>1 DEF Value
  <2> QED
    BY <1>6, <2>2, <2>3
<1>8. Assign(v, t) = [size |-> m, rese |-> r, cells |-> d]
  <2>1. [i \in DOMAIN w.cells |-> IF i <= Len(t) THEN t[i] ELSE IF i <= v.size THEN Raw ELSE w.cells[i]] = d
    BY <1>b, <1>r, <1>5, <1>6, Zenon
  <2>2. Assign(v, t) = [w EXCEPT !.size = m, !.cells = d]
    BY <1>0, <1>b, <2>1, Zenon DEF Assign
  <2> QED
    BY <1>f, <2>2, Changed
<1>9. Holds([size |-> m, rese |-> r, cells |-> d], t)
  BY ONLY r \in Nat, m \in Nat, t \in [1 .. m -> Items], <1>k, <1>4, <1>7, FilledHolds
<1> QED
  BY <1>8, <1>9

\* What is in excess is destroyed before the memory is reserved, what lacks is made after.
LEMMA ResizeHolds ==
    ASSUME NEW v, NEW s, Holds(v, s), NEW m \in Nat, NEW x \in Items
    PROVE  Holds(Resize(v, m, x), Smaller(s, m, x))
<1>1. PICK r, n, k \in Nat : \E c \in [1 .. k -> Value] :
              /\ v = [size |-> n, rese |-> r, cells |-> c]
              /\ s \in Seq(Items) /\ n = Len(s) /\ n <= k /\ k = r \div ItemSize
              /\ \A i \in 1 .. n : c[i] = s[i] /\ s[i] \in Items
  BY HoldsParts
<1>2. PICK c \in [1 .. k -> Value] :
              /\ v = [size |-> n, rese |-> r, cells |-> c]
              /\ s \in Seq(Items) /\ n = Len(s) /\ n <= k /\ k = r \div ItemSize
              /\ \A i \in 1 .. n : c[i] = s[i] /\ s[i] \in Items
  BY <1>1
<1>3. s \in [1 .. n -> Items]
  BY <1>2
<1>r. v.size = n /\ v.rese = r /\ v.cells = c /\ DOMAIN c = 1 .. k
  BY <1>2
<1>k. k = r \div ItemSize /\ n <= k /\ n = Len(s)
  BY <1>2
<1>f. v = [size |-> n, rese |-> r, cells |-> c]
  BY <1>2
<1>i. \A i \in 1 .. n : c[i] = s[i]
  BY <1>2
<1> HIDE <1>1, <1>2
<1>4. PICK t : t = [i \in 1 .. m |-> IF i <= n THEN s[i] ELSE x]
  OBVIOUS
<1>5. t \in [1 .. m -> Items] /\ t = Smaller(s, m, x)
  <2>1. \A i \in 1 .. m : i <= n => i \in 1 .. n
    OBVIOUS
  <2>2. t \in [1 .. m -> Items]
    BY <1>3, <1>4, <2>1
  <2>3. Smaller(s, m, x) = [i \in 1 .. m |-> IF i <= n THEN s[i] ELSE x]
    BY <1>3, SmallerIs
  <2> QED
    BY <1>3, <1>4, <2>2, <2>3, Zenon
<1>6. PICK e : e = [i \in 1 .. k |-> IF i > m /\ i <= n THEN Raw ELSE c[i]]
  OBVIOUS
<1>7. e \in [1 .. k -> Value]
  BY <1>6 DEF Value
<1>8. PICK u : u = [v EXCEPT !.cells = [i \in DOMAIN @ |-> IF i > m /\ i <= v.size THEN Raw ELSE @[i]]]
  OBVIOUS
<1>9. u = [size |-> n, rese |-> r, cells |-> e]
  <2>1. [i \in DOMAIN v.cells |-> IF i > m /\ i <= v.size THEN Raw ELSE v.cells[i]] = e
    BY <1>r, <1>6, Zenon
  <2>2. u = [v EXCEPT !.cells = e]
    BY <1>8, <2>1, Zenon
  <2> HIDE <1>6
  <2> QED
    BY <1>f, <2>2
<1>10. ASSUME NEW w, w = Reserve(u, m), NEW q \in Nat, NEW p \in Nat, p = q \div ItemSize, m <= p,
              NEW f \in [1 .. p -> Value], w = [size |-> n, rese |-> q, cells |-> f],
              \A i \in 1 .. m : i <= n => f[i] = s[i]
       PROVE  Holds(Resize(v, m, x), t)
  <2>1. PICK d : d = [i \in 1 .. p |-> IF i > n /\ i <= m THEN x ELSE f[i]]
    OBVIOUS
  <2>2. d \in [1 .. p -> Value]
    BY <2>1 DEF Value
  <2>3. ASSUME NEW i \in 1 .. m PROVE d[i] = t[i]
    <3>1. i \in 1 .. p /\ i <= m /\ (i > n <=> ~ (i <= n))
      BY <1>10
    <3>2. d[i] = IF i <= n THEN f[i] ELSE x
      BY <2>1, <3>1
    <3>3. t[i] = IF i <= n THEN s[i] ELSE x
      BY <1>4
    <3> QED
      BY <1>10, <3>2, <3>3
  <2>4. Resize(v, m, x) = [size |-> m, rese |-> q, cells |-> d]
    <3>0. w = [size |-> n, rese |-> q, cells |-> f]
      BY <1>10
    <3>1. w.cells = f /\ DOMAIN f = 1 .. p
      BY <3>0
    <3>2. [i \in DOMAIN w.cells |-> IF i > v.size /\ i <= m THEN x ELSE w.cells[i]] = d
      BY <1>r, <2>1, <3>1, Zenon
    <3>3. Resize(v, m, x) = [w EXCEPT !.size = m, !.cells = d]
      BY <1>8, <1>10, <3>2, Zenon DEF Resize
    <3> QED
      BY <3>0, <3>3, Changed
  <2>5. Holds([size |-> m, rese |-> q, cells |-> d], t)
    <3>1. p = q \div ItemSize
      BY <1>10
    <3>2. m <= p
      BY <1>10
    <3>3. \A i \in 1 .. m : d[i] = t[i]
      BY <2>3
    <3>4. t \in [1 .. m -> Items]
      BY <1>5
    <3> QED
      BY ONLY q \in Nat, m \in Nat, <2>2, <3>1, <3>2, <3>3, <3>4, FilledHolds, SMTT(30)
  <2> QED
    BY <2>4, <2>5
<1>11. CASE m <= n
  <2>1. m <= k /\ u.rese = r
    BY <1>k, <1>9, <1>11
  <2>2. m * ItemSize <= r
    BY <1>k, <2>1, RoomFor
  <2>3. Reserve(u, m) = u
    BY <2>1, <2>2 DEF Reserve
  <2>4. \A i \in 1 .. m : i <= n => e[i] = s[i]
    <3>1. \A i \in 1 .. m : i \in 1 .. k /\ i \in 1 .. n /\ ~ (i > m)
      BY <1>k, <1>11
    <3> QED
      BY <1>i, <1>6, <3>1
  <2>5. Holds(Resize(v, m, x), t)
    BY <1>k, <1>7, <1>9, <1>10, <2>1, <2>3, <2>4
  <2> QED
    BY <1>5, <2>5
<1>12. CASE ~ (m <= n)
  <2>1. e = c
    <3>1. \A i \in 1 .. k : ~ (i > m /\ i <= n)
      BY <1>12
    <3> QED
      BY <1>6, <3>1
  <2>2. u = v
    BY <1>f, <1>9, <2>1
  <2>3. Holds(Reserve(u, m), s) /\ m <= Room(Reserve(u, m))
    BY <2>2, ReserveHolds
  <2>4. PICK w : w = Reserve(u, m)
    OBVIOUS
  <2>5. PICK q, y, p \in Nat : \E f \in [1 .. p -> Value] :
              /\ w = [size |-> y, rese |-> q, cells |-> f]
              /\ s \in Seq(Items) /\ y = Len(s) /\ y <= p /\ p = q \div ItemSize
              /\ \A i \in 1 .. y : f[i] = s[i] /\ s[i] \in Items
    BY <2>3, <2>4, HoldsParts
  <2>6. PICK f \in [1 .. p -> Value] :
              /\ w = [size |-> y, rese |-> q, cells |-> f]
              /\ s \in Seq(Items) /\ y = Len(s) /\ y <= p /\ p = q \div ItemSize
              /\ \A i \in 1 .. y : f[i] = s[i] /\ s[i] \in Items
    BY <2>5
  <2>7. y = n
    BY <1>k, <2>6
  <2>8. m <= p
    BY <2>3, <2>4, <2>6 DEF Room
  <2>9. \A i \in 1 .. m : i <= n => f[i] = s[i]
    BY <2>6, <2>7
  <2>10. p = q \div ItemSize /\ w = [size |-> n, rese |-> q, cells |-> f]
    BY <2>6, <2>7
  <2> HIDE <2>5, <2>6
  <2> QED
    BY <1>5, <1>10, <2>4, <2>8, <2>9, <2>10
<1> QED
  BY <1>11, <1>12

\* A set of naturals that is not empty has a least member.
LEMMA LeastIs ==
    ASSUME NEW S \in SUBSET Nat, S # {}
    PROVE  Least(S) \in S
<1>1. PICK x \in S : \A y \in S : ~ (<<y, x>> \in OpToRel(<, Nat))
  BY NatLessThanWellFounded, WFMin
<1>2. \A y \in S : x <= y
  <2>1. x \in Nat /\ S \subseteq Nat
    OBVIOUS
  <2>2. \A y \in S : ~ (y < x)
    BY <1>1, <2>1 DEF OpToRel
  <2> QED
    BY <2>1, <2>2
<1> QED
  BY <1>2 DEF Least

\* The first cell that has a value is the first item that is it.
LEMMA FirstIndexIs ==
    ASSUME NEW v, NEW s, Holds(v, s), NEW x \in Items
    PROVE  LET found == IndexesOf(s, x) IN
           IF found = {} THEN FirstIndexEqualTo(v, x) = -1
           ELSE \E off \in Nat : /\ FirstIndexEqualTo(v, x) = off /\ off + 1 <= Len(s) /\ off = Least(found) - 1
<1>1. PICK n \in Nat : s \in [1 .. n -> Items] /\ n = Len(s) /\ v.size = n /\ \A i \in 1 .. n : v.cells[i] = s[i]
  BY HoldsParts
<1>2. PICK found : found = IndexesOf(s, x)
  OBVIOUS
<1>3. found = {i \in 1 .. n : s[i] = x}
  BY <1>1, <1>2 DEF IndexesOf
<1>4. {i \in 1 .. v.size : v.cells[i] = x} = found
  BY <1>1, <1>3
<1>5. FirstIndexEqualTo(v, x) = IF found = {} THEN -1 ELSE Least(found) - 1
  BY <1>4 DEF FirstIndexEqualTo
<1>6. CASE found = {}
  BY <1>2, <1>5, <1>6
<1>7. CASE found # {}
  <2>1. found \in SUBSET Nat /\ found \subseteq 1 .. n
    BY <1>3
  <2>2. Least(found) \in 1 .. n
    BY <1>7, <2>1, LeastIs
  <2>3. PICK off \in Nat : off = Least(found) - 1 /\ off + 1 <= n
    <3>1. Least(found) - 1 \in Nat /\ (Least(found) - 1) + 1 <= n
      BY <2>2
    <3> QED
      BY <3>1
  <2> QED
    BY <1>1, <1>2, <1>5, <1>7, <2>3
<1> QED
  BY <1>6, <1>7

\* push_back_unique appends what is not there yet.
LEMMA PushBackUniqueHolds ==
    ASSUME NEW v, NEW s, Holds(v, s), NEW x \in Items
    PROVE  Holds(PushBackUnique(v, x), IF IndexesOf(s, x) = {} THEN Append(s, x) ELSE s)
<1>1. Holds(PushBack(v, x), Append(s, x))
  BY PushBackHolds
<1>2. CASE IndexesOf(s, x) = {}
  <2>1. FirstIndexEqualTo(v, x) = -1
    BY <1>2, FirstIndexIs
  <2> QED
    BY <1>1, <1>2, <2>1 DEF PushBackUnique
<1>3. CASE IndexesOf(s, x) # {}
  <2>1. FirstIndexEqualTo(v, x) \in Nat
    BY <1>3, FirstIndexIs
  <2>2. FirstIndexEqualTo(v, x) # -1
    BY <2>1
  <2> QED
    BY <1>3, <2>2 DEF PushBackUnique
<1> QED
  BY <1>2, <1>3

\* remove_first takes the first item that is x away, and only it.
LEMMA VecRemoveFirstHolds ==
    ASSUME NEW v, NEW s, Holds(v, s), NEW x \in Items
    PROVE  Holds(VecRemoveFirst(v, x),
                 IF IndexesOf(s, x) = {} THEN s ELSE Less(s, Least(IndexesOf(s, x)) - 1, 1))
<1>1. CASE IndexesOf(s, x) = {}
  <2>1. FirstIndexEqualTo(v, x) = -1
    BY <1>1, FirstIndexIs
  <2> QED
    BY <1>1, <2>1 DEF VecRemoveFirst
<1>2. CASE IndexesOf(s, x) # {}
  <2>1. PICK off \in Nat : /\ FirstIndexEqualTo(v, x) = off /\ off + 1 <= Len(s)
                           /\ off = Least(IndexesOf(s, x)) - 1
    BY <1>2, FirstIndexIs
  <2>2. off # -1
    OBVIOUS
  <2>3. Holds(VecRemove(v, off), Less(s, off, 1))
    BY <2>1, VecRemoveHolds
  <2> QED
    BY <1>2, <2>1, <2>2, <2>3 DEF VecRemoveFirst
<1> QED
  BY <1>1, <1>2

\* clear leaves no item and no memory.
LEMMA ClearHolds == Holds(ClearVec, <<>>)
<1>1. 0 \div ItemSize = 0
  BY ContainersAssumption
<1>2. Memory(0) \in [1 .. 0 -> Value]
  BY DEF Memory
<1>3. <<>> \in Seq(Items) /\ Len(<<>>) = 0
  OBVIOUS
<1>4. \A i \in 1 .. 0 : Memory(0)[i] = <<>>[i]
  OBVIOUS
<1>5. Holds([size |-> 0, rese |-> 0, cells |-> Memory(0)], <<>>)
  BY <1>1, <1>2, <1>3, <1>4, MadeHolds
<1> QED
  BY <1>5 DEF ClearVec

\* Every operation of the vector does to it what it says of the sequence.
LEMMA VecStep == ASSUME Holds(vec, items), VecNext PROVE Holds(vec', items')
<1>0. PICK n \in Nat : n = Len(items) /\ items \in [1 .. n -> Items]
  BY HoldsParts
<1>1. ASSUME NEW x \in Items, VecDoes(PushBack(vec, x), Append(items, x)) PROVE Holds(vec', items')
  BY <1>1, PushBackHolds DEF VecDoes
<1>2. ASSUME items # <<>>, VecDoes(PopBack(vec), SubSeq(items, 1, Len(items) - 1)) PROVE Holds(vec', items')
  BY <1>2, PopBackHolds DEF VecDoes
<1>3. ASSUME NEW m \in 0 .. MaxItems, NEW x \in Items, VecDoes(Resize(vec, m, x), Smaller(items, m, x))
      PROVE  Holds(vec', items')
  <2>1. m \in Nat
    OBVIOUS
  <2> QED
    BY <1>3, <2>1, ResizeHolds DEF VecDoes
<1>4. ASSUME NEW off \in 0 .. Len(items) - 1, VecDoes(VecRemove(vec, off), Less(items, off, 1))
      PROVE  Holds(vec', items')
  <2>1. off \in Nat /\ off + 1 <= Len(items)
    BY <1>0
  <2> QED
    BY <1>4, <2>1, VecRemoveHolds DEF VecDoes
<1>5. ASSUME NEW off \in 0 .. Len(items) - 1, VecDoes(RemoveUnordered(vec, off), LastTo(items, off))
      PROVE  Holds(vec', items')
  BY <1>5, RemoveUnorderedHolds DEF VecDoes
<1>6. ASSUME NEW off \in 0 .. Len(items) - 1, NEW len \in 0 .. Len(items) - off,
             VecDoes(RemoveSome(vec, off, len), Less(items, off, len))
      PROVE  Holds(vec', items')
  <2>1. off \in Nat /\ len \in Nat /\ off + len <= Len(items)
    BY <1>0
  <2> QED
    BY <1>6, <2>1, RemoveSomeHolds DEF VecDoes
<1>7. ASSUME NEW off \in 0 .. Len(items), NEW len \in 0 .. MaxItems - Len(items), NEW x \in Items,
             VecDoes(InsertSome(vec, off, len, x), Insertion(items, off, Times(x, len)))
      PROVE  Holds(vec', items')
  <2>1. off \in Nat /\ len \in Nat /\ off <= Len(items)
    BY <1>0
  <2> QED
    BY <1>7, <2>1, InsertSomeHolds DEF VecDoes
<1>8. ASSUME VecDoes(ClearVec, <<>>) PROVE Holds(vec', items')
  BY <1>8, ClearHolds DEF VecDoes
<1>9. ASSUME NEW s \in {<<>>} \cup UNION {[1 .. m -> Items] : m \in 1 .. MaxItems - 1}, VecDoes(Assign(vec, s), s)
      PROVE  Holds(vec', items')
  <2>1. PICK m \in Nat : s \in [1 .. m -> Items]
    <3>1. CASE s = <<>>
      <4>1. s \in [1 .. 0 -> Items]
        BY <3>1
      <4> QED
        BY <4>1
    <3>2. CASE s \in UNION {[1 .. m -> Items] : m \in 1 .. MaxItems - 1}
      <4>1. PICK m \in 1 .. MaxItems - 1 : s \in [1 .. m -> Items]
        BY <3>2
      <4>2. m \in Nat
        OBVIOUS
      <4> QED
        BY <4>1, <4>2
    <3> QED
      BY <3>1, <3>2
  <2>2. Holds(Assign(vec, s), s)
    BY <2>1, AssignHolds
  <2> QED
    BY <1>9, <2>2 DEF VecDoes
<1>10. ASSUME NEW x \in Items,
              VecDoes(PushBackUnique(vec, x), IF IndexesOf(items, x) = {} THEN Append(items, x) ELSE items)
       PROVE  Holds(vec', items')
  <2>1. Holds(PushBackUnique(vec, x), IF IndexesOf(items, x) = {} THEN Append(items, x) ELSE items)
    BY PushBackUniqueHolds
  <2> QED
    BY <1>10, <2>1 DEF VecDoes
<1>11. ASSUME NEW x \in Items,
              VecDoes(VecRemoveFirst(vec, x),
                      IF IndexesOf(items, x) = {} THEN items ELSE Less(items, Least(IndexesOf(items, x)) - 1, 1))
       PROVE  Holds(vec', items')
  <2>1. Holds(VecRemoveFirst(vec, x),
              IF IndexesOf(items, x) = {} THEN items ELSE Less(items, Least(IndexesOf(items, x)) - 1, 1))
    BY VecRemoveFirstHolds
  <2> QED
    BY <1>11, <2>1 DEF VecDoes
<1> QED
  BY <1>1, <1>2, <1>3, <1>4, <1>5, <1>6, <1>7, <1>8, <1>9, <1>10, <1>11 DEF VecNext

\* What is kept is what the property states.
LEMMA VecHolds == ASSUME Holds(vec, items) PROVE VecIsSequence
<1>1. items \in Seq(Items) /\ DOMAIN items = 1 .. Len(items)
  BY DEF Holds
<1>2. vec.size = Len(items) /\ DOMAIN vec.cells = 1 .. Room(vec)
  BY DEF Holds
<1> QED
  BY <1>1, <1>2 DEF Holds, VecIsSequence

-----------------------------------------------------------------------------
(* The list.                                                               *)

\* A walk along the links meets the members of a sequence of linked cells.
LEMMA ChainIs ==
    ASSUME NEW D, NEW link, DOMAIN link = D, NEW n \in Nat, NEW s \in [1 .. n -> D], NEW head,
           IF n = 0 THEN head \notin D ELSE head = s[1] /\ {link[s[n]]} \cap D \subseteq {s[n]},
           \A i \in 1 .. n - 1 : link[s[i]] = s[i + 1]
    PROVE  Chain(link, head) = {s[i] : i \in 1 .. n}
<1> DEFINE All == {s[i] : i \in 1 .. n}
<1>1. All \in SUBSET D /\ {head} \cap D \subseteq All
  <2>1. n # 0 => 1 \in 1 .. n
    OBVIOUS
  <2> QED
    BY <2>1
<1>2. ASSUME NEW x \in All PROVE {link[x]} \cap D \subseteq All
  <2>1. PICK i \in 1 .. n : x = s[i]
    OBVIOUS
  <2>2. CASE i = n
    BY <2>1, <2>2
  <2>3. CASE i # n
    <3>1. i \in 1 .. n - 1 /\ i + 1 \in 1 .. n
      BY <2>3
    <3>2. link[x] = s[i + 1]
      BY <2>1, <3>1
    <3> QED
      BY <3>1, <3>2
  <2> QED
    BY <2>2, <2>3
<1>3. Chain(link, head) \subseteq All
  <2> HIDE DEF All
  <2> QED
    BY <1>1, <1>2 DEF Chain
<1>4. ASSUME NEW S \in SUBSET D, {head} \cap D \subseteq S, \A x \in S : {link[x]} \cap D \subseteq S,
             NEW i \in 1 .. n, s[i] \notin S
      PROVE  FALSE
  <2> DEFINE Out == {j \in 1 .. n : s[j] \notin S}
  <2>1. Out \in SUBSET Nat /\ Out # {} /\ Out \subseteq 1 .. n
    BY <1>4
  <2>2. PICK j \in Out : \A k \in Out : j <= k
    <3> HIDE DEF Out
    <3>1. PICK x \in Out : \A y \in Out : ~ (<<y, x>> \in OpToRel(<, Nat))
      BY <2>1, NatLessThanWellFounded, WFMin
    <3>2. x \in Nat /\ Out \subseteq Nat
      BY <2>1
    <3>3. \A y \in Out : ~ (y < x)
      BY <3>1, <3>2 DEF OpToRel
    <3> QED
      BY <3>2, <3>3
  <2>3. j \in 1 .. n /\ s[j] \notin S
    OBVIOUS
  <2>4. CASE j = 1
    BY <1>4, <2>3, <2>4
  <2>5. CASE j # 1
    <3>1. PICK k \in 1 .. n - 1 : k + 1 = j
      <4>1. j - 1 \in 1 .. n - 1 /\ (j - 1) + 1 = j
        BY <2>3, <2>5
      <4> QED
        BY <4>1
    <3>2. k \in 1 .. n /\ ~ (j <= k)
      BY <3>1
    <3>3. s[k] \in S
      BY <2>2, <3>2
    <3>4. link[s[k]] = s[j] /\ s[j] \in D
      BY <2>3, <3>1
    <3> QED
      BY <1>4, <2>3, <3>3, <3>4
  <2> QED
    BY <2>4, <2>5
<1>5. All \subseteq Chain(link, head)
  <2>1. ASSUME NEW i \in 1 .. n PROVE s[i] \in Chain(link, head)
    <3>1. s[i] \in D
      OBVIOUS
    <3> QED
      BY <1>4, <3>1 DEF Chain
  <2> QED
    BY <2>1
<1> QED
  BY <1>3, <1>5

\* The list l has the n nodes of s, all different, and no other node has links.
Linked(l, n, s) ==
    /\ n \in Nat /\ s \in [1 .. n -> Nodes]
    /\ \A i, j \in 1 .. n : s[i] = s[j] => i = j
    /\ l = [first |-> l.first, last |-> l.last, prev |-> l.prev, next |-> l.next]
    /\ DOMAIN l.prev = Nodes /\ DOMAIN l.next = Nodes
    /\ IF n = 0 THEN l.first = Null /\ l.last = Null ELSE l.first = s[1] /\ l.last = s[n]
    /\ \A i \in 1 .. n : /\ l.next[s[i]] = IF i = n THEN s[i] ELSE s[i + 1]
                         /\ l.prev[s[i]] = IF i = 1 THEN s[i] ELSE s[i - 1]
    /\ \A x \in Nodes : (\A i \in 1 .. n : s[i] # x) => l.prev[x] = Null /\ l.next[x] = Null

\* What is kept of the links is what the property states.
LEMMA LinkedApplied ==
    ASSUME NEW l, NEW n, NEW s, Linked(l, n, s)
    PROVE  /\ Applied(l.next, l.first, s) /\ Applied(l.prev, l.last, Backwards(s))
           /\ \A x \in Nodes : ~ IsIn(s, x) => l.prev[x] = Null /\ l.next[x] = Null
<1>1. n \in Nat /\ s \in [1 .. n -> Nodes] /\ Len(s) = n /\ DOMAIN s = 1 .. n
  BY DEF Linked
<1>2. /\ \A i, j \in 1 .. n : s[i] = s[j] => i = j
      /\ IF n = 0 THEN l.first = Null /\ l.last = Null ELSE l.first = s[1] /\ l.last = s[n]
      /\ \A i \in 1 .. n : /\ l.next[s[i]] = IF i = n THEN s[i] ELSE s[i + 1]
                           /\ l.prev[s[i]] = IF i = 1 THEN s[i] ELSE s[i - 1]
  BY DEF Linked
<1>3. ASSUME NEW x \in Nodes, ~ IsIn(s, x) PROVE l.prev[x] = Null /\ l.next[x] = Null
  BY <1>1, <1>3 DEF Linked, IsIn
<1>4. PICK b : b = [i \in 1 .. n |-> s[n + 1 - i]]
  OBVIOUS
<1>5. Backwards(s) = b /\ b \in [1 .. n -> Nodes] /\ Len(b) = n
  <2>1. \A i \in 1 .. n : n + 1 - i \in 1 .. n
    BY <1>1
  <2>2. Backwards(s) = b
    BY <1>1, <1>4, Zenon DEF Backwards
  <2>3. b \in [1 .. n -> Nodes]
    BY <1>1, <1>4, <2>1
  <2> QED
    BY <1>1, <2>2, <2>3
<1>6. CASE n = 0
  <2>1. s = <<>> /\ b = <<>>
    BY <1>1, <1>4, <1>6
  <2> QED
    BY <1>2, <1>3, <1>5, <1>6, <2>1 DEF Applied
<1>7. CASE n # 0
  <2>1. s # <<>> /\ b # <<>>
    BY <1>1, <1>5, <1>7
  <2>2. 1 \in 1 .. n /\ n \in 1 .. n
    BY <1>1, <1>7
  <2>3. ASSUME NEW i \in 1 .. n - 1 PROVE l.next[s[i]] = s[i + 1] /\ s[i + 1] # s[i]
    <3>1. i \in 1 .. n /\ i + 1 \in 1 .. n /\ i # n /\ i + 1 # i
      BY <1>1
    <3> QED
      BY <1>2, <3>1
  <2>4. Applied(l.next, l.first, s)
    BY <1>1, <1>2, <1>7, <2>1, <2>2, <2>3 DEF Applied
  <2>5. ASSUME NEW i \in 1 .. n - 1 PROVE l.prev[b[i]] = b[i + 1] /\ b[i + 1] # b[i]
    <3>1. PICK j \in 1 .. n : j = n + 1 - i /\ j # 1 /\ j - 1 \in 1 .. n /\ j - 1 = n + 1 - (i + 1) /\ j - 1 # j
      <4>1. n + 1 - i \in 1 .. n /\ n + 1 - i # 1 /\ (n + 1 - i) - 1 \in 1 .. n
            /\ (n + 1 - i) - 1 = n + 1 - (i + 1) /\ (n + 1 - i) - 1 # n + 1 - i
        BY <1>1
      <4> QED
        BY <4>1
    <3>2. i \in 1 .. n /\ i + 1 \in 1 .. n
      BY <1>1
    <3>3. b[i] = s[j] /\ b[i + 1] = s[j - 1]
      BY <1>4, <3>1, <3>2
    <3> QED
      BY <1>2, <3>1, <3>3
  <2>6. b[1] = s[n] /\ b[n] = s[1]
    <3>1. n + 1 - 1 = n /\ n + 1 - n = 1
      BY <1>1
    <3> QED
      BY <1>4, <2>2, <3>1
  <2>7. l.prev[s[1]] = s[1] /\ l.last = s[n]
    BY <1>2, <1>7, <2>2
  <2>8. Applied(l.prev, l.last, b)
    BY <1>5, <2>1, <2>5, <2>6, <2>7 DEF Applied
  <2> QED
    BY <1>3, <1>5, <2>4, <2>8
<1> QED
  BY <1>6, <1>7

\* The links are those of a sequence: what there is to show when the fields are known.
LEMMA LinkedParts ==
    ASSUME NEW l, NEW n, NEW s, Linked(l, n, s)
    PROVE  /\ n \in Nat /\ s \in [1 .. n -> Nodes] /\ \A i, j \in 1 .. n : s[i] = s[j] => i = j
           /\ DOMAIN l = {"first", "last", "prev", "next"}
           /\ DOMAIN l.prev = Nodes /\ DOMAIN l.next = Nodes
           /\ (n = 0 => l.first = Null /\ l.last = Null) /\ (n # 0 => l.first = s[1] /\ l.last = s[n])
           /\ \A i \in 1 .. n : /\ l.next[s[i]] = IF i = n THEN s[i] ELSE s[i + 1]
                                /\ l.prev[s[i]] = IF i = 1 THEN s[i] ELSE s[i - 1]
           /\ \A x \in Nodes : (\A i \in 1 .. n : s[i] # x) => l.prev[x] = Null /\ l.next[x] = Null
<1>1. l = [first |-> l.first, last |-> l.last, prev |-> l.prev, next |-> l.next]
  BY DEF Linked
<1>2. DOMAIN l = {"first", "last", "prev", "next"}
  <2>1. PICK a, b, c, d : l = [first |-> a, last |-> b, prev |-> c, next |-> d]
    BY <1>1
  <2> QED
    BY <2>1
<1> QED
  BY <1>2 DEF Linked

\* A node is in the list when its prev is not null, since the ends point to themselves.
LEMMA InListIs ==
    ASSUME NEW l, NEW n, NEW s, Linked(l, n, s), NEW x \in Nodes
    PROVE  InList(l, x) <=> \E i \in 1 .. n : s[i] = x
<1>1. ASSUME NEW i \in 1 .. n PROVE l.prev[s[i]] # Null
  <2>1. n \in Nat /\ s \in [1 .. n -> Nodes]
    BY LinkedParts
  <2>2. i # 1 => i - 1 \in 1 .. n
    BY <2>1
  <2>3. s[i] # Null /\ (i # 1 => s[i - 1] # Null)
    BY <2>1, <2>2, ContainersAssumption
  <2> QED
    BY <2>3, LinkedParts
<1> QED
  BY <1>1, LinkedParts DEF InList

\* push_back of a node that is not in the list appends it.
LEMMA PushNodeLinked ==
    ASSUME NEW l, NEW n, NEW s, Linked(l, n, s), NEW x \in Nodes, \A i \in 1 .. n : s[i] # x
    PROVE  Linked(PushNode(l, x), n + 1, Append(s, x))
<1>1. n \in Nat /\ s \in [1 .. n -> Nodes] /\ (\A i, j \in 1 .. n : s[i] = s[j] => i = j) /\ s \in Seq(Nodes) /\ Len(s) = n
  BY LinkedParts
<1>2. PICK a, b, p, q : /\ l = [first |-> a, last |-> b, prev |-> p, next |-> q]
                        /\ l.first = a /\ l.last = b /\ l.prev = p /\ l.next = q
  BY DEF Linked
<1>3. /\ DOMAIN p = Nodes /\ DOMAIN q = Nodes
      /\ (n = 0 => a = Null /\ b = Null) /\ (n # 0 => a = s[1] /\ b = s[n])
  BY <1>2, LinkedParts
<1>4. \A i \in 1 .. n : q[s[i]] = (IF i = n THEN s[i] ELSE s[i + 1]) /\ p[s[i]] = IF i = 1 THEN s[i] ELSE s[i - 1]
  BY <1>2, LinkedParts
<1>5. \A y \in Nodes : (\A i \in 1 .. n : s[i] # y) => p[y] = Null /\ q[y] = Null
  BY <1>2, LinkedParts
<1>6. PICK m \in Nat : m = n + 1 /\ m # 0 /\ m \notin 1 .. n /\ \A i \in 1 .. m : i = m \/ i \in 1 .. n
  <2>1. n + 1 \in Nat /\ n + 1 # 0 /\ n + 1 \notin 1 .. n /\ \A i \in 1 .. n + 1 : i = n + 1 \/ i \in 1 .. n
    BY <1>1
  <2> QED
    BY <2>1
<1>7. PICK t : t = Append(s, x)
  OBVIOUS
<1>8. t \in [1 .. m -> Nodes] /\ t[m] = x /\ \A i \in 1 .. n : t[i] = s[i]
  <2>1. /\ t \in Seq(Nodes) /\ Len(t) = n + 1 /\ t[n + 1] = x
        /\ \A i \in 1 .. n : t[i] = s[i]
    BY <1>1, <1>7, AppendProperties
  <2>2. t \in [1 .. m -> Nodes]
    <3>1. t \in Seq(Nodes) /\ Len(t) = m
      BY <1>6, <2>1
    <3> QED
      BY ONLY <3>1, m \in Nat
  <2> QED
    BY <1>6, <2>1, <2>2
<1>9. \A i, j \in 1 .. m : t[i] = t[j] => i = j
  <2>1. ASSUME NEW i \in 1 .. m, NEW j \in 1 .. m, t[i] = t[j] PROVE i = j
    <3>1. CASE i \in 1 .. n /\ j \in 1 .. n
      BY <1>1, <1>8, <2>1, <3>1
    <3>2. CASE i = m /\ j \in 1 .. n
      BY <1>8, <2>1, <3>2
    <3>3. CASE i \in 1 .. n /\ j = m
      BY <1>8, <2>1, <3>3
    <3> QED
      BY <1>6, <3>1, <3>2, <3>3
  <2> QED
    BY <2>1
<1>10. CASE n = 0
  <2>1. PICK u, v : u = [p EXCEPT ![x] = x] /\ v = [q EXCEPT ![x] = x]
    OBVIOUS
  <2>2. PushNode(l, x) = [first |-> x, last |-> x, prev |-> u, next |-> v]
    <3>1. PICK w : w = [l EXCEPT !.prev[x] = x, !.next[x] = x, !.first = x, !.last = x]
      OBVIOUS
    <3>2. w.first = x /\ w.last = x /\ w.prev = u /\ w.next = v /\ DOMAIN w = {"first", "last", "prev", "next"}
      BY <1>2, <2>1, <3>1
    <3>3. w = [first |-> x, last |-> x, prev |-> u, next |-> v]
      BY <3>1, <3>2
    <3>4. PushNode(l, x) = w
      BY <1>2, <1>3, <1>10, <3>1, Zenon DEF PushNode
    <3> QED
      BY <3>3, <3>4
  <2>3. m = 1 /\ t[1] = x
    BY <1>6, <1>8, <1>10
  <2>4. DOMAIN u = Nodes /\ DOMAIN v = Nodes /\ u[x] = x /\ v[x] = x /\ \A y \in Nodes : y # x => u[y] = p[y] /\ v[y] = q[y]
    BY <1>3, <2>1
  <2>5. \A i \in 1 .. m : i = 1
    BY <2>3
  <2>6. \A i \in 1 .. m : v[t[i]] = (IF i = m THEN t[i] ELSE t[i + 1]) /\ u[t[i]] = IF i = 1 THEN t[i] ELSE t[i - 1]
    BY <2>3, <2>4, <2>5
  <2>7. ASSUME NEW y \in Nodes, \A i \in 1 .. m : t[i] # y PROVE u[y] = Null /\ v[y] = Null
    <3>1. y # x /\ \A i \in 1 .. n : s[i] # y
      BY <1>10, <2>3, <2>7
    <3> QED
      BY <1>5, <2>4, <3>1
  <2>8. Linked(PushNode(l, x), m, t)
    <3>1. PICK w : w = PushNode(l, x)
      OBVIOUS
    <3>2. w = [first |-> x, last |-> x, prev |-> u, next |-> v]
      BY <2>2, <3>1
    <3>3. w.first = x /\ w.last = x /\ w.prev = u /\ w.next = v
      BY <3>2
    <3>4. x = t[1] /\ x = t[m] /\ m # 0
      BY <1>6, <2>3
    <3>5. Linked(w, m, t)
      BY <1>8, <1>9, <2>4, <2>6, <2>7, <3>2, <3>3, <3>4 DEF Linked
    <3> QED
      BY <3>1, <3>5
  <2> QED
    BY <1>6, <1>7, <2>8
<1>11. CASE n # 0
  <2>1. PICK u, v : u = [p EXCEPT ![x] = b] /\ v = [q EXCEPT ![b] = x, ![x] = x]
    OBVIOUS
  <2>2. PushNode(l, x) = [first |-> a, last |-> x, prev |-> u, next |-> v]
    <3>1. PICK w : w = [l EXCEPT !.next = [@ EXCEPT ![l.last] = x, ![x] = x], !.prev[x] = l.last, !.last = x]
      OBVIOUS
    <3>2. w.first = a /\ w.last = x /\ w.prev = u /\ w.next = v /\ DOMAIN w = {"first", "last", "prev", "next"}
      BY <1>2, <2>1, <3>1
    <3>3. w = [first |-> a, last |-> x, prev |-> u, next |-> v]
      BY <3>1, <3>2
    <3>4. l.first # Null /\ ~ InList(l, x)
      <4>1. 1 \in 1 .. n
        BY <1>1, <1>11
      <4> QED
        BY <1>1, <1>2, <1>3, <1>11, <4>1, InListIs, ContainersAssumption
    <3>5. PushNode(l, x) = w
      BY <3>1, <3>4, Zenon DEF PushNode
    <3> QED
      BY <3>3, <3>5
  <2>3. 1 \in 1 .. n /\ n \in 1 .. n /\ 1 \in 1 .. m /\ n \in 1 .. m /\ m \in 1 .. m /\ m # 1 /\ n # m
        /\ a = s[1] /\ b = s[n] /\ b \in Nodes /\ b # x /\ t[1] = s[1] /\ m - 1 = n
    <3>1. 1 \in 1 .. n /\ n \in 1 .. n /\ m - 1 = n
      BY <1>1, <1>6, <1>11
    <3> QED
      BY <1>1, <1>3, <1>6, <1>8, <1>11, <3>1
  <2>4. DOMAIN u = Nodes /\ DOMAIN v = Nodes /\ u[x] = b /\ v[x] = x /\ v[b] = x
    BY <1>3, <2>1, <2>3
  <2>5. \A y \in Nodes : (y # x => u[y] = p[y]) /\ (y # x /\ y # b => v[y] = q[y])
    BY <1>3, <2>1, <2>3
  <2>6. ASSUME NEW i \in 1 .. m
        PROVE v[t[i]] = (IF i = m THEN t[i] ELSE t[i + 1]) /\ u[t[i]] = IF i = 1 THEN t[i] ELSE t[i - 1]
    <3>1. CASE i = m
      BY <1>8, <2>3, <2>4, <3>1
    <3>2. CASE i = n
      <4>1. v[t[i]] = x /\ t[i + 1] = x /\ i # m
        BY <1>6, <1>8, <2>3, <2>4, <3>2
      <4>2. u[t[i]] = p[s[i]] /\ t[i] = s[i]
        BY <1>8, <2>3, <2>5, <3>2
      <4>3. i # 1 => t[i - 1] = s[i - 1]
        <5>1. i # 1 => i - 1 \in 1 .. n
          BY <1>1, <3>2
        <5> QED
          BY <1>8, <5>1
      <4> QED
        BY <1>4, <2>3, <3>2, <4>1, <4>2, <4>3
    <3>3. CASE i \in 1 .. n /\ i # n
      <4>1. s[i] # x /\ s[i] # b /\ s[i] \in Nodes /\ t[i] = s[i] /\ i # m
        BY <1>1, <1>6, <1>8, <2>3, <3>3
      <4>2. v[t[i]] = q[s[i]] /\ u[t[i]] = p[s[i]]
        BY <2>5, <4>1
      <4>3. i + 1 \in 1 .. n /\ (i # 1 => i - 1 \in 1 .. n)
        BY <1>1, <3>3
      <4>4. t[i + 1] = s[i + 1] /\ (i # 1 => t[i - 1] = s[i - 1])
        BY <1>8, <4>3
      <4> QED
        BY <1>4, <3>3, <4>1, <4>2, <4>4
    <3> QED
      BY <1>6, <3>1, <3>2, <3>3
  <2>7. ASSUME NEW y \in Nodes, \A i \in 1 .. m : t[i] # y PROVE u[y] = Null /\ v[y] = Null
    <3>1. \A i \in 1 .. n : i \in 1 .. m
      BY <1>1, <1>6
    <3>2. y # x /\ \A i \in 1 .. n : s[i] # y
      BY <1>8, <2>3, <2>7, <3>1
    <3>3. y # b
      BY <2>3, <3>2
    <3> QED
      BY <1>5, <2>5, <3>2, <3>3
  <2>8. Linked(PushNode(l, x), m, t)
    <3>1. PICK w : w = PushNode(l, x)
      OBVIOUS
    <3>2. w = [first |-> a, last |-> x, prev |-> u, next |-> v]
      BY <2>2, <3>1
    <3>3. w.first = a /\ w.last = x /\ w.prev = u /\ w.next = v
      BY <3>2
    <3>4. a = t[1] /\ x = t[m] /\ m # 0
      BY <1>6, <1>8, <2>3
    <3>5. Linked(w, m, t)
      BY <1>8, <1>9, <2>4, <2>6, <2>7, <3>2, <3>3, <3>4 DEF Linked
    <3> QED
      BY <3>1, <3>5
  <2> QED
    BY <1>6, <1>7, <2>8
<1> QED
  BY <1>10, <1>11

\* w is the list l, that has the nodes of s, but that what pointed to node k points to
\* its neighbour; the links of the nodes that are not in l are those of p and q.
Without(l, n, s, k, w, p, q) ==
    /\ DOMAIN w = {"first", "last", "prev", "next"} /\ DOMAIN w.prev = Nodes /\ DOMAIN w.next = Nodes
    /\ w.first = IF k # 1 THEN s[1] ELSE IF n = 1 THEN Null ELSE s[2]
    /\ w.last = IF k # n THEN s[n] ELSE IF n = 1 THEN Null ELSE s[n - 1]
    /\ \A y \in Nodes : (\A i \in 1 .. n : s[i] # y) => w.prev[y] = p[y] /\ w.next[y] = q[y]
    /\ \A i \in 1 .. n : i # k =>
          /\ w.next[s[i]] = IF i + 1 # k THEN l.next[s[i]] ELSE IF k = n THEN s[i] ELSE s[k + 1]
          /\ w.prev[s[i]] = IF i # k + 1 THEN l.prev[s[i]] ELSE IF k = 1 THEN s[i] ELSE s[k - 1]

\* Node k of n is taken out: what pointed to it points to its neighbour.
LEMMA RemoveNodeFields ==
    ASSUME NEW l, NEW n, NEW s, Linked(l, n, s), NEW k \in 1 .. n, NEW x, x = s[k], NEW z, z = RemoveNode(l, x)
    PROVE  /\ Without(l, n, s, k, z, l.prev, l.next) /\ z.prev[x] = Null /\ z.next[x] = Null
           /\ z = [first |-> z.first, last |-> z.last, prev |-> z.prev, next |-> z.next]
<1>1. n \in Nat /\ s \in [1 .. n -> Nodes] /\ (\A i, j \in 1 .. n : s[i] = s[j] => i = j) /\ x \in Nodes
  BY LinkedParts
<1>2. PICK a, b, p, q : /\ l = [first |-> a, last |-> b, prev |-> p, next |-> q]
                        /\ l.first = a /\ l.last = b /\ l.prev = p /\ l.next = q
  BY DEF Linked
<1>3. DOMAIN p = Nodes /\ DOMAIN q = Nodes /\ a = s[1] /\ b = s[n]
  BY <1>1, <1>2, LinkedParts
<1>4. \A i \in 1 .. n : q[s[i]] = (IF i = n THEN s[i] ELSE s[i + 1]) /\ p[s[i]] = IF i = 1 THEN s[i] ELSE s[i - 1]
  BY <1>2, LinkedParts
<1>5. \A y \in Nodes : (\A i \in 1 .. n : s[i] # y) => p[y] = Null /\ q[y] = Null /\ y # x
  BY <1>2, LinkedParts
<1>6. (k # 1 => k - 1 \in 1 .. n /\ k - 1 # k) /\ (k # n => k + 1 \in 1 .. n /\ k + 1 # k)
  BY <1>1
<1>7. /\ (k = 1 <=> p[x] = x) /\ (k = n <=> q[x] = x)
      /\ (k # 1 => p[x] = s[k - 1] /\ p[x] \in Nodes) /\ (k # n => q[x] = s[k + 1] /\ q[x] \in Nodes)
  BY <1>1, <1>4, <1>6
<1>8. InList(l, x)
  BY <1>1, InListIs
<1>9. PICK w : w = Unlinked(l, x)
  OBVIOUS
<1>10. z = [w EXCEPT !.prev[x] = Null, !.next[x] = Null]
  BY <1>8, <1>9, Zenon DEF RemoveNode
<1>13. ASSUME Without(l, n, s, k, w, p, q)
       PROVE  /\ Without(l, n, s, k, z, l.prev, l.next) /\ z.prev[x] = Null /\ z.next[x] = Null
              /\ z = [first |-> z.first, last |-> z.last, prev |-> z.prev, next |-> z.next]
  <2>1. PICK u, v : u = [w.prev EXCEPT ![x] = Null] /\ v = [w.next EXCEPT ![x] = Null]
    OBVIOUS
  <2>2. z.first = w.first /\ z.last = w.last /\ z.prev = u /\ z.next = v /\ DOMAIN z = {"first", "last", "prev", "next"}
    BY <1>10, <1>13, <2>1 DEF Without
  <2>3. /\ DOMAIN u = Nodes /\ DOMAIN v = Nodes /\ u[x] = Null /\ v[x] = Null
        /\ \A y \in Nodes : y # x => u[y] = w.prev[y] /\ v[y] = w.next[y]
    BY <1>1, <1>13, <2>1 DEF Without
  <2>4. \A i \in 1 .. n : i # k => s[i] \in Nodes /\ s[i] # x
    BY <1>1
  <2>5. \A y \in Nodes : (\A i \in 1 .. n : s[i] # y) => u[y] = l.prev[y] /\ v[y] = l.next[y]
    BY <1>2, <1>5, <1>13, <2>3 DEF Without
  <2>6. \A i \in 1 .. n : i # k =>
                    /\ v[s[i]] = IF i + 1 # k THEN l.next[s[i]] ELSE IF k = n THEN s[i] ELSE s[k + 1]
                    /\ u[s[i]] = IF i # k + 1 THEN l.prev[s[i]] ELSE IF k = 1 THEN s[i] ELSE s[k - 1]
    BY <1>13, <2>3, <2>4 DEF Without
  <2>7. z = [first |-> z.first, last |-> z.last, prev |-> z.prev, next |-> z.next]
    BY <1>10, <2>2
  <2>8. Without(l, n, s, k, z, l.prev, l.next)
    BY <1>13, <2>2, <2>3, <2>5, <2>6 DEF Without
  <2> QED
    BY <2>2, <2>3, <2>7, <2>8
<1>14. CASE k = 1 /\ k = n
  <2>1. w = [first |-> Null, last |-> Null, prev |-> p, next |-> q]
    <3>1. w = [l EXCEPT !.first = Null, !.last = Null]
      BY <1>2, <1>7, <1>9, <1>14, Zenon DEF Unlinked
    <3>2. DOMAIN l = {"first", "last", "prev", "next"}
      BY LinkedParts
    <3>3. w.first = Null /\ w.last = Null /\ w.prev = p /\ w.next = q /\ DOMAIN w = {"first", "last", "prev", "next"}
      BY <1>2, <3>1, <3>2
    <3> QED
      BY <3>1, <3>3
  <2>2. \A i \in 1 .. n : i = k
    BY <1>1, <1>14
  <2> QED
    <3>1. w.first = Null /\ w.last = Null /\ w.prev = p /\ w.next = q /\ DOMAIN w = {"first", "last", "prev", "next"}
      BY <2>1
    <3>2. Without(l, n, s, k, w, p, q)
      BY <1>3, <1>14, <2>2, <3>1 DEF Without
    <3> QED
      BY <1>13, <3>2
<1>15. CASE k = 1 /\ k # n
  <2>1. PICK y, f : y = s[2] /\ f = [p EXCEPT ![y] = y]
    OBVIOUS
  <2>2. y = q[x] /\ y \in Nodes /\ 2 \in 1 .. n
    BY <1>1, <1>6, <1>7, <1>15, <2>1
  <2>3. w = [first |-> y, last |-> b, prev |-> f, next |-> q]
    <3>1. w = [l EXCEPT !.first = l.next[x], !.prev[l.next[x]] = l.next[x]]
      BY <1>2, <1>7, <1>9, <1>15, Zenon DEF Unlinked
    <3>2. w = [l EXCEPT !.first = y, !.prev[y] = y]
      BY <1>2, <2>2, <3>1, Zenon
    <3>3. DOMAIN l = {"first", "last", "prev", "next"}
      BY LinkedParts
    <3>4. w.first = y /\ w.last = b /\ w.prev = f /\ w.next = q /\ DOMAIN w = {"first", "last", "prev", "next"}
      BY <1>2, <2>1, <3>2, <3>3
    <3> QED
      BY <3>2, <3>4
  <2>4. DOMAIN f = Nodes /\ f[y] = y /\ \A m \in Nodes : m # y => f[m] = p[m]
    BY <1>3, <2>1, <2>2
  <2>5. \A i \in 1 .. n : i # k =>
                  /\ q[s[i]] = IF i + 1 # k THEN q[s[i]] ELSE IF k = n THEN s[i] ELSE s[k + 1]
                  /\ f[s[i]] = IF i # k + 1 THEN p[s[i]] ELSE IF k = 1 THEN s[i] ELSE s[k - 1]
    <3>1. ASSUME NEW i \in 1 .. n, i # k PROVE i + 1 # k /\ (i = k + 1 <=> s[i] = y) /\ s[i] \in Nodes
      <4>1. i + 1 # k /\ (i = k + 1 <=> i = 2)
        BY <1>1, <1>15, <3>1
      <4>2. i = 2 <=> s[i] = y
        BY <1>1, <2>1, <2>2
      <4> QED
        BY <1>1, <4>1, <4>2
    <3> QED
      BY <1>15, <2>4, <3>1
  <2>6. \A m \in Nodes : (\A i \in 1 .. n : s[i] # m) => f[m] = p[m] /\ q[m] = q[m]
    BY <2>1, <2>2, <2>4
  <2>7. y = IF k # 1 THEN s[1] ELSE IF n = 1 THEN Null ELSE s[2]
    BY <1>15, <2>1
  <2>8. b = IF k # n THEN s[n] ELSE IF n = 1 THEN Null ELSE s[n - 1]
    BY <1>3, <1>15
  <2> QED
    <3>1. w.first = y /\ w.last = b /\ w.prev = f /\ w.next = q /\ DOMAIN w = {"first", "last", "prev", "next"}
      BY <2>3
    <3>2. Without(l, n, s, k, w, p, q)
      BY <1>2, <1>3, <2>4, <2>5, <2>6, <2>7, <2>8, <3>1 DEF Without
    <3> QED
      BY <1>13, <3>2
<1>16. CASE k # 1 /\ k = n
  <2>1. PICK y, g : y = s[n - 1] /\ g = [q EXCEPT ![y] = y]
    OBVIOUS
  <2>2. y = p[x] /\ y \in Nodes /\ n - 1 \in 1 .. n /\ n # 1
    BY <1>1, <1>6, <1>7, <1>16, <2>1
  <2>3. w = [first |-> a, last |-> y, prev |-> p, next |-> g]
    <3>1. w = [l EXCEPT !.last = l.prev[x], !.next[l.prev[x]] = l.prev[x]]
      BY <1>2, <1>7, <1>9, <1>16, Zenon DEF Unlinked
    <3>2. w = [l EXCEPT !.last = y, !.next[y] = y]
      BY <1>2, <2>2, <3>1, Zenon
    <3>3. DOMAIN l = {"first", "last", "prev", "next"}
      BY LinkedParts
    <3>4. w.first = a /\ w.last = y /\ w.prev = p /\ w.next = g /\ DOMAIN w = {"first", "last", "prev", "next"}
      BY <1>2, <2>1, <3>2, <3>3
    <3> QED
      BY <3>2, <3>4
  <2>4. DOMAIN g = Nodes /\ g[y] = y /\ \A m \in Nodes : m # y => g[m] = q[m]
    BY <1>3, <2>1, <2>2
  <2>5. \A i \in 1 .. n : i # k =>
                  /\ g[s[i]] = IF i + 1 # k THEN q[s[i]] ELSE IF k = n THEN s[i] ELSE s[k + 1]
                  /\ p[s[i]] = IF i # k + 1 THEN p[s[i]] ELSE IF k = 1 THEN s[i] ELSE s[k - 1]
    <3>1. ASSUME NEW i \in 1 .. n, i # k PROVE i # k + 1 /\ (i + 1 = k <=> s[i] = y) /\ s[i] \in Nodes
      <4>1. i # k + 1 /\ (i + 1 = k <=> i = n - 1)
        BY <1>1, <1>16, <3>1
      <4>2. i = n - 1 <=> s[i] = y
        BY <1>1, <2>1, <2>2
      <4> QED
        BY <1>1, <4>1, <4>2
    <3> QED
      BY <1>16, <2>4, <3>1
  <2>6. \A m \in Nodes : (\A i \in 1 .. n : s[i] # m) => p[m] = p[m] /\ g[m] = q[m]
    BY <2>1, <2>2, <2>4
  <2>7. a = IF k # 1 THEN s[1] ELSE IF n = 1 THEN Null ELSE s[2]
    BY <1>3, <1>16
  <2>8. y = IF k # n THEN s[n] ELSE IF n = 1 THEN Null ELSE s[n - 1]
    BY <1>16, <2>1, <2>2
  <2> QED
    <3>1. w.first = a /\ w.last = y /\ w.prev = p /\ w.next = g /\ DOMAIN w = {"first", "last", "prev", "next"}
      BY <2>3
    <3>2. Without(l, n, s, k, w, p, q)
      BY <1>2, <1>3, <2>4, <2>5, <2>6, <2>7, <2>8, <3>1 DEF Without
    <3> QED
      BY <1>13, <3>2
<1>17. CASE k # 1 /\ k # n
  <2>1. PICK y, z1, f, g : y = s[k - 1] /\ z1 = s[k + 1] /\ g = [q EXCEPT ![y] = z1] /\ f = [p EXCEPT ![z1] = y]
    OBVIOUS
  <2>2. y = p[x] /\ z1 = q[x] /\ y \in Nodes /\ z1 \in Nodes /\ k - 1 \in 1 .. n /\ k + 1 \in 1 .. n
    BY <1>6, <1>7, <1>17, <2>1
  <2>3. w = [first |-> a, last |-> b, prev |-> f, next |-> g]
    <3>1. w = [l EXCEPT !.next[l.prev[x]] = l.next[x], !.prev[l.next[x]] = l.prev[x]]
      BY <1>2, <1>7, <1>9, <1>17, Zenon DEF Unlinked
    <3>2. w = [l EXCEPT !.next[y] = z1, !.prev[z1] = y]
      BY <1>2, <2>2, <3>1, Zenon
    <3>3. DOMAIN l = {"first", "last", "prev", "next"}
      BY LinkedParts
    <3>4. w.first = a /\ w.last = b /\ w.prev = f /\ w.next = g /\ DOMAIN w = {"first", "last", "prev", "next"}
      BY <1>2, <2>1, <3>2, <3>3
    <3> QED
      BY <3>2, <3>4
  <2>4. /\ DOMAIN g = Nodes /\ g[y] = z1 /\ \A m \in Nodes : m # y => g[m] = q[m]
        /\ DOMAIN f = Nodes /\ f[z1] = y /\ \A m \in Nodes : m # z1 => f[m] = p[m]
    BY <1>3, <2>1, <2>2
  <2>5. \A i \in 1 .. n : i # k =>
                  /\ g[s[i]] = IF i + 1 # k THEN q[s[i]] ELSE IF k = n THEN s[i] ELSE s[k + 1]
                  /\ f[s[i]] = IF i # k + 1 THEN p[s[i]] ELSE IF k = 1 THEN s[i] ELSE s[k - 1]
    <3>1. ASSUME NEW i \in 1 .. n, i # k
          PROVE (i = k + 1 <=> s[i] = z1) /\ (i + 1 = k <=> s[i] = y) /\ s[i] \in Nodes
      <4>1. (i + 1 = k <=> i = k - 1)
        BY <1>1
      <4> QED
        BY <1>1, <2>1, <2>2, <4>1
    <3> QED
      BY <1>17, <2>1, <2>4, <3>1
  <2>6. \A m \in Nodes : (\A i \in 1 .. n : s[i] # m) => f[m] = p[m] /\ g[m] = q[m]
    BY <2>1, <2>2, <2>4
  <2>7. a = IF k # 1 THEN s[1] ELSE IF n = 1 THEN Null ELSE s[2]
    BY <1>3, <1>17
  <2>8. b = IF k # n THEN s[n] ELSE IF n = 1 THEN Null ELSE s[n - 1]
    BY <1>3, <1>17
  <2> QED
    <3>1. w.first = a /\ w.last = b /\ w.prev = f /\ w.next = g /\ DOMAIN w = {"first", "last", "prev", "next"}
      BY <2>3
    <3>2. Without(l, n, s, k, w, p, q)
      BY <1>2, <1>3, <2>4, <2>5, <2>6, <2>7, <2>8, <3>1 DEF Without
    <3> QED
      BY <1>13, <3>2
<1> QED
  BY <1>14, <1>15, <1>16, <1>17

\* Taking node k out of the list is taking it out of the sequence.
LEMMA RemoveNodeLinked ==
    ASSUME NEW l, NEW n, NEW s, Linked(l, n, s), NEW k \in 1 .. n, NEW z, z = RemoveNode(l, s[k])
    PROVE  n - 1 \in Nat /\ Linked(z, n - 1, Less(s, k - 1, 1))
<1>1. n \in Nat /\ s \in [1 .. n -> Nodes] /\ \A i, j \in 1 .. n : s[i] = s[j] => i = j
  BY LinkedParts
<1>2. PICK x : x = s[k]
  OBVIOUS
<1>3. /\ Without(l, n, s, k, z, l.prev, l.next) /\ z.prev[x] = Null /\ z.next[x] = Null
      /\ z = [first |-> z.first, last |-> z.last, prev |-> z.prev, next |-> z.next]
  <2>1. z = RemoveNode(l, x)
    BY <1>2
  <2> QED
    BY <1>2, <2>1, RemoveNodeFields
<1>4. PICK m \in Nat : n = m + 1
  <2>1. n - 1 \in Nat /\ n = (n - 1) + 1
    BY <1>1
  <2> QED
    BY <2>1
<1>5. PICK h \in Nat : k = h + 1 /\ h <= m
  <2>1. k - 1 \in Nat /\ k = (k - 1) + 1 /\ k - 1 <= m
    BY <1>1, <1>4
  <2> QED
    BY <2>1
<1>6. PICK t : t = [i \in 1 .. m |-> IF i <= h THEN s[i] ELSE s[i + 1]]
  OBVIOUS
<1>7. Less(s, h, 1) = t
  <2>1. PICK o \in Nat : o = 1
    OBVIOUS
  <2>2. t = [i \in 1 .. n - o |-> IF i <= h THEN s[i] ELSE s[i + o]] /\ h + o <= n
    <3>1. n - o = m /\ h + o <= n
      BY <1>4, <1>5, <2>1
    <3>2. t = [i \in 1 .. m |-> IF i <= h THEN s[i] ELSE s[i + o]]
      BY <1>6, <2>1, Zenon
    <3> QED
      BY <3>1, <3>2, Zenon
  <2>3. Less(s, h, o) = t
    <3>1. s \in [1 .. n -> Nodes]
      BY <1>1
    <3>2. h + o <= n
      BY <2>2
    <3>3. t = Shorter(s, n, h, o)
      BY <2>2, Zenon DEF Shorter
    <3>4. n \in Nat
      BY <1>1
    <3> QED
      BY ONLY <3>1, <3>2, <3>3, <3>4, h \in Nat, o \in Nat, LessOf
  <2> QED
    BY <2>1, <2>3
\* The place in s of each node that stays.
<1>8. PICK g : g = [i \in 1 .. m |-> IF i <= h THEN i ELSE i + 1]
  OBVIOUS
<1>9. \A i \in 1 .. m : /\ g[i] \in 1 .. n /\ g[i] # k /\ t[i] = s[g[i]]
                        /\ g[i] = IF i <= h THEN i ELSE i + 1
  BY <1>4, <1>5, <1>6, <1>8
<1>10. \A j \in 1 .. n : j # k => \E i \in 1 .. m : g[i] = j
  <2>1. ASSUME NEW j \in 1 .. n, j # k PROVE \E i \in 1 .. m : g[i] = j
    <3>1. CASE j <= h
      <4>1. j \in 1 .. m /\ g[j] = j
        BY <1>5, <1>8, <3>1
      <4> QED
        BY <4>1
    <3>2. CASE ~ (j <= h)
      <4>1. PICK i \in 1 .. m : j = i + 1 /\ ~ (i <= h)
        <5>1. j - 1 \in 1 .. m /\ j = (j - 1) + 1 /\ ~ (j - 1 <= h)
          BY <1>4, <1>5, <2>1, <3>2
        <5> QED
          BY <5>1
      <4>2. g[i] = j
        BY <1>8, <4>1
      <4> QED
        BY <4>2
    <3> QED
      BY <3>1, <3>2
  <2> QED
    BY <2>1
<1>11. t \in [1 .. m -> Nodes]
  <2>1. \A i \in 1 .. m : t[i] \in Nodes
    BY <1>1, <1>9
  <2> QED
    BY ONLY <1>6, <2>1
<1>12. \A i, j \in 1 .. m : t[i] = t[j] => i = j
  <2>1. ASSUME NEW i \in 1 .. m, NEW j \in 1 .. m, t[i] = t[j] PROVE i = j
    <3>1. g[i] = g[j]
      BY <1>1, <1>9, <2>1
    <3> QED
      BY <1>9, <3>1
  <2> QED
    BY <2>1
<1>13. DOMAIN z.prev = Nodes /\ DOMAIN z.next = Nodes
  BY <1>3 DEF Without
<1>14. ASSUME NEW y \in Nodes, \A i \in 1 .. m : t[i] # y PROVE z.prev[y] = Null /\ z.next[y] = Null
  <2>1. CASE y = x
    BY <1>3, <2>1
  <2>2. CASE y # x
    <3>1. ASSUME NEW j \in 1 .. n, s[j] = y PROVE FALSE
      <4>1. j # k
        BY <1>2, <2>2, <3>1
      <4>2. PICK i \in 1 .. m : g[i] = j
        BY <1>10, <4>1
      <4> QED
        BY <1>9, <1>14, <3>1, <4>2
    <3>2. z.prev[y] = l.prev[y] /\ z.next[y] = l.next[y]
      BY <1>3, <3>1 DEF Without
    <3>3. l.prev[y] = Null /\ l.next[y] = Null
      BY <3>1, LinkedParts
    <3> QED
      BY <3>2, <3>3
  <2> QED
    BY <2>1, <2>2
<1>15. IF m = 0 THEN z.first = Null /\ z.last = Null ELSE z.first = t[1] /\ z.last = t[m]
  <2>1. CASE m = 0
    <3>1. k = 1 /\ k = n /\ n = 1
      BY <1>4, <1>5, <2>1
    <3> QED
      BY <1>3, <2>1, <3>1 DEF Without
  <2>2. CASE m # 0
    <3>1. 1 \in 1 .. m /\ m \in 1 .. m /\ n # 1 /\ (k = 1 <=> ~ (1 <= h)) /\ (k = n <=> m <= h) /\ n - 1 = m
      BY <1>4, <1>5, <2>2
    <3>2. t[1] = (IF k # 1 THEN s[1] ELSE s[2]) /\ t[m] = (IF k # n THEN s[n] ELSE s[m])
      BY <1>4, <1>6, <3>1
    <3> QED
      BY <1>3, <2>2, <3>1, <3>2 DEF Without
  <2> QED
    BY <2>1, <2>2
<1>16. ASSUME NEW i \in 1 .. m
       PROVE  /\ z.next[t[i]] = IF i = m THEN t[i] ELSE t[i + 1]
              /\ z.prev[t[i]] = IF i = 1 THEN t[i] ELSE t[i - 1]
  <2>1. PICK j \in 1 .. n : j = g[i] /\ j # k /\ t[i] = s[j] /\ j = IF i <= h THEN i ELSE i + 1
    BY <1>9
  <2>2. /\ z.next[s[j]] = IF j + 1 # k THEN l.next[s[j]] ELSE IF k = n THEN s[j] ELSE s[k + 1]
        /\ z.prev[s[j]] = IF j # k + 1 THEN l.prev[s[j]] ELSE IF k = 1 THEN s[j] ELSE s[k - 1]
    BY <1>3, <2>1 DEF Without
  <2>3. /\ l.next[s[j]] = IF j = n THEN s[j] ELSE s[j + 1]
        /\ l.prev[s[j]] = IF j = 1 THEN s[j] ELSE s[j - 1]
    BY LinkedParts
  <2>4. z.next[t[i]] = IF i = m THEN t[i] ELSE t[i + 1]
    <3>1. CASE i = m
      BY <1>4, <1>5, <2>1, <2>2, <2>3, <3>1
    <3>2. CASE i # m
      <4>1. i + 1 \in 1 .. m
        BY <3>2
      <4>2. t[i + 1] = IF i + 1 <= h THEN s[i + 1] ELSE s[(i + 1) + 1]
        BY <1>6, <4>1
      <4>3. CASE i + 1 <= h
        BY <1>4, <1>5, <2>1, <2>2, <2>3, <3>2, <4>2, <4>3
      <4>4. CASE i = h
        <5>1. j + 1 = k /\ k # n /\ k + 1 = (i + 1) + 1 /\ ~ (i + 1 <= h)
          BY <1>4, <1>5, <2>1, <3>2, <4>4
        <5> QED
          BY <2>1, <2>2, <3>2, <4>2, <5>1
      <4>5. CASE ~ (i <= h)
        <5>1. j + 1 # k /\ j # n /\ j + 1 = (i + 1) + 1 /\ ~ (i + 1 <= h)
          BY <1>4, <1>5, <2>1, <3>2, <4>5
        <5> QED
          BY <2>1, <2>2, <2>3, <3>2, <4>2, <5>1
      <4>6. i + 1 <= h \/ i = h \/ ~ (i <= h)
        OBVIOUS
      <4> QED
        BY <4>3, <4>4, <4>5, <4>6
    <3> QED
      BY <3>1, <3>2
  <2>5. z.prev[t[i]] = IF i = 1 THEN t[i] ELSE t[i - 1]
    <3>1. CASE i = 1
      BY <1>4, <1>5, <2>1, <2>2, <2>3, <3>1
    <3>2. CASE i # 1
      <4>1. i - 1 \in 1 .. m
        BY <3>2
      <4>2. t[i - 1] = IF i - 1 <= h THEN s[i - 1] ELSE s[(i - 1) + 1]
        BY <1>6, <4>1
      <4>3. CASE i <= h
        <5>1. j = i /\ j # k + 1 /\ j # 1 /\ i - 1 <= h
          BY <1>5, <2>1, <3>2, <4>3
        <5> QED
          BY <2>1, <2>2, <2>3, <3>2, <4>2, <5>1
      <4>4. CASE i = h + 1
        <5>1. j = k + 1 /\ k # 1 /\ k - 1 = i - 1 /\ i - 1 <= h
          BY <1>5, <2>1, <3>2, <4>4
        <5> QED
          BY <2>1, <2>2, <3>2, <4>2, <5>1
      <4>5. CASE ~ (i <= h + 1)
        <5>1. j # k + 1 /\ j # 1 /\ j - 1 = (i - 1) + 1 /\ ~ (i - 1 <= h)
          BY <1>5, <2>1, <3>2, <4>5
        <5> QED
          BY <2>1, <2>2, <2>3, <3>2, <4>2, <5>1
      <4>6. i <= h \/ i = h + 1 \/ ~ (i <= h + 1)
        OBVIOUS
      <4> QED
        BY <4>3, <4>4, <4>5, <4>6
    <3> QED
      BY <3>1, <3>2
  <2> QED
    BY <2>4, <2>5
<1>17. Linked(z, m, t)
  BY <1>3, <1>11, <1>12, <1>13, <1>14, <1>15, <1>16 DEF Linked
<1>18. n - 1 = m /\ k - 1 = h
  BY <1>4, <1>5
<1> QED
  BY <1>7, <1>17, <1>18

\* clear meets every node of the list, and leaves no link.
LEMMA ClearListLinked ==
    ASSUME NEW l, NEW n, NEW s, Linked(l, n, s), NEW z, z = ClearList(l)
    PROVE  Linked(z, 0, <<>>)
<1>1. n \in Nat /\ s \in [1 .. n -> Nodes]
  BY LinkedParts
<1>2. <<>> \in [1 .. 0 -> Nodes] /\ 1 .. 0 = {}
  OBVIOUS
<1>3. CASE n = 0
  <2>1. l.first = Null /\ z = l
    BY <1>3, LinkedParts, Zenon DEF ClearList
  <2>2. \A y \in Nodes : \A i \in 1 .. n : s[i] # y
    BY <1>1, <1>3
  <2> QED
    BY <1>2, <1>3, <2>1, <2>2 DEF Linked
<1>4. CASE n # 0
  <2>1. 1 \in 1 .. n /\ n \in 1 .. n
    BY <1>1, <1>4
  <2>2. l.first = s[1] /\ l.first # Null
    BY <1>1, <1>4, <2>1, LinkedParts, ContainersAssumption
  <2>3. PICK met : met = Chain(l.next, l.first)
    OBVIOUS
  <2>4. met = {s[i] : i \in 1 .. n}
    <3>1. \A i \in 1 .. n - 1 : i \in 1 .. n /\ i # n
      BY <1>1
    <3>2. \A i \in 1 .. n - 1 : l.next[s[i]] = s[i + 1]
      BY <3>1, LinkedParts
    <3>3. l.next[s[n]] = s[n] /\ DOMAIN l.next = Nodes
      BY <2>1, LinkedParts
    <3>4. IF n = 0 THEN l.first \notin Nodes ELSE l.first = s[1] /\ {l.next[s[n]]} \cap Nodes \subseteq {s[n]}
      BY <1>4, <2>2, <3>3
    <3>5. Chain(l.next, l.first) = {s[i] : i \in 1 .. n}
      <4> DEFINE link == l.next
                 head == l.first
      <4>1. DOMAIN link = Nodes /\ \A i \in 1 .. n - 1 : link[s[i]] = s[i + 1]
        BY <3>2, <3>3
      <4>2. IF n = 0 THEN head \notin Nodes ELSE head = s[1] /\ {link[s[n]]} \cap Nodes \subseteq {s[n]}
        BY <3>4
      <4> HIDE DEF link, head
      <4>3. Chain(link, head) = {s[i] : i \in 1 .. n}
        BY ONLY <1>1, <4>1, <4>2, ChainIs
      <4> QED
        BY <4>3 DEF link, head
    <3> QED
      BY <2>3, <3>5
  <2>5. PICK p, q : p = Unset(l.prev, met) /\ q = Unset(l.next, met)
    OBVIOUS
  <2>6. z = [first |-> Null, last |-> Null, prev |-> p, next |-> q]
    BY <2>2, <2>3, <2>5, Zenon DEF ClearList
  <2>7. DOMAIN p = Nodes /\ DOMAIN q = Nodes
    BY <2>5, LinkedParts DEF Unset
  <2>8. ASSUME NEW y \in Nodes PROVE p[y] = Null /\ q[y] = Null
    <3>1. DOMAIN l.prev = Nodes /\ DOMAIN l.next = Nodes
      BY LinkedParts
    <3>2. CASE y \in met
      BY <2>5, <3>1, <3>2 DEF Unset
    <3>3. CASE y \notin met
      <4>1. p[y] = l.prev[y] /\ q[y] = l.next[y]
        BY <2>5, <3>1, <3>3 DEF Unset
      <4>2. \A i \in 1 .. n : s[i] # y
        BY <2>4, <3>3
      <4> QED
        BY <4>1, <4>2, LinkedParts
    <3> QED
      BY <3>2, <3>3
  <2>9. z.first = Null /\ z.last = Null /\ z.prev = p /\ z.next = q
    BY <2>6
  <2> QED
    BY <1>2, <2>6, <2>7, <2>8, <2>9 DEF Linked
<1> QED
  BY <1>3, <1>4

\* The list is that of its sequence, whatever was done.
LEMMA ListStep ==
    ASSUME NEW n, Linked(list, n, nodes), ListNext
    PROVE  \E m \in Nat : Linked(list', m, nodes')
<1>1. n \in Nat /\ nodes \in [1 .. n -> Nodes] /\ DOMAIN nodes = 1 .. n /\ Len(nodes) = n
  BY LinkedParts
<1>2. CASE \E x \in Nodes : ListDoes(PushNode(list, x), IF IsIn(nodes, x) THEN nodes ELSE Append(nodes, x))
  <2>1. PICK x \in Nodes : ListDoes(PushNode(list, x), IF IsIn(nodes, x) THEN nodes ELSE Append(nodes, x))
    BY <1>2
  <2>2. CASE IsIn(nodes, x)
    <3>1. PICK i \in 1 .. n : nodes[i] = x
      BY <1>1, <2>2 DEF IsIn
    <3>2. InList(list, x)
      BY <3>1, InListIs
    <3>3. list.first # Null
      <4>1. n # 0 /\ 1 \in 1 .. n
        BY <1>1
      <4> QED
        BY <1>1, <4>1, LinkedParts, ContainersAssumption
    <3>4. PushNode(list, x) = list
      BY <3>2, <3>3, Zenon DEF PushNode
    <3> QED
      BY <1>1, <2>1, <2>2, <3>4 DEF ListDoes
  <2>3. CASE ~ IsIn(nodes, x)
    <3>1. \A i \in 1 .. n : nodes[i] # x
      BY <1>1, <2>3 DEF IsIn
    <3>2. Linked(PushNode(list, x), n + 1, Append(nodes, x))
      BY <3>1, PushNodeLinked
    <3>3. n + 1 \in Nat
      BY <1>1
    <3> QED
      BY <2>1, <2>3, <3>2, <3>3, Zenon DEF ListDoes
  <2> QED
    BY <2>2, <2>3
<1>3. CASE \E x \in Nodes : ~ IsIn(nodes, x) /\ ListDoes(RemoveNode(list, x), nodes)
  <2>1. PICK x \in Nodes : ~ IsIn(nodes, x) /\ ListDoes(RemoveNode(list, x), nodes)
    BY <1>3
  <2>2. ~ InList(list, x)
    BY <1>1, <2>1, InListIs DEF IsIn
  <2>3. RemoveNode(list, x) = list
    BY <2>2, Zenon DEF RemoveNode
  <2> QED
    BY <1>1, <2>1, <2>3, Zenon DEF ListDoes
<1>4. CASE \E off \in 0 .. Len(nodes) - 1 : ListDoes(RemoveNode(list, nodes[off + 1]), Less(nodes, off, 1))
  <2>1. PICK off \in 0 .. n - 1 : ListDoes(RemoveNode(list, nodes[off + 1]), Less(nodes, off, 1))
    BY <1>1, <1>4
  <2>2. PICK k \in 1 .. n : k = off + 1 /\ k - 1 = off
    <3>1. off + 1 \in 1 .. n /\ (off + 1) - 1 = off
      BY <1>1
    <3> QED
      BY <3>1
  <2>3. list' = RemoveNode(list, nodes[k]) /\ nodes' = Less(nodes, k - 1, 1)
    BY <2>1, <2>2, Zenon DEF ListDoes
  <2>4. n - 1 \in Nat /\ Linked(list', n - 1, Less(nodes, k - 1, 1))
    BY ONLY Linked(list, n, nodes), k \in 1 .. n, <2>3, RemoveNodeLinked
  <2> QED
    BY <2>3, <2>4
<1>5. CASE ListDoes(ClearList(list), <<>>)
  <2>1. list' = ClearList(list) /\ nodes' = <<>>
    BY <1>5 DEF ListDoes
  <2>2. Linked(list', 0, <<>>)
    BY <2>1, ClearListLinked
  <2> QED
    BY <2>1, <2>2
<1> QED
  BY <1>2, <1>3, <1>4, <1>5 DEF ListNext

-----------------------------------------------------------------------------
(* The allocator.                                                          *)

\* The multiples of a size in a chunk, up to the last block's.
LastOf(size) == IF ChunkSize < 2 * size THEN 0 ELSE (ChunkSize - 2 * size) \div size + 1

\* The last block of a chunk is whole.
LEMMA LastFits ==
    ASSUME NEW size \in 1 .. ChunkSize
    PROVE  LastOf(size) \in Nat /\ LastOf(size) * size + size <= ChunkSize
<1>1. ChunkSize \in Nat /\ size \in Nat /\ size >= 1 /\ size <= ChunkSize
  BY ContainersAssumption
<1>2. CASE ChunkSize < 2 * size
  <2>1. LastOf(size) = 0
    BY <1>2 DEF LastOf
  <2> QED
    BY <1>1, <2>1
<1>3. CASE ~ (ChunkSize < 2 * size)
  <2>1. PICK x \in Nat : ChunkSize = 2 * size + x
    <3>1. ChunkSize - 2 * size \in Nat /\ ChunkSize = 2 * size + (ChunkSize - 2 * size)
      BY <1>1, <1>3
    <3> QED
      BY <3>1
  <2>2. PICK q : q = x \div size
    OBVIOUS
  <2>3. q \in Nat /\ q * size <= x
    BY <1>1, <2>2
  <2>4. LastOf(size) = q + 1
    <3>1. ChunkSize - 2 * size = x
      BY <1>1, <2>1
    <3> QED
      BY <1>3, <2>2, <3>1 DEF LastOf
  <2>5. (q + 1) * size = q * size + size
    BY <1>1, <2>3
  <2>6. q * size \in Nat
    BY <1>1, <2>3
  <2> QED
    BY <1>1, <2>1, <2>3, <2>4, <2>5, <2>6
<1> QED
  BY <1>2, <1>3

\* So are the others.
LEMMA BlocksAre ==
    ASSUME NEW size \in 1 .. ChunkSize
    PROVE  /\ BlocksOf(size) = {k * size : k \in 0 .. LastOf(size)}
           /\ LastOf(size) \in Nat
           /\ \A k \in 0 .. LastOf(size) : k * size \in Nat /\ k * size + size <= ChunkSize
<1>1. ChunkSize \in Nat /\ size \in Nat /\ size >= 1 /\ size <= ChunkSize
  BY ContainersAssumption
<1>2. BlocksOf(size) = {k * size : k \in 0 .. LastOf(size)}
  BY Zenon DEF BlocksOf, LastOf
<1>3. PICK m : m = LastOf(size)
  OBVIOUS
<1>4. m \in Nat /\ m * size + size <= ChunkSize
  BY <1>3, LastFits
<1>5. ASSUME NEW k \in 0 .. m PROVE k * size \in Nat /\ k * size + size <= ChunkSize
  <2>1. PICK d \in Nat : m = k + d
    <3>1. m - k \in Nat /\ m = k + (m - k)
      BY <1>4
    <3> QED
      BY <3>1
  <2>2. m * size = k * size + d * size
    BY <1>1, <2>1
  <2>3. k * size \in Nat /\ d * size \in Nat
    BY <1>1
  <2> QED
    BY <1>1, <1>4, <2>2, <2>3
<1> QED
  BY <1>2, <1>3, <1>4, <1>5

\* Blocks are apart, and each is in its chunk: c and d number chunks, j and k blocks.
LEMMA BlocksFit ==
    ASSUME NEW size \in 1 .. ChunkSize, NEW c \in Nat, NEW k \in 0 .. LastOf(size),
           NEW a, a = c * ChunkSize + k * size
    PROVE  a \in Nat /\ a % ChunkSize = k * size /\ (a % ChunkSize) + size <= ChunkSize
<1>1. ChunkSize \in Nat \ {0} /\ size \in Nat /\ size >= 1
  BY ContainersAssumption
<1>2. PICK b \in Nat : b = k * size /\ b + size <= ChunkSize /\ b \in 0 .. ChunkSize - 1
  <2>1. k * size \in Nat /\ k * size + size <= ChunkSize
    BY BlocksAre
  <2> QED
    BY <1>1, <2>1
<1>3. c * ChunkSize \in Nat
  BY <1>1
<1>4. a \in Nat
  BY <1>2, <1>3
<1>5. PICK q \in Nat, r \in 0 .. ChunkSize - 1 : a = q * ChunkSize + r /\ a % ChunkSize = r
  <2>1. a \div ChunkSize \in Nat /\ a % ChunkSize \in 0 .. ChunkSize - 1
        /\ a = (a \div ChunkSize) * ChunkSize + (a % ChunkSize)
    <3>1. PICK D : D = ChunkSize /\ D \in Nat \ {0}
      BY <1>1
    <3>2. a \div D \in Nat /\ a % D \in 0 .. D - 1 /\ a = (a \div D) * D + (a % D)
      BY ONLY <1>4, <3>1
    <3> QED
      BY <3>1, <3>2
  <2> QED
    BY <2>1
<1>6. r = b
  <2>1. c * ChunkSize + b = q * ChunkSize + r
    BY <1>2, <1>5
  <2> QED
    <3>1. b \in 0 .. ChunkSize - 1 /\ r \in 0 .. ChunkSize - 1 /\ ChunkSize \in Nat \ {0}
      BY <1>1, <1>2
    <3> QED
      BY ONLY <2>1, <3>1, c \in Nat, q \in Nat, Fields
<1> QED
  BY <1>2, <1>4, <1>5, <1>6

\* Of two blocks, of one chunk or of two, the lower ends before the other starts.
LEMMA BlocksDisjoint ==
    ASSUME NEW size \in 1 .. ChunkSize,
           NEW c \in Nat, NEW k \in 0 .. LastOf(size), NEW a, a = c * ChunkSize + k * size,
           NEW d \in Nat, NEW j \in 0 .. LastOf(size), NEW b, b = d * ChunkSize + j * size,
           a < b
    PROVE  a + size <= b
<1>1. ChunkSize \in Nat \ {0} /\ size \in Nat /\ size >= 1
  BY ContainersAssumption
<1>2. PICK x \in Nat : x = k * size /\ x + size <= ChunkSize
  BY BlocksAre
<1>3. PICK y \in Nat : y = j * size /\ y + size <= ChunkSize
  BY BlocksAre
<1>4. PICK u \in Nat, v \in Nat : u = c * ChunkSize /\ v = d * ChunkSize /\ a = u + x /\ b = v + y
  <2>1. c * ChunkSize \in Nat /\ d * ChunkSize \in Nat
    BY <1>1
  <2> QED
    BY <1>2, <1>3, <2>1
<1>5. CASE c < d
  <2>1. PICK e \in Nat : d = c + 1 + e
    <3>1. d - c - 1 \in Nat /\ d = c + 1 + (d - c - 1)
      BY <1>5
    <3> QED
      BY <3>1
  <2>2. v = u + ChunkSize + e * ChunkSize /\ e * ChunkSize \in Nat
    BY <1>1, <1>4, <2>1
  <2> QED
    BY <1>1, <1>2, <1>3, <1>4, <2>2
<1>6. CASE c = d
  <2>1. x < y
    BY <1>4, <1>6
  <2>2. LastOf(size) \in Nat /\ k \in Nat /\ j \in Nat
    BY BlocksAre
  <2>3. k < j
    <3>1. SUFFICES ASSUME ~ (k < j) PROVE FALSE
      OBVIOUS
    <3>2. PICK e \in Nat : k = j + e
      <4>1. k - j \in Nat /\ k = j + (k - j)
        BY <2>2, <3>1
      <4> QED
        BY <4>1
    <3>3. x = y + e * size /\ e * size \in Nat
      BY <1>1, <1>2, <1>3, <2>2, <3>2
    <3> QED
      BY <2>1, <3>3
  <2>4. PICK e \in Nat : j = k + 1 + e
    <3>1. j - k - 1 \in Nat /\ j = k + 1 + (j - k - 1)
      BY <2>2, <2>3
    <3> QED
      BY <3>1
  <2>5. y = x + size + e * size /\ e * size \in Nat
    BY <1>1, <1>2, <1>3, <2>2, <2>4
  <2> QED
    BY <1>1, <1>4, <1>6, <2>5
<1>7. CASE d < c
  <2>1. PICK e \in Nat : c = d + 1 + e
    <3>1. c - d - 1 \in Nat /\ c = d + 1 + (c - d - 1)
      BY <1>7
    <3> QED
      BY <3>1
  <2>2. u = v + ChunkSize + e * ChunkSize /\ e * ChunkSize \in Nat
    BY <1>1, <1>4, <2>1
  <2> QED
    BY <1>1, <1>2, <1>3, <1>4, <2>2
<1> QED
  BY <1>5, <1>6, <1>7

\* The addresses of the blocks of some chunks.
BlocksIn(chunks, size) == {c * ChunkSize + k * size : c \in 0 .. chunks - 1, k \in 0 .. LastOf(size)}

\* The heap h has n free blocks, those of f, one linked to the next.
Heaped(h, n, f) ==
    /\ h.size \in 1 .. ChunkSize /\ h.chunks \in Nat
    /\ DOMAIN h = {"size", "free", "next", "given", "chunks"}
    /\ DOMAIN h.next = BlocksIn(h.chunks, h.size)
    /\ n \in Nat /\ f \in [1 .. n -> DOMAIN h.next]
    /\ \A i, j \in 1 .. n : f[i] = f[j] => i = j
    /\ (n = 0 => h.free = -1) /\ (n # 0 => h.free = f[1])
    /\ \A i \in 1 .. n : h.next[f[i]] = IF i = n THEN -1 ELSE f[i + 1]
    /\ h.given \subseteq DOMAIN h.next
    /\ \A a \in DOMAIN h.next : a \in h.given <=> \A i \in 1 .. n : f[i] # a

\* Addresses are not negative: -1 is none of them.
LEMMA BlocksNat == ASSUME NEW chunks \in Nat, NEW size \in 1 .. ChunkSize PROVE BlocksIn(chunks, size) \subseteq Nat
<1>1. ASSUME NEW a \in BlocksIn(chunks, size) PROVE a \in Nat
  <2>1. PICK c \in 0 .. chunks - 1, k \in 0 .. LastOf(size) : a = c * ChunkSize + k * size
    BY DEF BlocksIn
  <2>2. c \in Nat
    OBVIOUS
  <2> QED
    BY <2>1, <2>2, BlocksFit
<1> QED
  BY <1>1

\* The free block that is first in the list is given.
LEMMA PoppedHeaped ==
    ASSUME NEW h, NEW m \in Nat, NEW n, n = m + 1, NEW f, Heaped(h, n, f),
           NEW g, g = [i \in 1 .. m |-> f[i + 1]]
    PROVE  Heaped(Popped(h), m, g)
<1>1. n \in Nat /\ f \in [1 .. n -> DOMAIN h.next] /\ 1 \in 1 .. n /\ \A i \in 1 .. m : i + 1 \in 1 .. n /\ i \in 1 .. n
  BY DEF Heaped
<1>2. PICK x : x = h.free /\ x = f[1] /\ x \in DOMAIN h.next
  BY <1>1 DEF Heaped
<1>3. PICK w : w = Popped(h)
  OBVIOUS
<1>4. PICK q : q = [h.next EXCEPT ![x] = -2]
  OBVIOUS
<1>5. /\ w.size = h.size /\ w.chunks = h.chunks /\ w.next = q /\ w.free = h.next[x] /\ w.given = h.given \cup {x}
      /\ DOMAIN w = {"size", "free", "next", "given", "chunks"}
  <2>1. w = [h EXCEPT !.free = h.next[x], !.given = @ \cup {x}, !.next[x] = -2]
    BY <1>2, <1>3, Zenon DEF Popped
  <2>2. DOMAIN h = {"size", "free", "next", "given", "chunks"}
    BY DEF Heaped
  <2> QED
    BY <1>4, <2>1, <2>2
<1>6. DOMAIN q = DOMAIN h.next /\ \A y \in DOMAIN h.next : y # x => q[y] = h.next[y]
  BY <1>4
<1>7. \A i \in 1 .. m : g[i] = f[i + 1] /\ g[i] \in DOMAIN h.next /\ g[i] # x
  <2>1. ASSUME NEW i \in 1 .. m PROVE g[i] = f[i + 1] /\ g[i] \in DOMAIN h.next /\ g[i] # x
    <3>1. g[i] = f[i + 1] /\ i + 1 \in 1 .. n /\ i + 1 # 1
      BY <1>1
    <3> QED
      BY <1>1, <1>2, <3>1 DEF Heaped
  <2> QED
    BY <2>1
<1>8. g \in [1 .. m -> DOMAIN w.next]
  BY <1>5, <1>6, <1>7
<1>9. \A i, j \in 1 .. m : g[i] = g[j] => i = j
  <2>1. ASSUME NEW i \in 1 .. m, NEW j \in 1 .. m, g[i] = g[j] PROVE i = j
    <3>1. f[i + 1] = f[j + 1] /\ i + 1 \in 1 .. n /\ j + 1 \in 1 .. n
      BY <1>1, <1>7, <2>1
    <3>2. i + 1 = j + 1
      BY <3>1 DEF Heaped
    <3> QED
      BY <3>2
  <2> QED
    BY <2>1
<1>10. h.next[x] = IF 1 = n THEN -1 ELSE f[1 + 1]
  BY <1>1, <1>2 DEF Heaped
<1>11. (m = 0 => w.free = -1) /\ (m # 0 => w.free = g[1])
  <2>1. CASE m = 0
    BY <1>5, <1>10, <2>1
  <2>2. CASE m # 0
    <3>1. 1 \in 1 .. m /\ n # 1
      BY <2>2
    <3> QED
      BY <1>5, <1>7, <1>10, <2>2, <3>1
  <2> QED
    BY <2>1, <2>2
<1>12. \A i \in 1 .. m : w.next[g[i]] = IF i = m THEN -1 ELSE g[i + 1]
  <2>1. ASSUME NEW i \in 1 .. m PROVE w.next[g[i]] = IF i = m THEN -1 ELSE g[i + 1]
    <3>1. w.next[g[i]] = h.next[f[i + 1]]
      BY <1>5, <1>6, <1>7
    <3>2. h.next[f[i + 1]] = IF i + 1 = n THEN -1 ELSE f[(i + 1) + 1]
      BY <1>1 DEF Heaped
    <3>3. CASE i = m
      BY <3>1, <3>2, <3>3
    <3>4. CASE i # m
      <4>1. i + 1 # n /\ i + 1 \in 1 .. m
        BY <3>4
      <4>2. g[i + 1] = f[(i + 1) + 1]
        BY <1>7, <4>1
      <4> QED
        BY <3>1, <3>2, <3>4, <4>1, <4>2
    <3> QED
      BY <3>3, <3>4
  <2> QED
    BY <2>1
<1>13. \A a \in DOMAIN w.next : a \in w.given <=> \A i \in 1 .. m : g[i] # a
  <2>1. ASSUME NEW a \in DOMAIN h.next PROVE a \in w.given <=> \A i \in 1 .. m : g[i] # a
    <3>1. a \in h.given <=> \A i \in 1 .. n : f[i] # a
      BY DEF Heaped
    <3>2. CASE a = x
      BY <1>5, <1>7, <3>2
    <3>3. CASE a # x
      <4>1. ASSUME NEW j \in 1 .. n, f[j] = a PROVE \E i \in 1 .. m : g[i] = a
        <5>1. j # 1
          BY <1>2, <3>3, <4>1
        <5>2. j - 1 \in 1 .. m /\ (j - 1) + 1 = j
          BY <1>1, <5>1
        <5>3. g[j - 1] = f[j]
          BY <1>7, <5>2
        <5> QED
          BY <4>1, <5>2, <5>3
      <4>2. ASSUME NEW i \in 1 .. m, g[i] = a PROVE \E j \in 1 .. n : f[j] = a
        BY <1>1, <1>7, <4>2
      <4> QED
        BY <1>5, <3>1, <3>3, <4>1, <4>2
    <3> QED
      BY <3>2, <3>3
  <2> QED
    BY <1>5, <1>6, <2>1
<1>14. w.given \subseteq DOMAIN w.next
  BY <1>2, <1>5, <1>6 DEF Heaped
<1>15. w.size \in 1 .. ChunkSize /\ w.chunks \in Nat /\ DOMAIN w.next = BlocksIn(w.chunks, w.size)
  BY <1>5, <1>6 DEF Heaped
<1>16. Heaped(w, m, g)
  BY <1>5, <1>8, <1>9, <1>11, <1>12, <1>13, <1>14, <1>15 DEF Heaped
<1> QED
  BY <1>3, <1>16

\* A block that was given is free again, and first.
LEMMA FreeHeaped ==
    ASSUME NEW h, NEW n \in Nat, NEW m, m = n + 1, NEW f, Heaped(h, n, f), NEW x \in h.given,
           NEW g, g = [i \in 1 .. m |-> IF i = 1 THEN x ELSE f[i - 1]]
    PROVE  Heaped(Free(h, x), m, g)
<1>1. /\ f \in [1 .. n -> DOMAIN h.next] /\ x \in DOMAIN h.next /\ 1 \in 1 .. m
      /\ \A i \in 1 .. n : i + 1 \in 1 .. m /\ i + 1 # 1 /\ (i + 1) - 1 = i
      /\ \A i \in 1 .. m : i # 1 => i - 1 \in 1 .. n
  BY DEF Heaped
<1>2. \A i \in 1 .. n : f[i] # x
  BY <1>1 DEF Heaped
<1>3. PICK w : w = Free(h, x)
  OBVIOUS
<1>4. PICK q : q = [h.next EXCEPT ![x] = h.free]
  OBVIOUS
<1>5. /\ w.size = h.size /\ w.chunks = h.chunks /\ w.next = q /\ w.free = x /\ w.given = h.given \ {x}
      /\ DOMAIN w = {"size", "free", "next", "given", "chunks"}
  <2>1. w = [h EXCEPT !.next[x] = h.free, !.free = x, !.given = @ \ {x}]
    BY <1>3, Zenon DEF Free
  <2>2. DOMAIN h = {"size", "free", "next", "given", "chunks"}
    BY DEF Heaped
  <2> QED
    BY <1>4, <2>1, <2>2
<1>6. DOMAIN q = DOMAIN h.next /\ q[x] = h.free /\ \A y \in DOMAIN h.next : y # x => q[y] = h.next[y]
  BY <1>1, <1>4
<1>7. g[1] = x /\ (\A i \in 1 .. n : g[i + 1] = f[i]) /\ \A i \in 1 .. m : i # 1 => g[i] = f[i - 1]
  BY <1>1
<1>8. g \in [1 .. m -> DOMAIN w.next]
  <2>1. \A i \in 1 .. m : g[i] \in DOMAIN h.next
    BY <1>1, <1>7
  <2> QED
    BY <1>5, <1>6, <2>1
<1>9. \A i, j \in 1 .. m : g[i] = g[j] => i = j
  <2>1. ASSUME NEW i \in 1 .. m, NEW j \in 1 .. m, g[i] = g[j] PROVE i = j
    <3>1. CASE i = 1
      BY <1>1, <1>2, <1>7, <2>1, <3>1
    <3>2. CASE j = 1
      BY <1>1, <1>2, <1>7, <2>1, <3>2
    <3>3. CASE i # 1 /\ j # 1
      <4>1. i - 1 \in 1 .. n /\ j - 1 \in 1 .. n /\ f[i - 1] = f[j - 1]
        BY <1>1, <1>7, <2>1, <3>3
      <4>2. i - 1 = j - 1
        BY <4>1 DEF Heaped
      <4> QED
        BY <4>2
    <3> QED
      BY <3>1, <3>2, <3>3
  <2> QED
    BY <2>1
<1>10. m \in Nat /\ m # 0
  OBVIOUS
<1>11. \A i \in 1 .. m : w.next[g[i]] = IF i = m THEN -1 ELSE g[i + 1]
  <2>1. ASSUME NEW i \in 1 .. m PROVE w.next[g[i]] = IF i = m THEN -1 ELSE g[i + 1]
    <3>1. CASE i = 1
      <4>1. w.next[g[i]] = h.free
        BY <1>5, <1>6, <1>7, <3>1
      <4>2. CASE n = 0
        BY <3>1, <4>1, <4>2 DEF Heaped
      <4>3. CASE n # 0
        <5>1. 1 \in 1 .. n /\ i # m
          BY <3>1, <4>3
        <5>2. g[i + 1] = f[1]
          BY <1>7, <3>1, <5>1
        <5> QED
          BY <4>1, <4>3, <5>1, <5>2 DEF Heaped
      <4> QED
        BY <4>2, <4>3
    <3>2. CASE i # 1
      <4>1. PICK j \in 1 .. n : i = j + 1 /\ j = i - 1 /\ (i = m <=> j = n)
        <5>1. i - 1 \in 1 .. n /\ i = (i - 1) + 1 /\ (i = m <=> i - 1 = n)
          BY <1>1, <3>2
        <5> QED
          BY <5>1
      <4>2. w.next[g[i]] = h.next[f[j]]
        BY <1>1, <1>2, <1>5, <1>6, <1>7, <3>2, <4>1
      <4>3. h.next[f[j]] = IF j = n THEN -1 ELSE f[j + 1]
        BY DEF Heaped
      <4>4. j # n => g[i + 1] = f[j + 1]
        <5>1. j # n => j + 1 \in 1 .. n
          OBVIOUS
        <5> QED
          BY <1>7, <4>1, <5>1
      <4> QED
        BY <4>1, <4>2, <4>3, <4>4
    <3> QED
      BY <3>1, <3>2
  <2> QED
    BY <2>1
<1>12. \A a \in DOMAIN w.next : a \in w.given <=> \A i \in 1 .. m : g[i] # a
  <2>1. ASSUME NEW a \in DOMAIN h.next PROVE a \in w.given <=> \A i \in 1 .. m : g[i] # a
    <3>1. a \in h.given <=> \A i \in 1 .. n : f[i] # a
      BY DEF Heaped
    <3>2. CASE a = x
      BY <1>1, <1>5, <1>7, <3>2
    <3>3. CASE a # x
      <4>1. ASSUME NEW j \in 1 .. n, f[j] = a PROVE \E i \in 1 .. m : g[i] = a
        BY <1>1, <1>7, <4>1
      <4>2. ASSUME NEW i \in 1 .. m, g[i] = a PROVE \E j \in 1 .. n : f[j] = a
        <5>1. i # 1
          BY <1>7, <3>3, <4>2
        <5> QED
          BY <1>1, <1>7, <4>2, <5>1
      <4> QED
        BY <1>5, <3>1, <3>3, <4>1, <4>2
    <3> QED
      BY <3>2, <3>3
  <2> QED
    BY <1>5, <1>6, <2>1
<1>13. w.given \subseteq DOMAIN w.next
  BY <1>5, <1>6 DEF Heaped
<1>14. w.size \in 1 .. ChunkSize /\ w.chunks \in Nat /\ DOMAIN w.next = BlocksIn(w.chunks, w.size)
  BY <1>5, <1>6 DEF Heaped
<1>15. w.free = g[1]
  BY <1>5, <1>7
<1>16. Heaped(w, m, g)
  BY <1>5, <1>8, <1>9, <1>10, <1>11, <1>12, <1>13, <1>14, <1>15 DEF Heaped
<1> QED
  BY <1>3, <1>16

\* Stated once for the provers.
LEMMA Product == ASSUME NEW x \in Nat, NEW y \in Nat PROVE x * y \in Nat
OBVIOUS

\* A new chunk is cut in blocks that are linked in the order of their addresses.
LEMMA NewChunkHeaped ==
    ASSUME NEW h, NEW f, Heaped(h, 0, f), NEW size, size = h.size, NEW d, d = h.chunks,
           NEW K, K = LastOf(size), NEW m, m = K + 1, NEW base, base = d * ChunkSize,
           NEW g, g = [i \in 1 .. m |-> base + (i - 1) * size]
    PROVE  K \in Nat /\ Heaped(NewChunk(h), m, g)
<1> DEFINE blocks == {base + b : b \in BlocksOf(size)}
<1>1. size \in 1 .. ChunkSize /\ d \in Nat /\ size \in Nat /\ size >= 1 /\ ChunkSize \in Nat \ {0}
      /\ DOMAIN h.next = BlocksIn(d, size) /\ h.free = -1
  BY ContainersAssumption DEF Heaped
<1>2. K \in Nat /\ m \in Nat /\ m # 0 /\ 1 \in 1 .. m /\ m \in 1 .. m
      /\ \A k \in 0 .. K : k * size \in Nat /\ k * size + size <= ChunkSize
  <2>1. K \in Nat /\ \A k \in 0 .. K : k * size \in Nat /\ k * size + size <= ChunkSize
    BY <1>1, BlocksAre
  <2> QED
    BY <2>1
<1>3. base \in Nat
  BY <1>1
<1>4. blocks = {base + k * size : k \in 0 .. K}
  <2>1. BlocksOf(size) = {k * size : k \in 0 .. K}
    BY <1>1, BlocksAre
  <2> QED
    BY <2>1
<1>5. \A i \in 1 .. m : i - 1 \in 0 .. K /\ g[i] = base + (i - 1) * size /\ g[i] \in blocks
  <2>1. ASSUME NEW i \in 1 .. m PROVE i - 1 \in 0 .. K /\ g[i] = base + (i - 1) * size
    BY <1>2
  <2> QED
    BY <1>4, <2>1
<1>6. ASSUME NEW a \in blocks PROVE \E i \in 1 .. m : g[i] = a
  <2>1. PICK k \in 0 .. K : a = base + k * size
    BY <1>4
  <2>2. k + 1 \in 1 .. m /\ (k + 1) - 1 = k
    BY <1>2
  <2>3. g[k + 1] = a
    BY <1>5, <2>1, <2>2
  <2> QED
    BY <2>2, <2>3
<1> HIDE DEF blocks
<1>7. ASSUME NEW j \in Nat, NEW k \in Nat, j < k PROVE j * size + size <= k * size
  <2>1. PICK e \in Nat : k = j + 1 + e
    <3>1. k - j - 1 \in Nat /\ k = j + 1 + (k - j - 1)
      BY <1>7
    <3> QED
      BY <3>1
  <2>2. k * size = j * size + size + e * size
    BY <1>1, <2>1
  <2>3. e * size \in Nat /\ j * size \in Nat
    BY <1>1
  <2> QED
    BY <1>1, <2>2, <2>3
<1>8. \A i, j \in 1 .. m : g[i] = g[j] => i = j
  <2>1. ASSUME NEW i \in 1 .. m, NEW j \in 1 .. m, i < j PROVE g[i] # g[j]
    <3>1. PICK x \in Nat, y \in Nat : x = i - 1 /\ y = j - 1 /\ x < y
      BY <2>1
    <3>2. g[i] = base + x * size /\ g[j] = base + y * size
      BY <1>5, <3>1
    <3>3. x * size + size <= y * size
      BY <1>7, <3>1
    <3>4. PICK a \in Nat, b \in Nat : a = x * size /\ b = y * size
      BY <1>1, Product
    <3>5. a + size <= b /\ g[i] = base + a /\ g[j] = base + b /\ base \in Nat /\ size \in Nat /\ size >= 1
      BY <1>1, <1>3, <3>2, <3>3, <3>4
    <3> QED
      BY ONLY <3>5, a \in Nat, b \in Nat
  <2>2. \A i, j \in 1 .. m : i < j \/ j < i \/ i = j
    OBVIOUS
  <2> QED
    BY <2>1, <2>2
<1>9. ASSUME NEW a \in DOMAIN h.next PROVE a \notin blocks
  <2>1. PICK c \in 0 .. d - 1, j \in 0 .. K : a = c * ChunkSize + j * size
    BY <1>1 DEF BlocksIn
  <2>2. ASSUME NEW k \in 0 .. K, a = base + k * size PROVE FALSE
    <3>1. PICK x \in 0 .. ChunkSize - 1, y \in 0 .. ChunkSize - 1 : x = j * size /\ y = k * size
      <4>1. ASSUME NEW i \in 0 .. K PROVE i * size \in 0 .. ChunkSize - 1
        <5>1. i * size \in Nat /\ i * size + size <= ChunkSize
          BY <1>2
        <5>2. PICK e \in Nat : e = i * size /\ e + size <= ChunkSize
          BY <5>1
        <5>3. e \in 0 .. ChunkSize - 1
          BY <1>1, <5>2
        <5> QED
          BY <5>2, <5>3
      <4> QED
        BY <4>1
    <3>2. c * ChunkSize + x = d * ChunkSize + y
      BY <2>1, <2>2, <3>1
    <3>3. c \in Nat /\ ChunkSize \in Nat \ {0} /\ d \in Nat
      BY <1>1
    <3>4. c = d
      BY ONLY <3>2, <3>3, x \in 0 .. ChunkSize - 1, y \in 0 .. ChunkSize - 1, Fields
    <3> QED
      BY <1>1, <3>4
  <2> QED
    BY <1>4, <2>2
<1>10. PICK w : w = NewChunk(h)
  OBVIOUS
<1>11. PICK q : q = [a \in DOMAIN h.next \cup blocks |->
                        CASE a \notin blocks -> h.next[a]
                          [] a \in blocks /\ a + size \in blocks -> a + size
                          [] OTHER -> -1]
  OBVIOUS
<1>12. /\ w.size = size /\ w.chunks = d + 1 /\ w.next = q /\ w.free = base /\ w.given = h.given
       /\ DOMAIN w = {"size", "free", "next", "given", "chunks"}
  <2>1. w = [h EXCEPT !.chunks = @ + 1, !.free = base, !.next = q]
    BY <1>10, <1>11, Zenon DEF NewChunk, blocks
  <2>2. DOMAIN h = {"size", "free", "next", "given", "chunks"}
    BY DEF Heaped
  <2> QED
    BY <2>1, <2>2
<1>13. DOMAIN q = DOMAIN h.next \cup blocks
  BY <1>11
<1>14. \A i \in 1 .. m : q[g[i]] = IF i = m THEN -1 ELSE g[i + 1]
  <2>1. ASSUME NEW i \in 1 .. m PROVE q[g[i]] = IF i = m THEN -1 ELSE g[i + 1]
    <3>1. PICK a : a = g[i] /\ a \in blocks
      BY <1>5
    <3>2. PICK k \in 0 .. K : k = i - 1 /\ a = base + k * size /\ i = k + 1
      <4>1. i - 1 \in 0 .. K /\ i = (i - 1) + 1
        BY <1>5
      <4> QED
        BY <1>5, <3>1, <4>1
    <3>3. (k + 1) * size = k * size + size /\ k * size \in Nat
      BY <1>1, <1>2
    <3>4. a + size = base + (k + 1) * size
      <4>1. PICK x \in Nat : x = k * size
        BY <3>3
      <4>2. a = base + x /\ (k + 1) * size = x + size
        BY <3>2, <3>3, <4>1
      <4>3. (base + x) + size = base + (x + size)
        BY <1>1, <1>3
      <4> QED
        BY ONLY <4>2, <4>3
    <3>5. CASE i = m
      <4>1. a + size \notin blocks
        <5>1. ASSUME NEW j \in 0 .. K, a + size = base + j * size PROVE FALSE
          <6>1. j < k + 1 /\ j \in Nat /\ k + 1 \in Nat
            BY <1>2, <3>2, <3>5
          <6>2. PICK e \in Nat : e = k + 1 /\ j < e
            BY <6>1
          <6>3. j * size + size <= e * size
            BY <1>7, <6>1, <6>2
          <6>4. e * size = k * size + size
            BY <3>3, <6>2
          <6>5. j * size \in Nat
            BY <1>1, <6>1
          <6>6. PICK p \in Nat, r \in Nat : p = k * size /\ r = j * size
            BY <3>3, <6>5
          <6>7. a = base + p /\ a + size = base + r /\ r + size <= p + size
            BY <3>2, <5>1, <6>3, <6>4, <6>6
          <6>8. base \in Nat /\ size \in Nat /\ size >= 1 /\ p \in Nat /\ r \in Nat
            BY <1>1, <1>3
          <6>9. (base + p) + size = base + r
            BY <6>7
          <6> QED
            BY ONLY <6>7, <6>8, <6>9
        <5> QED
          BY <1>4, <5>1
      <4>2. q[a] = -1
        BY <1>11, <3>1, <4>1
      <4> QED
        BY <3>1, <3>5, <4>2
    <3>6. CASE i # m
      <4>1. k + 1 \in 0 .. K /\ i + 1 \in 1 .. m /\ (i + 1) - 1 = k + 1
        BY <1>2, <3>2, <3>6
      <4>2. a + size \in blocks /\ g[i + 1] = a + size
        BY <1>4, <1>5, <3>4, <4>1
      <4>3. q[a] = a + size
        BY <1>11, <3>1, <4>2
      <4> QED
        BY <3>1, <3>6, <4>2, <4>3
    <3> QED
      BY <3>5, <3>6
  <2> QED
    BY <2>1
<1>15. DOMAIN q = BlocksIn(d + 1, size)
  <2>1. ASSUME NEW a \in DOMAIN h.next PROVE a \in BlocksIn(d + 1, size)
    <3>1. PICK c \in 0 .. d - 1, j \in 0 .. LastOf(size) : a = c * ChunkSize + j * size
      BY <1>1 DEF BlocksIn
    <3>2. c \in 0 .. (d + 1) - 1
      BY <1>1
    <3> QED
      BY <3>1, <3>2 DEF BlocksIn
  <2>2. ASSUME NEW a \in blocks PROVE a \in BlocksIn(d + 1, size)
    <3>1. PICK k \in 0 .. LastOf(size) : a = d * ChunkSize + k * size
      BY <1>4
    <3>2. d \in 0 .. (d + 1) - 1
      BY <1>1
    <3> QED
      BY <3>1, <3>2 DEF BlocksIn
  <2>3. ASSUME NEW a \in BlocksIn(d + 1, size), a \notin DOMAIN h.next PROVE a \in blocks
    <3>1. PICK c \in 0 .. (d + 1) - 1, j \in 0 .. LastOf(size) : a = c * ChunkSize + j * size
      BY <2>3 DEF BlocksIn
    <3>2. c \notin 0 .. d - 1
      BY <1>1, <2>3, <3>1 DEF BlocksIn
    <3>3. c = d
      BY <1>1, <3>2
    <3> QED
      BY <1>4, <3>1, <3>3
  <2> QED
    BY <1>13, <2>1, <2>2, <2>3
<1>16. h.given = DOMAIN h.next
  <2>1. ASSUME NEW a \in DOMAIN h.next PROVE \A i \in 1 .. 0 : f[i] # a
    OBVIOUS
  <2>2. h.given \subseteq DOMAIN h.next /\ \A a \in DOMAIN h.next : a \in h.given <=> \A i \in 1 .. 0 : f[i] # a
    BY Zenon DEF Heaped
  <2> QED
    BY <2>1, <2>2
<1>17. \A a \in DOMAIN q : a \in h.given <=> \A i \in 1 .. m : g[i] # a
  BY <1>5, <1>6, <1>9, <1>13, <1>16
<1>18. g[1] = base
  <2>1. (1 - 1) * size = 0
    BY <1>1
  <2> QED
    BY <1>2, <1>3, <1>5, <2>1
<1>19. g \in [1 .. m -> DOMAIN q]
  BY <1>5, <1>13
<1>20. d + 1 \in Nat
  BY <1>1
<1>21. /\ w.size \in 1 .. ChunkSize /\ w.chunks \in Nat /\ DOMAIN w.next = BlocksIn(w.chunks, w.size)
       /\ g \in [1 .. m -> DOMAIN w.next] /\ w.given \subseteq DOMAIN w.next
  BY <1>1, <1>12, <1>13, <1>15, <1>16, <1>19, <1>20
<1>22. /\ (m = 0 => w.free = -1) /\ (m # 0 => w.free = g[1])
       /\ \A i \in 1 .. m : w.next[g[i]] = IF i = m THEN -1 ELSE g[i + 1]
       /\ \A a \in DOMAIN w.next : a \in w.given <=> \A i \in 1 .. m : g[i] # a
  BY <1>2, <1>12, <1>14, <1>17, <1>18
<1>23. Heaped(w, m, g)
  BY <1>2, <1>8, <1>12, <1>21, <1>22 DEF Heaped
<1> QED
  BY <1>2, <1>10, <1>23

\* malloc and free keep the list of the free blocks and the set of those given apart.
LEMMA HeapStep ==
    ASSUME NEW n, NEW f, Heaped(heap, n, f), HeapNext
    PROVE  \E m \in Nat : \E g : Heaped(heap', m, g)
<1>1. n \in Nat
  BY DEF Heaped
<1>2. ASSUME NEW h, NEW k \in Nat, NEW e, Heaped(h, k, e), k # 0 PROVE \E m \in Nat : \E g : Heaped(Popped(h), m, g)
  <2>1. PICK m \in Nat : k = m + 1
    <3>1. k - 1 \in Nat /\ k = (k - 1) + 1
      BY <1>2
    <3> QED
      BY <3>1
  <2>2. PICK g : g = [i \in 1 .. m |-> e[i + 1]]
    OBVIOUS
  <2>3. Heaped(Popped(h), m, g)
    BY <1>2, <2>1, <2>2, PoppedHeaped
  <2> QED
    BY <2>3
<1>3. CASE heap' = Malloc(heap)
  <2>1. CASE heap.free = -1
    <3>1. n = 0
      <4>1. n # 0 => 1 \in 1 .. n
        BY <1>1
      <4>2. n # 0 => heap.free \in DOMAIN heap.next
        BY <4>1 DEF Heaped
      <4>3. DOMAIN heap.next \subseteq Nat
        BY BlocksNat DEF Heaped
      <4> QED
        BY <2>1, <4>2, <4>3
    <3>2. PICK size, d, K, base, m : /\ size = heap.size /\ d = heap.chunks
                                     /\ K = LastOf(size) /\ base = d * ChunkSize /\ m = K + 1
      OBVIOUS
    <3>3. PICK g : g = [i \in 1 .. m |-> base + (i - 1) * size]
      OBVIOUS
    <3>4. K \in Nat /\ Heaped(NewChunk(heap), m, g)
      BY <3>1, <3>2, <3>3, NewChunkHeaped
    <3>5. m \in Nat /\ m # 0
      BY <3>2, <3>4
    <3>6. heap' = Popped(NewChunk(heap))
      BY <1>3, <2>1, Zenon DEF Malloc
    <3>7. PICK h : h = NewChunk(heap)
      OBVIOUS
    <3>8. \E i \in Nat : \E e : Heaped(Popped(h), i, e)
      BY <1>2, <3>4, <3>5, <3>7
    <3> QED
      BY <3>6, <3>7, <3>8
  <2>2. CASE heap.free # -1
    <3>1. n # 0
      BY <2>2 DEF Heaped
    <3>2. heap' = Popped(heap)
      BY <1>3, <2>2, Zenon DEF Malloc
    <3> QED
      BY <1>1, <1>2, <3>1, <3>2
  <2> QED
    BY <2>1, <2>2
<1>4. CASE \E a \in heap.given : heap' = Free(heap, a)
  <2>1. PICK a \in heap.given : heap' = Free(heap, a)
    BY <1>4
  <2>2. PICK m \in Nat : m = n + 1
    BY <1>1
  <2>3. PICK g : g = [i \in 1 .. m |-> IF i = 1 THEN a ELSE f[i - 1]]
    OBVIOUS
  <2>4. Heaped(Free(heap, a), m, g)
    BY <1>1, <2>2, <2>3, FreeHeaped
  <2> QED
    BY <2>1, <2>4
<1> QED
  BY <1>3, <1>4 DEF HeapNext

\* What is kept of the blocks is what the property states.
LEMMA HeapedApart ==
    ASSUME NEW n, NEW f, Heaped(heap, n, f)
    PROVE  BlocksApart
<1>1. n \in Nat /\ f \in [1 .. n -> DOMAIN heap.next] /\ heap.size \in 1 .. ChunkSize /\ heap.chunks \in Nat
      /\ DOMAIN heap.next = BlocksIn(heap.chunks, heap.size)
  BY DEF Heaped
<1>2. DOMAIN heap.next \subseteq Nat /\ -1 \notin DOMAIN heap.next
  BY <1>1, BlocksNat
<1>3. FreeBlocks = {f[i] : i \in 1 .. n}
  <2>1. PICK link, D, head : link = heap.next /\ D = DOMAIN heap.next /\ head = heap.free
    OBVIOUS
  <2>2. \A i \in 1 .. n - 1 : link[f[i]] = f[i + 1]
    <3>1. \A i \in 1 .. n - 1 : i \in 1 .. n /\ i # n
      BY <1>1
    <3> QED
      BY <2>1, <3>1 DEF Heaped
  <2>3. IF n = 0 THEN head \notin D ELSE head = f[1] /\ {link[f[n]]} \cap D \subseteq {f[n]}
    <3>1. CASE n = 0
      BY <1>2, <2>1, <3>1 DEF Heaped
    <3>2. CASE n # 0
      <4>1. n \in 1 .. n
        BY <1>1, <3>2
      <4>2. link[f[n]] = -1
        BY <2>1, <4>1 DEF Heaped
      <4> QED
        BY <1>2, <2>1, <3>2, <4>2 DEF Heaped
    <3> QED
      BY <3>1, <3>2
  <2>4. f \in [1 .. n -> D] /\ DOMAIN link = D
    BY <1>1, <2>1
  <2>5. Chain(link, head) = {f[i] : i \in 1 .. n}
    BY ONLY <1>1, <2>2, <2>3, <2>4, ChainIs
  <2> QED
    BY <2>1, <2>5 DEF FreeBlocks
<1>4. \A a \in DOMAIN heap.next : a \in heap.given <=> a \notin FreeBlocks
  BY <1>3 DEF Heaped
<1>5. FreeBlocks \subseteq DOMAIN heap.next /\ heap.given \subseteq DOMAIN heap.next
  BY <1>1, <1>3 DEF Heaped
<1>6. ASSUME NEW a \in DOMAIN heap.next
      PROVE  \E c \in Nat, k \in 0 .. LastOf(heap.size) : a = c * ChunkSize + k * heap.size
  BY <1>1 DEF BlocksIn
<1>7. ASSUME NEW a \in DOMAIN heap.next PROVE (a % ChunkSize) + heap.size <= ChunkSize
  BY <1>1, <1>6, BlocksFit
<1>8. ASSUME NEW a \in DOMAIN heap.next, NEW b \in DOMAIN heap.next, a < b PROVE a + heap.size <= b
  <2>1. PICK c \in Nat, k \in 0 .. LastOf(heap.size) : a = c * ChunkSize + k * heap.size
    BY <1>6
  <2>2. PICK d \in Nat, j \in 0 .. LastOf(heap.size) : b = d * ChunkSize + j * heap.size
    BY <1>6
  <2> QED
    BY <1>1, <1>8, <2>1, <2>2, BlocksDisjoint
<1> QED
  BY <1>4, <1>5, <1>7, <1>8 DEF BlocksApart

-----------------------------------------------------------------------------
(* The three together.                                                     *)

\* What holds of the three, and is kept.
ContainersInv ==
    /\ Holds(vec, items)
    /\ \E n \in Nat : Linked(list, n, nodes)
    /\ \E n \in Nat : \E f : Heaped(heap, n, f)

\* The three parts hold of what is empty,
LEMMA ContainersBegin == ContainersInit => ContainersInv
<1> SUFFICES ASSUME ContainersInit PROVE ContainersInv
  OBVIOUS
<1>1. Holds(vec, items)
  BY ClearHolds DEF ContainersInit
<1>2. Linked(list, 0, nodes)
  <2>1. PICK p, q : p = [n \in Nodes |-> Null] /\ q = [n \in Nodes |-> Null]
    OBVIOUS
  <2>2. list = [first |-> Null, last |-> Null, prev |-> p, next |-> q] /\ nodes = <<>>
    BY <2>1 DEF ContainersInit
  <2>3. list.first = Null /\ list.last = Null /\ list.prev = p /\ list.next = q
    BY <2>2
  <2>4. DOMAIN p = Nodes /\ DOMAIN q = Nodes /\ \A y \in Nodes : p[y] = Null /\ q[y] = Null
    BY <2>1
  <2>5. nodes \in [1 .. 0 -> Nodes] /\ 1 .. 0 = {}
    BY <2>2
  <2> QED
    BY <2>2, <2>3, <2>4, <2>5 DEF Linked
<1>3. Heaped(heap, 0, <<>>)
  <2>1. PICK w \in 1 .. ChunkSize : heap = [size |-> ClassOf(w), free |-> -1, next |-> [a \in {} |-> 0], given |-> {}, chunks |-> 0]
    BY DEF ContainersInit
  <2>2. ClassOf(w) \in 1 .. ChunkSize
    <3>1. PICK S : S = {t \in BlockSizes : w <= t}
      OBVIOUS
    <3>2. S \in SUBSET Nat /\ ChunkSize \in S
      <4>1. BlockSizes \subseteq 1 .. ChunkSize /\ ChunkSize \in BlockSizes
        BY ContainersAssumption
      <4>2. ChunkSize \in Nat /\ w <= ChunkSize
        BY <4>1
      <4>3. \A t \in S : t \in Nat
        BY <3>1, <4>1
      <4> QED
        BY <3>1, <4>1, <4>2, <4>3
    <3>3. PICK x \in S : \A y \in S : ~ (<<y, x>> \in OpToRel(<, Nat))
      BY <3>2, NatLessThanWellFounded, WFMin
    <3>4. \A y \in S : x <= y
      <4>1. x \in Nat /\ S \subseteq Nat
        BY <3>2
      <4>2. \A y \in S : ~ (y < x)
        BY <3>3, <4>1 DEF OpToRel
      <4> QED
        BY <4>1, <4>2
    <3>5. x \in BlockSizes /\ w <= x /\ \A t \in BlockSizes : w <= t => x <= t
      BY <3>1, <3>4
    <3>6. ClassOf(w) \in BlockSizes
      BY <3>5 DEF ClassOf
    <3> QED
      BY <3>6, ContainersAssumption
  <2>3. PICK q : q = [a \in {} |-> 0]
    OBVIOUS
  <2>4. /\ heap.size \in 1 .. ChunkSize /\ heap.chunks = 0 /\ heap.next = q /\ heap.free = -1 /\ heap.given = {}
        /\ DOMAIN heap = {"size", "free", "next", "given", "chunks"}
    BY <2>1, <2>2, <2>3
  <2>5. DOMAIN q = {}
    BY <2>3
  <2>6. BlocksIn(0, heap.size) = {}
    BY DEF BlocksIn
  <2>7. <<>> \in [1 .. 0 -> DOMAIN q] /\ 1 .. 0 = {}
    OBVIOUS
  <2> QED
    BY <2>4, <2>5, <2>6, <2>7 DEF Heaped
<1> QED
  BY <1>1, <1>2, <1>3 DEF ContainersInv

\* each is kept by its own operations and not touched by the others',
LEMMA ContainersStep == ContainersInv /\ [ContainersNext]_containervars => ContainersInv'
<1> SUFFICES ASSUME ContainersInv, [ContainersNext]_containervars PROVE ContainersInv'
  OBVIOUS
<1>1. /\ UNCHANGED vecvars => Holds(vec, items)'
      /\ UNCHANGED listvars => (\E n \in Nat : Linked(list, n, nodes))'
      /\ UNCHANGED heap => (\E n \in Nat : \E f : Heaped(heap, n, f))'
  BY DEF ContainersInv, vecvars, listvars
<1>2. VecNext => Holds(vec, items)'
  BY VecStep DEF ContainersInv
<1>3. ListNext => (\E n \in Nat : Linked(list, n, nodes))'
  BY ListStep DEF ContainersInv
<1>4. HeapNext => (\E n \in Nat : \E f : Heaped(heap, n, f))'
  BY HeapStep DEF ContainersInv
<1>5. CASE ContainersNext
  BY <1>1, <1>2, <1>3, <1>4, <1>5 DEF ContainersNext, ContainersInv
<1>6. CASE UNCHANGED containervars
  BY <1>1, <1>6 DEF containervars, vecvars, listvars, ContainersInv
<1> QED
  BY <1>5, <1>6

\* and together they are what the runs check.
LEMMA ContainersAre == ContainersInv => ContainersSound
<1> SUFFICES ASSUME ContainersInv PROVE ContainersSound
  OBVIOUS
<1>1. VecIsSequence
  BY VecHolds DEF ContainersInv
<1>2. ListIsSequence
  BY LinkedApplied DEF ContainersInv, ListIsSequence
<1>3. BlocksApart
  BY HeapedApart DEF ContainersInv
<1> QED
  BY <1>1, <1>2, <1>3 DEF ContainersSound

\* Vec.h, DoublyLinkedCycleEndedList.h, KsAllocator.cpp: after any calls, whatever the size
\* of the items, of the blocks and of the chunks, a vector holds the items of its sequence in
\* memory that it has; a list has the nodes of its sequence, both ways, and leaves no link in
\* another node; the blocks of the allocator do not overlap, lie each in one chunk, and are
\* free or given, never both.
THEOREM ContainersHold == ContainersSpec => []ContainersSound
<1>1. ContainersSpec => []ContainersInv
  BY ContainersBegin, ContainersStep, PTL DEF ContainersSpec
<1> QED
  BY <1>1, ContainersAre, PTL

=============================================================================
