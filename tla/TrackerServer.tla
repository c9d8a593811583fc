--------------------------- MODULE TrackerServer ---------------------------
(***************************************************************************)
(* The server of the tracker (RB/cpp/RiotBase/Tracker/Tracker.cpp and      *)
(* Core/TrackerServerSession.cpp): the sessions of its clients, which      *)
(* devices have which object open, the tokens that stand for a password,   *)
(* and the end of the sessions, decided by a client, by the end of its     *)
(* connection or by the timers.                                            *)
(*                                                                         *)
(* Every connection makes a session of its own, so a session stands for    *)
(* its connection, its device (a new number from the IdGenerator at every  *)
(* login), its token and its two tasks.  The sets of devices that have an  *)
(* object are sets here.  A client logs in once on a connection, perhaps   *)
(* after it has logged out; what ends in an assertion of the code (TODO)   *)
(* is disabled, and the server stops once a deleted session is registered. *)
(*                                                                         *)
(* The clock is in seconds.  An hour and the delays are shorter than the   *)
(* code's; Late is the longest time between two calls of timer_1s.         *)
(***************************************************************************)
EXTENDS TimedTasks

CONSTANTS Sessions, Inodes,
          AliveDelay,    \* 5: how long a client may stay without connection
          MinuteSlots,   \* 60
          Hour, Day,     \* 3600, 24 * 3600
          Late, MaxClock

ASSUME ServerAssumption == /\ {AliveDelay, MinuteSlots, Hour, Day, Late, MaxClock} \subseteq Nat \ {0}
                           /\ AliveDelay + Late < MinuteSlots /\ Hour + Late <= Day

VARIABLES clock,
          status,            \* status[s]: "none", "open", "closed" (its connection is), "deleted"
          logged,            \* the sessions that have a dev
          sessions,          \* Tracker::sessions
          sessions_to_del,
          token_to_usr_id,   \* the sessions whose token is in the map
          connected_devs,    \* connected_devs[o]: the devices of inode_table[ o ]
          minute,            \* timed_task_list_1mn_res_1s, of the alive_checks
          fifteen_days,      \* timed_task_list_15day_res_1hr, of the ends of the tokens
          next_hour,         \* when timer_1h expires
          told,              \* told[s]: the pairs of an inode and a device the client of s was told of
          binders,           \* binders[o]: the sessions bind_obj has registered for o
          returned,          \* the sessions that have logged in after they had logged out
          since              \* since[s]: when the connection of s was closed, when s logged in
server == <<clock, status, logged, sessions, sessions_to_del, token_to_usr_id, connected_devs,
            minute, fifteen_days, next_hour, told, binders, returned, since>>

\* ceil( max_delay / unit ) for 24 * 15 and 3600.
FifteenDaysSlots == 1
\* cur_time_div() of a list: tv_sec * unit.
Div(unit) == clock * unit

Living == {s \in Sessions : status[s] \in {"open", "closed"}}
Connected == {s \in Sessions : status[s] = "open"}

NotYet == [closed |-> -1, login |-> -1]

ServerInit ==
  /\ clock = 0
  /\ status = [s \in Sessions |-> "none"]
  /\ logged = {} /\ sessions = {} /\ sessions_to_del = {} /\ token_to_usr_id = {}
  /\ connected_devs = [o \in Inodes |-> {}]
  /\ minute = NewTaskList(MinuteSlots, 0)
  /\ fifteen_days = NewTaskList(FifteenDaysSlots, 0)
  /\ next_hour = Hour
  /\ told = [s \in Sessions |-> {}]
  /\ binders = [o \in Inodes |-> {}]
  /\ returned = {}
  /\ since = [s \in Sessions |-> NotYet]

-----------------------------------------------------------------------------
\* The clients

Connect(s) == /\ status[s] = "none"
              /\ status' = [status EXCEPT ![s] = "open"]
              /\ UNCHANGED <<clock, logged, sessions, sessions_to_del, token_to_usr_id, connected_devs,
                             minute, fifteen_days, next_hour, told, binders, returned, since>>

EndOfToken(s) == AddTask(fifteen_days, s, Day \div Hour, Div(Hour))
\* login() with the right password or with a token of token_to_usr_id: the
\* session, which has a dev from now on, gets a token for a day.  Nothing asks
\* whether it is one of sessions_to_del.
Login(s) == /\ s \in Connected /\ s \notin logged
            /\ logged' = logged \cup {s}
            /\ sessions' = sessions \cup {s}
            /\ token_to_usr_id' = token_to_usr_id \cup {s}
            /\ fifteen_days' = EndOfToken(s)
            /\ returned' = returned \cup ({s} \cap sessions_to_del)
            /\ since' = [since EXCEPT ![s].login = clock]
            /\ UNCHANGED <<clock, status, sessions_to_del, connected_devs, minute, next_hour, told, binders>>

\* reg_session_to_del
Logout(s) == /\ s \in Connected
             /\ sessions_to_del' = sessions_to_del \cup {s}
             /\ sessions' = sessions \ {s}
             /\ UNCHANGED <<clock, status, logged, token_to_usr_id, connected_devs, minute, fifteen_days,
                            next_hour, told, binders, returned, since>>

\* The devices that have o and a session; the others are forgotten.
Peers(o) == connected_devs[o] \cap sessions

\* mutant: the peers are not told
TellSilent(s, o, peers) == [told EXCEPT ![s] = @ \cup {<<o, p>> : p \in peers}]
\* s is told of all its peers; the connected ones are told of s, the one that
\* is asked for its updates as well as the others.
Tell(s, o, peers) == [t \in Sessions |->
                        IF t = s THEN told[t] \cup {<<o, p>> : p \in peers}
                        ELSE IF t \in peers \cap Connected THEN told[t] \cup {<<o, s>>} ELSE told[t]]

BindObj(s, o) ==
  /\ s \in Connected \cap logged
  /\ s \notin connected_devs[o]
  /\ told' = Tell(s, o, Peers(o))
  /\ connected_devs' = [connected_devs EXCEPT ![o] = Peers(o) \cup {s}]
  /\ binders' = [binders EXCEPT ![o] = @ \cup {s}]
  /\ UNCHANGED <<clock, status, logged, sessions, sessions_to_del, token_to_usr_id, minute, fifteen_days,
                 next_hour, returned, since>>

\* load_obj keeps the devices that are connected only, and asks one of them.
Kept(o) == Peers(o) \cap Connected
LoadObj(s, o, bind) ==
  /\ s \in Connected \cap logged
  /\ Kept(o) # {}
  /\ connected_devs' = [connected_devs EXCEPT ![o] = IF bind THEN Kept(o) \cup {s} ELSE Kept(o)]
  /\ UNCHANGED <<clock, status, logged, sessions, sessions_to_del, token_to_usr_id, minute, fifteen_days,
                 next_hour, told, binders, returned, since>>

\* The connection ends and is deleted by the event loop: rem_tcp_connection.
Close(s) == /\ s \in Connected
            /\ status' = [status EXCEPT ![s] = "closed"]
            /\ minute' = AddTask(minute, s, AliveDelay, Div(1))
            /\ since' = [since EXCEPT ![s].closed = clock]
            /\ UNCHANGED <<clock, logged, sessions, sessions_to_del, token_to_usr_id, connected_devs,
                           fifteen_days, next_hour, told, binders, returned>>

-----------------------------------------------------------------------------
\* The timers

\* ~TrackerServerSession of the sessions of S, with their connections, tokens and tasks.
DeleteSessions(S, mn) ==
  /\ status' = [s \in Sessions |-> IF s \in S THEN "deleted" ELSE status[s]]
  /\ token_to_usr_id' = token_to_usr_id \ S
  /\ minute' = DesactivateAll(mn, S)
  /\ fifteen_days' = DesactivateAll(fifteen_days, S)
  /\ told' = [s \in Sessions |-> IF s \in S THEN {} ELSE told[s]]
  /\ binders' = [o \in Inodes |-> binders[o] \ S]
  /\ since' = [s \in Sessions |-> IF s \in S THEN NotYet ELSE since[s]]

\* timer_1s: the alive_checks whose time has come register their sessions, which are deleted then.
Timer1s == LET expired == Executed(minute, Div(1))
           IN /\ DeleteSessions(sessions_to_del \cup expired, Exec(minute, Div(1)))
              /\ sessions' = sessions \ expired
              /\ sessions_to_del' = {}
              /\ UNCHANGED <<clock, logged, connected_devs, next_hour, returned>>

\* timer_1h
Timer1h == /\ clock >= next_hour
           /\ token_to_usr_id' = token_to_usr_id \ Executed(fifteen_days, Div(Hour))
           /\ fifteen_days' = Exec(fifteen_days, Div(Hour))
           /\ next_hour' = next_hour + Hour
           /\ UNCHANGED <<clock, status, logged, sessions, sessions_to_del, connected_devs, minute, told,
                          binders, returned, since>>

Second == /\ clock < MaxClock
          /\ clock - minute.time_last_exe < Late
          /\ clock < next_hour + Late
          /\ clock' = clock + 1
          /\ UNCHANGED <<status, logged, sessions, sessions_to_del, token_to_usr_id, connected_devs,
                         minute, fifteen_days, next_hour, told, binders, returned, since>>

\* A session that is deleted while it is registered leaves sessions with a
\* dangling hook (boost::intrusive asserts that it is not linked): what the
\* code does from there is not defined, and the model stops.
Defined == sessions \subseteq Living

ServerNext ==
  /\ Defined
  /\ \/ Second \/ Timer1s \/ Timer1h
     \/ \E s \in Sessions : \/ Connect(s) \/ Login(s) \/ Logout(s) \/ Close(s)
                            \/ \E o \in Inodes : BindObj(s, o) \/ \E bind \in BOOLEAN : LoadObj(s, o, bind)

ServerSpec == ServerInit /\ [][ServerNext]_server

-----------------------------------------------------------------------------
\* Properties

\* What the tracker keeps is of sessions that are not deleted: the registered
\* ones, the ones it will delete, their tokens, and the tasks of its two
\* lists, which would use a deleted session.  The exception is the session of a
\* client that logs in after it has logged out, on a connection that is still
\* there: login registers it again, and timer_1s deletes it without taking it
\* out of sessions.  No other session to delete is registered, nor a deleted one.
NothingOfTheDead == /\ sessions \subseteq (Living \cup returned) \cap logged
                    /\ sessions \cap sessions_to_del \subseteq returned
                    /\ sessions_to_del \subseteq Living
                    /\ token_to_usr_id \subseteq Living
                    /\ Planned(minute) \cup Planned(fifteen_days) \subseteq Living

\* A session without connection is deleted in time, and one that is connected
\* has no alive_check pending ("we expect the client to try to reconnect. If it
\* is not the case after a given time, we will assume that this is the end").
ForgottenInTime == \A s \in Living : IF s \in Connected THEN s \notin Planned(minute)
                                     ELSE clock - since[s].closed < AliveDelay + Late

\* Two clients that have bound an object and are there are told of each other,
\* whoever came and went before them (test_obj_list of tests/test_Tracker.cpp).
PeersKnow == \A o \in Inodes : \A s, t \in binders[o] \cap sessions \cap Connected :
                s # t => <<o, t>> \in told[s]

\* A token does not outlive its day ("make a token, invalid after 24 hours"): it
\* may end before, the list that ends the tokens has one slot.
TokensEnd == \A s \in token_to_usr_id : clock - since[s].login <= Day

\* A session is deleted because its client has logged out, or after it has
\* stayed AliveDelay without connection: never before.
DeletedForReason ==
  [][\A s \in Living : status'[s] = "deleted" =>
        s \in sessions_to_del \/ (status[s] = "closed" /\ clock - since[s].closed >= AliveDelay)]_server

\* The end of a session, whoever asks for it: it comes in time, and takes with
\* it everything the tracker knew of the session, but for a session that was
\* registered after its client had logged out, which stays in sessions.
SessionsEnd == NothingOfTheDead /\ ForgottenInTime /\ TokensEnd
=============================================================================
