---------------------------- MODULE TrackerUsers ----------------------------
(***************************************************************************)
(* The users of the tracker (RB/cpp/RiotBase/Tracker/Tracker.cpp,          *)
(* create_user and reg_waiting_usr): a user is created in the data base    *)
(* when the mail that was sent for it is answered.  The data base outlives *)
(* the tracker; the users that wait for a confirmation and the number of   *)
(* created users do not.                                                   *)
(*                                                                         *)
(* The passwords are named by the requests that bring them, numbered up to *)
(* MaxRequests, and so are the tokens of the mails, which differ.  A       *)
(* tracker takes a new device number when it starts: IdGenerator.tla says  *)
(* that it is new.  MaxStarts bounds the restarts.                         *)
(***************************************************************************)
EXTENDS Integers

CONSTANTS Users, MaxRequests, MaxStarts

VARIABLES users_db,       \* users_db[u]: the UsrId and the password of u
          waiting,        \* usr_waiting_confirmation: the user of each token
          nb_created_users,
          dev,            \* the device number of the tracker
          requests        \* how many requests were accepted
uservars == <<users_db, waiting, nb_created_users, dev, requests>>

Entered(f, k, v) == [x \in DOMAIN f \cup {k} |-> IF x = k THEN v ELSE f[x]]
Minus(f, k) == [x \in DOMAIN f \ {k} |-> f[x]]
Nobody == [x \in {} |-> 0]

UsersInit == /\ users_db = Nobody /\ waiting = Nobody
             /\ nb_created_users = 0 /\ dev = 1 /\ requests = 0

\* create_user, when nobody has that name yet.
CreateUser(u) == /\ requests < MaxRequests
                 /\ u \notin DOMAIN users_db
                 /\ requests' = requests + 1
                 /\ waiting' = Entered(waiting, requests', u)
                 /\ UNCHANGED <<users_db, nb_created_users, dev>>

Exists(u) == u \in DOMAIN users_db

\* reg_waiting_usr.  Somebody may have taken the name since the mail was sent.
RegWaitingUsr(tok) ==
  /\ tok \in DOMAIN waiting
  /\ waiting' = Minus(waiting, tok)
  /\ IF Exists(waiting[tok]) THEN UNCHANGED <<users_db, nb_created_users>>
     ELSE /\ nb_created_users' = nb_created_users + 1
          /\ users_db' = Entered(users_db, waiting[tok],
                              [id |-> [dev |-> dev, num |-> nb_created_users'], pass |-> tok])
  /\ UNCHANGED <<dev, requests>>

SameDev == dev                              \* mutant
NewDev == dev + 1
RestartTracker == /\ dev < MaxStarts
                  /\ dev' = NewDev
                  /\ nb_created_users' = 0 /\ waiting' = Nobody
                  /\ UNCHANGED <<users_db, requests>>

UsersNext == \/ RestartTracker
             \/ \E u \in Users : CreateUser(u)
             \/ \E tok \in 1..MaxRequests : RegWaitingUsr(tok)
UsersSpec == UsersInit /\ [][UsersNext]_uservars

-----------------------------------------------------------------------------
\* Properties

\* Two users never have one UsrId, although the count of the users starts from
\* 0 again at every start.
UserIdsDiffer == \A u, v \in DOMAIN users_db : users_db[u].id = users_db[v].id => u = v

\* A user that exists keeps its UsrId and its password, whoever asked for the
\* same name before and confirms later; and the UsrId is its own.
UsersKept ==
  [][(\A u \in DOMAIN users_db : u \in DOMAIN users_db' /\ users_db'[u] = users_db[u]) /\ UserIdsDiffer']_users_db
=============================================================================
