------------------------------- MODULE StartUp -------------------------------
(***************************************************************************)
(* The life of the XenovraDrive process: main.rs, startup.rs and config.rs *)
(* from the environment to the listening server, the manager task it       *)
(* spawns, and the requests that meet it (services/users.rs,               *)
(* services/auth.rs and the senders of services/files.rs).  Every failure  *)
(* on the way is a panic; docker-compose.yml restarts the process.  The    *)
(* database is there or not, as it likes.                                  *)
(***************************************************************************)
EXTENDS Integers, Sequences, FiniteSets

CONSTANTS
    Requests,       \* HTTP requests
    Emails,         \* of users
    SuperuserEmail, \* SUPERUSER_EMAIL
    Passwords,      \* of users
    Variables,      \* the environment variables that Config reads
    Environments,   \* what the operator may put into them
    OldSchemas,     \* the schemas in which earlier versions leave a database
    Capacity,       \* CHANNEL_CAPACITY, when it is not zero
    MaxKills,       \* bound: deaths of the process that are not its own panics
    None            \* no password, no transaction

(***************************************************************************)
(* A variable is unset, set to what its type does not parse ("garbled"),   *)
(* zero, or good.  TELEGRAM_RATE_LIMIT is the one with a default.          *)
(***************************************************************************)
Values == {"unset", "garbled", "zero", "good"}
Defaulted == {"TELEGRAM_RATE_LIMIT"}

ASSUME VariablesAssumption == {"WORKERS", "CHANNEL_CAPACITY"} \subseteq Variables
ASSUME EnvironmentsAssumption ==
    Environments \subseteq [var : [Variables -> Values], superuser_pass : Passwords]
ASSUME UsersAssumption == SuperuserEmail \in Emails /\ None \notin Passwords
ASSUME BoundsAssumption == Capacity \in Nat \ {0} /\ MaxKills \in Nat

(***************************************************************************)
(* The statements of init_db: the object each makes unless it is there,    *)
(* what it must find, and what comes with it.                              *)
(***************************************************************************)
Statement(object, needs, brings) ==
    [object |-> object, needs |-> needs, makes |-> {object} \cup brings]

\* Mutant of Statements: without the upgrade of file_chunks.
StatementsWithoutUpgrade ==
    << Statement("users", {}, {}),
       Statement("storages", {}, {}),
       Statement("storage_workers", {"users", "storages"}, {}),
       Statement("access_type", {}, {}),
       Statement("access", {"users", "storages", "access_type"}, {}),
       Statement("files", {"storages"}, {}),
       Statement("file_chunks", {"files"}, {"telegram_message_id"}),
       Statement("storage_workers_usages", {"storage_workers"}, {}),
       Statement("regexp_quote", {}, {}) >>

Statements ==
    << Statement("users", {}, {}),
       Statement("storages", {}, {}),
       Statement("storage_workers", {"users", "storages"}, {}),
       Statement("access_type", {}, {}),
       Statement("access", {"users", "storages", "access_type"}, {}),
       Statement("files", {"storages"}, {}),
       Statement("file_chunks", {"files"}, {"telegram_message_id"}),
       Statement("telegram_message_id", {"file_chunks"}, {}),
       Statement("storage_workers_usages", {"storage_workers"}, {}),
       Statement("regexp_quote", {}, {}) >>

\* What the queries of the program use.
Complete ==
    {"users", "storages", "storage_workers", "access_type", "access", "files", "file_chunks",
     "telegram_message_id", "storage_workers_usages", "regexp_quote"}

ASSUME OldSchemasAssumption == OldSchemas \subseteq SUBSET Complete

\* A transaction of init_db: its next statement, and the schema it sees.
Transactions == [next : 1 .. Len(Statements) + 1, schema : SUBSET Complete]

ASSUME NoneAssumption == None \notin Transactions

VARIABLES
    env,       \* the environment of the next process
    config,    \* what this process has read
    db,        \* TRUE while PostgreSQL answers
    database,  \* TRUE when the database DATABASE_NAME exists
    schema,    \* its objects, as committed
    users,     \* the password of every user, or None
    main,      \* where main is, or "dead"
    draft,     \* the transaction of init_db, or None
    manager,   \* the task of the storage manager
    queue,     \* the requests whose messages the channel holds
    pc,        \* where a handler is
    login,     \* email and password of the requests that created or opened an account
    kills      \* deaths so far

process == <<config, main, draft, manager, queue>>
tables == <<database, schema, users>>
outside == <<env, db, kills>>
requests == <<pc, login>>
vars == <<process, tables, outside, requests>>

Steps == {"channel", "create_db", "pool", "begin", "init", "superuser", "spawn", "serve"}

TypeOK ==
    /\ env \in Environments /\ config \in Environments
    /\ db \in BOOLEAN /\ database \in BOOLEAN
    /\ schema \subseteq Complete
    /\ users \in [Emails -> Passwords \cup {None}]
    /\ main \in Steps \cup {"dead"}
    /\ draft \in Transactions \cup {None}
    /\ draft # None => main = "init"
    /\ manager \in {"none", "connecting", "running", "lost"}
    /\ manager # "none" => main = "serve"
    /\ queue \subseteq {r \in Requests : pc[r] \in {"upload", "delete"}}
    /\ pc \in [Requests -> {"new", "sendUpload", "sendDelete", "upload", "delete",
                            "answered", "panicked", "created", "opened", "refused", "gone"}]
    /\ login \in [Requests -> [email : Emails, password : Passwords \cup {None}]]
    /\ kills \in 0 .. MaxKills

NoLogin == [email |-> SuperuserEmail, password |-> None]

\* A server without process, and a database as an earlier version left it, or none.
Init ==
    /\ env \in Environments /\ config = env
    /\ db \in BOOLEAN
    /\ schema \in OldSchemas
    /\ database \in BOOLEAN /\ (schema # {} => database)
    /\ users = [e \in Emails |-> None]
    /\ main = "dead" /\ draft = None /\ manager = "none" /\ queue = {}
    /\ pc = [r \in Requests |-> "new"] /\ login = [r \in Requests |-> NoLogin]
    /\ kills = 0

-----------------------------------------------------------------------------
(***************************************************************************)
(* main.                                                                   *)
(***************************************************************************)

\* Mutant of Die: the transaction stays open.
DieOpen ==
    /\ main' = "dead" /\ manager' = "none" /\ queue' = {}
    /\ pc' = [r \in Requests |->
                IF pc[r] \in {"sendUpload", "sendDelete", "upload", "delete"} THEN "gone" ELSE pc[r]]
    /\ UNCHANGED <<config, draft, login>>

\* The process ends: PostgreSQL rolls back its transaction, and its handlers are gone.
Die ==
    /\ main' = "dead" /\ draft' = None /\ manager' = "none" /\ queue' = {}
    /\ pc' = [r \in Requests |->
                IF pc[r] \in {"sendUpload", "sendDelete", "upload", "delete"} THEN "gone" ELSE pc[r]]
    /\ UNCHANGED <<config, login>>

\* Config::new: a default stands for a variable that is unset, not for a garbled one.
Parses(e) ==
    \A v \in Variables :
        e.var[v] \in {"zero", "good"} \/ (v \in Defaulted /\ e.var[v] = "unset")

\* A new process.  One that cannot read its configuration ends at once.
Start ==
    /\ main = "dead"
    /\ Parses(env)
    /\ config' = env
    /\ main' = "channel"
    /\ UNCHANGED <<draft, manager, queue, tables, outside, requests>>

\* mpsc::channel panics when its capacity is zero.
OpenChannel ==
    /\ main = "channel"
    /\ \/ /\ config.var["CHANNEL_CAPACITY"] # "zero"
          /\ main' = "create_db"
          /\ UNCHANGED <<config, draft, manager, queue, requests>>
       \/ config.var["CHANNEL_CAPACITY"] = "zero" /\ Die
    /\ UNCHANGED <<tables, outside>>

\* get_pool: it gives up after 30 seconds without a connection.
Connects == db /\ config.var["WORKERS"] # "zero"

\* create_db: a database that exists is no error.
CreateDb ==
    /\ main = "create_db"
    /\ \/ Connects /\ main' = "pool" /\ database' = TRUE
          /\ UNCHANGED <<config, draft, manager, queue, requests>>
       \/ ~Connects /\ Die /\ UNCHANGED database
    /\ UNCHANGED <<schema, users, outside>>

Connect ==
    /\ main = "pool"
    /\ \/ Connects /\ main' = "begin" /\ UNCHANGED <<config, draft, manager, queue, requests>>
       \/ ~Connects /\ Die
    /\ UNCHANGED <<tables, outside>>

\* init_db
Begin ==
    /\ main = "begin"
    /\ \/ /\ db
          /\ main' = "init" /\ draft' = [next |-> 1, schema |-> schema]
          /\ UNCHANGED <<config, manager, queue, requests>>
       \/ ~db /\ Die
    /\ UNCHANGED <<tables, outside>>

\* Mutant of Execute: the statements run on the pool and not in the transaction.
ExecuteAtOnce ==
    LET s == Statements[draft.next]
        made == IF s.object \in draft.schema THEN draft.schema ELSE draft.schema \cup s.makes
    IN  /\ main = "init" /\ draft # None /\ draft.next <= Len(Statements)
        /\ draft' = [next |-> draft.next + 1, schema |-> made]
        /\ schema' = made
        /\ UNCHANGED <<config, main, manager, queue, database, users, outside, requests>>

\* One statement.  It changes nothing when its object is there, whatever that looks like.
Execute ==
    LET s == Statements[draft.next]
        made == IF s.object \in draft.schema THEN draft.schema ELSE draft.schema \cup s.makes
    IN  /\ main = "init" /\ draft # None /\ draft.next <= Len(Statements)
        /\ \/ /\ s.object \in draft.schema \/ s.needs \subseteq draft.schema
              /\ draft' = [next |-> draft.next + 1, schema |-> made]
              /\ UNCHANGED <<config, main, manager, queue, requests>>
           \/ s.object \notin draft.schema /\ ~(s.needs \subseteq draft.schema) /\ Die
        /\ UNCHANGED <<tables, outside>>

Commit ==
    /\ main = "init" /\ draft # None /\ draft.next > Len(Statements)
    /\ schema' = draft.schema /\ draft' = None
    /\ main' = "superuser"
    /\ UNCHANGED <<config, manager, queue, database, users, outside, requests>>

\* The connection was lost: the next statement fails.
LoseTransaction ==
    /\ main = "init" /\ draft = None
    /\ Die
    /\ UNCHANGED <<tables, outside>>

-----------------------------------------------------------------------------
(***************************************************************************)
(* Users.                                                                  *)
(***************************************************************************)

\* Mutant of CreateUser: INSERT ... ON CONFLICT DO UPDATE.
CreateUserOrUpdate(e, p) == users' = [users EXCEPT ![e] = p]

\* UsersRepository::create: an email that is there is AlreadyExists.
CreateUser(e, p) == users[e] = None /\ users' = [users EXCEPT ![e] = p]

\* Mutant of CreateSuperuser: the second start-up is refused.
CreateSuperuserOnce ==
    /\ main = "superuser"
    /\ \/ /\ db /\ CreateUser(SuperuserEmail, config.superuser_pass)
          /\ main' = "spawn"
          /\ UNCHANGED <<config, draft, manager, queue, requests>>
       \/ (~db \/ users[SuperuserEmail] # None) /\ Die /\ UNCHANGED users
    /\ UNCHANGED <<database, schema, outside>>

\* create_superuser: AlreadyExists is passed over, any other error ends the process.
CreateSuperuser ==
    /\ main = "superuser"
    /\ \/ /\ db
          /\ CreateUser(SuperuserEmail, config.superuser_pass)
                \/ (users[SuperuserEmail] # None /\ UNCHANGED users)
          /\ main' = "spawn"
          /\ UNCHANGED <<config, draft, manager, queue, requests>>
       \/ ~db /\ Die /\ UNCHANGED users
    /\ UNCHANGED <<database, schema, outside>>

Serving(r) == main = "serve" /\ pc[r] = "new"

Keep(r, e, p) == login' = [login EXCEPT ![r] = [email |-> e, password |-> p]]
Goto(r, where) == pc' = [pc EXCEPT ![r] = where]

\* register.  The client may be gone when the row is there.
Register(r, e, p) ==
    /\ Serving(r)
    /\ \/ db /\ CreateUser(e, p) /\ ((Goto(r, "created") /\ Keep(r, e, p))
                                     \/ (Goto(r, "gone") /\ UNCHANGED login))
       \/ (~db \/ users[e] # None) /\ Goto(r, "refused") /\ UNCHANGED <<users, login>>
    /\ UNCHANGED <<process, database, schema, outside>>

\* AuthService::login: every error is NotAuthenticated.
Login(r, e, p) ==
    /\ Serving(r)
    /\ \/ db /\ users[e] = p /\ Goto(r, "opened") /\ Keep(r, e, p)
       \/ (~db \/ users[e] # p) /\ Goto(r, "refused") /\ UNCHANGED login
    /\ UNCHANGED <<process, tables, outside>>

-----------------------------------------------------------------------------
(***************************************************************************)
(* The manager's task and the handlers that send to it.  What a message    *)
(* asks for is FilePipeline's subject; a download is handled as an upload. *)
(***************************************************************************)

\* The task is spawned and the server listens: neither waits for the other.
Spawn ==
    /\ main = "spawn"
    /\ main' = "serve" /\ manager' = "connecting"
    /\ UNCHANGED <<config, draft, queue, tables, outside, requests>>

\* Mutant of ManagerConnects: the receiver outlives the task.
ManagerConnectsOrWaits ==
    /\ manager = "connecting"
    /\ manager' = IF Connects THEN "running" ELSE "lost"
    /\ UNCHANGED <<config, main, draft, queue, tables, outside, requests>>

\* It has a pool of its own.  When that fails, the panic ends the task and drops the
\* receiver with all it holds; the process lives on.
ManagerConnects ==
    /\ manager = "connecting"
    /\ \/ Connects /\ manager' = "running" /\ UNCHANGED queue
       \/ ~Connects /\ manager' = "lost" /\ queue' = {}
    /\ UNCHANGED <<config, main, draft, tables, outside, requests>>

\* Mutant of ManagerAnswers: a message is dropped without an answer.
ManagerDrops ==
    /\ manager = "running"
    /\ \E r \in queue : queue' = queue \ {r}
    /\ UNCHANGED <<config, main, draft, manager, tables, outside, requests>>

ManagerAnswers ==
    /\ manager = "running"
    /\ \E r \in queue : queue' = queue \ {r} /\ Goto(r, "answered")
    /\ UNCHANGED <<config, main, draft, manager, tables, outside, login>>

\* An upload, download or delete that has come to its tx.send.
Arrive(r) ==
    /\ Serving(r)
    /\ Goto(r, "sendUpload") \/ Goto(r, "sendDelete")
    /\ UNCHANGED <<process, tables, outside, login>>

\* tx.send waits for room.  Without a receiver it returns its error, which is ignored,
\* and drops the message and the sender for the answer with it.
Send(r) ==
    /\ pc[r] \in {"sendUpload", "sendDelete"}
    /\ \/ manager # "lost" /\ Cardinality(queue) < Capacity /\ queue' = queue \cup {r}
       \/ manager = "lost" /\ UNCHANGED queue
    /\ Goto(r, IF pc[r] = "sendUpload" THEN "upload" ELSE "delete")
    /\ UNCHANGED <<config, main, draft, manager, tables, outside, login>>

\* The sender for the answer is dropped: resp_rx.await.unwrap() panics, and an upload
\* leaves its row; a delete logs it and goes on.
Unanswered(r) ==
    /\ pc[r] \in {"upload", "delete"} /\ r \notin queue
    /\ Goto(r, IF pc[r] = "upload" THEN "panicked" ELSE "answered")
    /\ UNCHANGED <<process, tables, outside, login>>

-----------------------------------------------------------------------------
\* PostgreSQL goes, and with it the open transaction, and comes back.
Outage ==
    /\ db' = ~db
    /\ draft' = None
    /\ UNCHANGED <<config, main, manager, queue, tables, env, kills, requests>>

\* The operator edits the environment.
Edit ==
    /\ env' \in Environments
    /\ UNCHANGED <<process, tables, db, kills, requests>>

Kill ==
    /\ main # "dead" /\ kills < MaxKills
    /\ Die
    /\ kills' = kills + 1
    /\ UNCHANGED <<tables, env, db>>

Main ==
    \/ Start \/ OpenChannel \/ CreateDb \/ Connect
    \/ Begin \/ Execute \/ Commit \/ LoseTransaction
    \/ CreateSuperuser \/ Spawn

Manager == ManagerConnects \/ ManagerAnswers
Handle(r) == Send(r) \/ Unanswered(r)

Next ==
    \/ Main \/ Manager \/ Outage \/ Edit \/ Kill
    \/ \E r \in Requests :
          \/ Arrive(r) \/ Handle(r)
          \/ \E e \in Emails, p \in Passwords : Register(r, e, p) \/ Login(r, e, p)

\* The process and its tasks run, and Docker restarts what has ended (restart:
\* unless-stopped); nothing is assumed of the database, the operator and the clients.
Fairness == WF_vars(Main) /\ WF_vars(Manager) /\ \A r \in Requests : WF_vars(Handle(r))

Spec == Init /\ [][Next]_vars
FairSpec == Spec /\ Fairness

-----------------------------------------------------------------------------
(***************************************************************************)
(* Properties.                                                             *)
(***************************************************************************)

\* The server listens only on a database with all that its queries use, in whatever
\* version and between whatever statements the last process ended, and with a
\* superuser (main: init_db, create_superuser).
ServesOnlyComplete ==
    main = "serve" => database /\ schema = Complete /\ users[SuperuserEmail] # None

\* Nobody ever sees an upgrade of the schema halfway (init_db: one transaction).
SchemaIsWhole == schema \in OldSchemas \cup {Complete}

\* An account has one password for ever: no other opens it or creates it again, over
\* all restarts with another SUPERUSER_PASS and all registrations of its email (create,
\* create_superuser).
OnePasswordPerAccount ==
    \A q, r \in Requests :
        pc[q] \in {"created", "opened"} /\ pc[r] \in {"created", "opened"}
            /\ login[q].email = login[r].email => login[q].password = login[r].password

\* A handler panics over a missing answer only in a process that lost its manager when
\* it started (storage_manager.rs, services/files.rs: resp_rx.await.unwrap()).
PanicsWithoutManager ==
    [][\A r \in Requests : pc[r] # "panicked" /\ pc'[r] = "panicked" => manager = "lost"]_vars

\* When the database stays and the environment stays readable, the server ends up
\* listening, whatever is there from earlier starts (main under Docker's restarts).
Usable(e) == Parses(e) /\ e.var["WORKERS"] # "zero" /\ e.var["CHANNEL_CAPACITY"] # "zero"
EventuallyServes == <>[](db /\ Usable(env)) => <>[](main = "serve")

\* A request to a manager ends, also when there is none (tx.send, resp_rx).
TransfersEnd ==
    \A r \in Requests :
        pc[r] \in {"sendUpload", "sendDelete", "upload", "delete"}
            ~> pc[r] \in {"answered", "panicked", "gone"}
=============================================================================
