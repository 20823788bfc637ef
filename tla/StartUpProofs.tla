--------------------------- MODULE StartUpProofs ---------------------------
(***************************************************************************)
(* Proofs about StartUp, for any requests, users, environments, versions   *)
(* of the schema, outages and deaths of the process.                       *)
(***************************************************************************)
EXTENDS StartUp, TLAPS

\* What init_db has run so far has left its object in the schema it sees.
Ran == draft # None =>
    \A i \in 1 .. Len(Statements) : i < draft.next => Statements[i].object \in draft.schema

\* What main has behind it.
Passed ==
    /\ main \in {"pool", "begin", "init", "superuser", "spawn", "serve"} => database
    /\ main \in {"superuser", "spawn", "serve"} => schema = Complete
    /\ main \in {"spawn", "serve"} => users[SuperuserEmail] # None
    /\ main = "serve" => manager # "none"

\* A request that created or opened an account names its password.
Kept == \A r \in Requests : pc[r] \in {"created", "opened"} =>
    users[login[r].email] = login[r].password /\ login[r].password # None

\* A handler waits in a serving process only, and for a message that is there or for
\* a manager that is not.
Waits == \A r \in Requests :
    /\ pc[r] \in {"sendUpload", "sendDelete", "upload", "delete"} => main = "serve"
    /\ pc[r] \in {"upload", "delete"} /\ r \notin queue => manager = "lost"

Inv == TypeOK /\ Ran /\ Passed /\ SchemaIsWhole /\ Kept /\ Waits

-----------------------------------------------------------------------------
LEMMA StatementsLength == Len(Statements) = 10
BY DEF Statements, Statement

\* A statement makes what the program knows, and its object first of all.
LEMMA StatementsMake ==
    ASSUME NEW i \in 1 .. Len(Statements)
    PROVE  /\ Statements[i].object \in Statements[i].makes
           /\ Statements[i].makes \subseteq Complete
<1>1. i \in 1 .. 10
  BY StatementsLength
<1>2. CASE i = 1  BY <1>2 DEF Statements, Statement, Complete
<1>3. CASE i = 2  BY <1>3 DEF Statements, Statement, Complete
<1>4. CASE i = 3  BY <1>4 DEF Statements, Statement, Complete
<1>5. CASE i = 4  BY <1>5 DEF Statements, Statement, Complete
<1>6. CASE i = 5  BY <1>6 DEF Statements, Statement, Complete
<1>7. CASE i = 6  BY <1>7 DEF Statements, Statement, Complete
<1>8. CASE i = 7  BY <1>8 DEF Statements, Statement, Complete
<1>9. CASE i = 8  BY <1>9 DEF Statements, Statement, Complete
<1>10. CASE i = 9  BY <1>10 DEF Statements, Statement, Complete
<1>11. CASE i = 10  BY <1>11 DEF Statements, Statement, Complete
<1> QED
  BY <1>1, <1>2, <1>3, <1>4, <1>5, <1>6, <1>7, <1>8, <1>9, <1>10, <1>11

\* All that the queries use is the object of a statement.
LEMMA StatementsSuffice ==
    ASSUME NEW S, \A i \in 1 .. Len(Statements) : Statements[i].object \in S
    PROVE  Complete \subseteq S
<1>1. \A i \in 1 .. 10 : Statements[i].object \in S
  BY StatementsLength
<1>2. Statements[1].object = "users" /\ Statements[2].object = "storages"
  BY DEF Statements, Statement
<1>3. Statements[3].object = "storage_workers" /\ Statements[4].object = "access_type"
  BY DEF Statements, Statement
<1>4. Statements[5].object = "access" /\ Statements[6].object = "files"
  BY DEF Statements, Statement
<1>5. Statements[7].object = "file_chunks" /\ Statements[8].object = "telegram_message_id"
  BY DEF Statements, Statement
<1>6. /\ Statements[9].object = "storage_workers_usages"
      /\ Statements[10].object = "regexp_quote"
  BY DEF Statements, Statement
<1> QED
  BY <1>1, <1>2, <1>3, <1>4, <1>5, <1>6 DEF Complete

-----------------------------------------------------------------------------
LEMMA InitInv == Init => Inv
<1> SUFFICES ASSUME Init PROVE Inv
  OBVIOUS
<1>1. TypeOK
  <2>1. schema \subseteq Complete /\ users \in [Emails -> Passwords \cup {None}]
    BY OldSchemasAssumption DEF Init
  <2>2. login \in [Requests -> [email : Emails, password : Passwords \cup {None}]]
    BY UsersAssumption DEF Init, NoLogin
  <2>3. kills \in 0 .. MaxKills
    BY BoundsAssumption DEF Init
  <2> QED
    BY <2>1, <2>2, <2>3 DEF Init, TypeOK
<1>2. Ran /\ Passed /\ SchemaIsWhole /\ Kept /\ Waits
  BY DEF Init, Ran, Passed, SchemaIsWhole, Kept, Waits
<1> QED
  BY <1>1, <1>2 DEF Inv

\* The end of the process.
LEMMA DieInv ==
    ASSUME Inv, Die, UNCHANGED <<env, db, tables>>, kills' \in 0 .. MaxKills
    PROVE  Inv'
<1> USE DEF tables
<1>1. TypeOK'
  BY DEF Inv, TypeOK, Die
<1>2. Ran' /\ Passed' /\ SchemaIsWhole'
  BY DEF Inv, Ran, Passed, SchemaIsWhole, Die
<1>3. Kept'
  BY DEF Inv, Kept, TypeOK, Die
<1>4. Waits'
  BY DEF Inv, Waits, TypeOK, Die
<1> QED
  BY <1>1, <1>2, <1>3, <1>4 DEF Inv

LEMMA StartInv == Inv /\ Start => Inv'
<1> SUFFICES ASSUME Inv, Start PROVE Inv'
  OBVIOUS
<1> USE DEF Start, tables, outside, requests
<1>1. TypeOK'
  BY DEF Inv, TypeOK, Steps
<1>2. Ran' /\ Passed' /\ SchemaIsWhole' /\ Kept' /\ Waits'
  BY DEF Inv, TypeOK, Ran, Passed, SchemaIsWhole, Kept, Waits
<1> QED
  BY <1>1, <1>2 DEF Inv

LEMMA OpenChannelInv == Inv /\ OpenChannel => Inv'
<1> SUFFICES ASSUME Inv, OpenChannel PROVE Inv'
  OBVIOUS
<1>1. CASE Die
  BY <1>1, DieInv DEF OpenChannel, outside, Inv, TypeOK
<1>2. CASE main' = "create_db" /\ UNCHANGED <<config, draft, manager, queue, requests>>
  <2> USE <1>2 DEF OpenChannel, tables, outside, requests
  <2>1. TypeOK'
    BY DEF Inv, TypeOK, Steps
  <2>2. Ran' /\ Passed' /\ SchemaIsWhole' /\ Kept' /\ Waits'
    BY DEF Inv, TypeOK, Ran, Passed, SchemaIsWhole, Kept, Waits
  <2> QED
    BY <2>1, <2>2 DEF Inv
<1> QED
  BY <1>1, <1>2 DEF OpenChannel

LEMMA CreateDbInv == Inv /\ CreateDb => Inv'
<1> SUFFICES ASSUME Inv, CreateDb PROVE Inv'
  OBVIOUS
<1>1. CASE Die /\ UNCHANGED tables
  BY <1>1, DieInv DEF CreateDb, outside, Inv, TypeOK
<1>2. CASE /\ main' = "pool" /\ database' = TRUE
         /\ UNCHANGED <<config, draft, manager, queue, requests>>
  <2> USE <1>2 DEF CreateDb, tables, outside, requests
  <2>1. TypeOK'
    BY DEF Inv, TypeOK, Steps
  <2>2. Ran' /\ Passed' /\ SchemaIsWhole' /\ Kept' /\ Waits'
    BY DEF Inv, TypeOK, Ran, Passed, SchemaIsWhole, Kept, Waits
  <2> QED
    BY <2>1, <2>2 DEF Inv
<1> QED
  BY <1>1, <1>2 DEF CreateDb, tables

LEMMA ConnectInv == Inv /\ Connect => Inv'
<1> SUFFICES ASSUME Inv, Connect PROVE Inv'
  OBVIOUS
<1>1. CASE Die /\ UNCHANGED tables
  BY <1>1, DieInv DEF Connect, outside, Inv, TypeOK
<1>2. CASE main' = "begin" /\ UNCHANGED <<config, draft, manager, queue, requests>>
  <2> USE <1>2 DEF Connect, tables, outside, requests
  <2>1. TypeOK'
    BY DEF Inv, TypeOK, Steps
  <2>2. Ran' /\ Passed' /\ SchemaIsWhole' /\ Kept' /\ Waits'
    BY DEF Inv, TypeOK, Ran, Passed, SchemaIsWhole, Kept, Waits
  <2> QED
    BY <2>1, <2>2 DEF Inv
<1> QED
  BY <1>1, <1>2 DEF Connect, tables

LEMMA BeginInv == Inv /\ Begin => Inv'
<1> SUFFICES ASSUME Inv, Begin PROVE Inv'
  OBVIOUS
<1>1. CASE Die
  BY <1>1, DieInv DEF Begin, outside, Inv, TypeOK
<1>2. CASE /\ main' = "init" /\ draft' = [next |-> 1, schema |-> schema]
           /\ UNCHANGED <<config, manager, queue, requests>>
  <2> USE <1>2 DEF Begin, tables, outside, requests
  <2>1. draft' \in Transactions
    BY StatementsLength DEF Inv, TypeOK, Transactions
  <2>2. TypeOK'
    BY <2>1 DEF Inv, TypeOK, Steps
  <2>3. Ran' /\ Passed' /\ SchemaIsWhole' /\ Kept' /\ Waits'
    BY StatementsLength DEF Inv, TypeOK, Ran, Passed, SchemaIsWhole, Kept, Waits
  <2> QED
    BY <2>2, <2>3 DEF Inv
<1> QED
  BY <1>1, <1>2 DEF Begin

\* A statement leaves what earlier ones made, and adds its object.
LEMMA ExecuteInv == Inv /\ Execute => Inv'
<1> SUFFICES ASSUME Inv, Execute PROVE Inv'
  OBVIOUS
<1> DEFINE s == Statements[draft.next]
           made == IF s.object \in draft.schema THEN draft.schema ELSE draft.schema \cup s.makes
<1>1. CASE Die
  BY <1>1, DieInv DEF Execute, outside, Inv, TypeOK
<1>2. CASE /\ draft' = [next |-> draft.next + 1, schema |-> made]
           /\ UNCHANGED <<config, main, manager, queue, requests>>
  <2> USE DEF tables, outside, requests
  <2>1. /\ main = "init" /\ draft # None /\ draft.next \in 1 .. 10
        /\ draft.schema \subseteq Complete
    BY StatementsLength DEF Execute, Inv, TypeOK, Transactions
  <2>2. s.object \in s.makes /\ s.makes \subseteq Complete
    BY <2>1, StatementsMake, StatementsLength
  <2>3. made \subseteq Complete /\ draft.schema \subseteq made /\ s.object \in made
    BY <2>1, <2>2
  <2>4. draft' \in Transactions
    BY <1>2, <2>1, <2>3, StatementsLength DEF Transactions
  <2>5. UNCHANGED <<tables, outside>>
    BY DEF Execute
  <2>6. TypeOK'
    BY <1>2, <2>1, <2>4, <2>5 DEF Inv, TypeOK, Steps
  <2>7. Ran'
    <3> SUFFICES ASSUME NEW i \in 1 .. Len(Statements), i < draft.next + 1
                 PROVE  Statements[i].object \in made
      BY <1>2 DEF Ran
    <3>1. CASE i < draft.next
      BY <3>1, <2>1, <2>3 DEF Inv, Ran
    <3>2. CASE i = draft.next
      BY <3>2, <2>3
    <3> QED
      BY <3>1, <3>2, <2>1, StatementsLength
  <2>8. Passed' /\ SchemaIsWhole' /\ Kept' /\ Waits'
    BY <1>2, <2>1, <2>5 DEF Inv, Passed, SchemaIsWhole, Kept, Waits
  <2> QED
    BY <2>6, <2>7, <2>8 DEF Inv
<1> QED
  BY <1>1, <1>2 DEF Execute

\* What is committed is complete.
LEMMA CommitInv == Inv /\ Commit => Inv'
<1> SUFFICES ASSUME Inv, Commit PROVE Inv'
  OBVIOUS
<1> USE DEF Commit, outside, requests
<1>1. draft.schema \subseteq Complete /\ draft.next > 10
  BY StatementsLength DEF Inv, TypeOK, Transactions
<1>2. \A i \in 1 .. Len(Statements) : Statements[i].object \in draft.schema
  BY <1>1, StatementsLength DEF Inv, TypeOK, Transactions, Ran
<1>3. schema' = Complete
  BY <1>1, <1>2, StatementsSuffice
<1>4. TypeOK'
  BY <1>3 DEF Inv, TypeOK, Steps
<1>5. Ran' /\ Passed' /\ SchemaIsWhole' /\ Kept' /\ Waits'
  BY <1>3 DEF Inv, TypeOK, Ran, Passed, SchemaIsWhole, Kept, Waits
<1> QED
  BY <1>4, <1>5 DEF Inv

LEMMA LoseTransactionInv == Inv /\ LoseTransaction => Inv'
BY DieInv DEF LoseTransaction, outside, Inv, TypeOK

\* An account that is there keeps its password.
LEMMA CreateUserKeeps ==
    ASSUME Inv, NEW e \in Emails, NEW p \in Passwords, CreateUser(e, p)
    PROVE  /\ users' \in [Emails -> Passwords \cup {None}]
           /\ users'[e] = p /\ p # None
           /\ \A x \in Emails : users[x] # None => users'[x] = users[x]
BY UsersAssumption DEF Inv, TypeOK, CreateUser

LEMMA CreateSuperuserInv == Inv /\ CreateSuperuser => Inv'
<1> SUFFICES ASSUME Inv, CreateSuperuser PROVE Inv'
  OBVIOUS
<1> DEFINE p == config.superuser_pass
<1>1. CASE Die /\ UNCHANGED users
  BY <1>1, DieInv DEF CreateSuperuser, outside, tables, Inv, TypeOK
<1>2. CASE /\ main' = "spawn" /\ UNCHANGED <<config, draft, manager, queue, requests>>
           /\ CreateUser(SuperuserEmail, p) \/ (users[SuperuserEmail] # None /\ UNCHANGED users)
  <2> USE DEF outside, requests
  <2>1. p \in Passwords
    BY EnvironmentsAssumption DEF Inv, TypeOK
  <2>2. /\ users' \in [Emails -> Passwords \cup {None}] /\ users'[SuperuserEmail] # None
        /\ \A x \in Emails : users[x] # None => users'[x] = users[x]
    BY <1>2, <2>1, UsersAssumption, CreateUserKeeps DEF Inv, TypeOK
  <2>3. main = "superuser" /\ UNCHANGED <<database, schema, outside>>
    BY DEF CreateSuperuser
  <2>4. TypeOK'
    BY <1>2, <2>2, <2>3 DEF Inv, TypeOK, Steps
  <2>5. Ran' /\ Passed' /\ SchemaIsWhole' /\ Waits'
    BY <1>2, <2>2, <2>3 DEF Inv, TypeOK, Ran, Passed, SchemaIsWhole, Waits
  <2>6. Kept'
    BY <1>2, <2>2 DEF Inv, TypeOK, Kept
  <2> QED
    BY <2>4, <2>5, <2>6 DEF Inv
<1> QED
  BY <1>1, <1>2 DEF CreateSuperuser

LEMMA RegisterInv ==
    ASSUME Inv, NEW r \in Requests, NEW e \in Emails, NEW p \in Passwords, Register(r, e, p)
    PROVE  Inv'
<1> USE DEF Register, Serving, Goto, process, outside
<1>1. CASE CreateUser(e, p) /\ Goto(r, "created") /\ Keep(r, e, p)
  <2>1. /\ users' \in [Emails -> Passwords \cup {None}] /\ users'[e] = p /\ p # None
        /\ \A x \in Emails : users[x] # None => users'[x] = users[x]
    BY <1>1, CreateUserKeeps
  <2>2. TypeOK'
    BY <1>1, <2>1 DEF Inv, TypeOK, Keep
  <2>3. Ran' /\ Passed' /\ SchemaIsWhole' /\ Waits'
    BY <1>1, <2>1, UsersAssumption DEF Inv, TypeOK, Ran, Passed, SchemaIsWhole, Waits
  <2>4. Kept'
    BY <1>1, <2>1 DEF Inv, TypeOK, Kept, Keep
  <2> QED
    BY <2>2, <2>3, <2>4 DEF Inv
<1>2. CASE CreateUser(e, p) /\ Goto(r, "gone") /\ UNCHANGED login
  <2>1. /\ users' \in [Emails -> Passwords \cup {None}]
        /\ \A x \in Emails : users[x] # None => users'[x] = users[x]
    BY <1>2, CreateUserKeeps
  <2>2. TypeOK'
    BY <1>2, <2>1 DEF Inv, TypeOK
  <2>3. Ran' /\ Passed' /\ SchemaIsWhole' /\ Waits'
    BY <1>2, <2>1, UsersAssumption DEF Inv, TypeOK, Ran, Passed, SchemaIsWhole, Waits
  <2>4. Kept'
    BY <1>2, <2>1 DEF Inv, TypeOK, Kept
  <2> QED
    BY <2>2, <2>3, <2>4 DEF Inv
<1>3. CASE Goto(r, "refused") /\ UNCHANGED <<users, login>>
  <2>1. TypeOK'
    BY <1>3 DEF Inv, TypeOK
  <2>2. Ran' /\ Passed' /\ SchemaIsWhole' /\ Kept' /\ Waits'
    BY <1>3 DEF Inv, TypeOK, Ran, Passed, SchemaIsWhole, Kept, Waits
  <2> QED
    BY <2>1, <2>2 DEF Inv
<1> QED
  BY <1>1, <1>2, <1>3

LEMMA LoginInv ==
    ASSUME Inv, NEW r \in Requests, NEW e \in Emails, NEW p \in Passwords, Login(r, e, p)
    PROVE  Inv'
<1> USE DEF Login, Serving, Goto, process, tables, outside
<1>1. p # None
  BY UsersAssumption
<1>2. TypeOK'
  BY DEF Inv, TypeOK, Keep
<1>3. Ran' /\ Passed' /\ SchemaIsWhole' /\ Waits'
  BY DEF Inv, TypeOK, Ran, Passed, SchemaIsWhole, Waits
<1>4. Kept'
  BY <1>1 DEF Inv, TypeOK, Kept, Keep
<1> QED
  BY <1>2, <1>3, <1>4 DEF Inv

LEMMA SpawnInv == Inv /\ Spawn => Inv'
<1> SUFFICES ASSUME Inv, Spawn PROVE Inv'
  OBVIOUS
<1> USE DEF Spawn, tables, outside, requests
<1>1. TypeOK'
  BY DEF Inv, TypeOK, Steps
<1>2. Ran' /\ Passed' /\ SchemaIsWhole' /\ Kept' /\ Waits'
  BY DEF Inv, TypeOK, Ran, Passed, SchemaIsWhole, Kept, Waits
<1> QED
  BY <1>1, <1>2 DEF Inv

LEMMA ManagerInv == Inv /\ Manager => Inv'
<1> SUFFICES ASSUME Inv, Manager PROVE Inv'
  OBVIOUS
<1> USE DEF tables, outside, requests, Goto
<1>1. CASE ManagerConnects
  <2>1. TypeOK'
    BY <1>1 DEF Inv, TypeOK, ManagerConnects
  <2>2. Ran' /\ Passed' /\ SchemaIsWhole' /\ Kept' /\ Waits'
    BY <1>1 DEF Inv, TypeOK, Ran, Passed, SchemaIsWhole, Kept, Waits, ManagerConnects
  <2> QED
    BY <2>1, <2>2 DEF Inv
<1>2. CASE ManagerAnswers
  <2>1. TypeOK'
    BY <1>2 DEF Inv, TypeOK, ManagerAnswers
  <2>2. Ran' /\ Passed' /\ SchemaIsWhole' /\ Kept' /\ Waits'
    BY <1>2 DEF Inv, TypeOK, Ran, Passed, SchemaIsWhole, Kept, Waits, ManagerAnswers
  <2> QED
    BY <2>1, <2>2 DEF Inv
<1> QED
  BY <1>1, <1>2 DEF Manager

LEMMA HandlerInv ==
    ASSUME Inv, NEW r \in Requests, Arrive(r) \/ Handle(r)
    PROVE  Inv'
<1> USE DEF Goto, process, tables, outside
<1>1. CASE Arrive(r)
  <2>1. TypeOK'
    BY <1>1 DEF Inv, TypeOK, Arrive, Serving
  <2>2. Ran' /\ Passed' /\ SchemaIsWhole' /\ Kept' /\ Waits'
    BY <1>1 DEF Inv, TypeOK, Ran, Passed, SchemaIsWhole, Kept, Waits, Arrive, Serving
  <2> QED
    BY <2>1, <2>2 DEF Inv
<1>2. CASE Send(r)
  <2>1. TypeOK'
    BY <1>2 DEF Inv, TypeOK, Waits, Passed, Send
  <2>2. Ran' /\ Passed' /\ SchemaIsWhole' /\ Kept' /\ Waits'
    BY <1>2 DEF Inv, TypeOK, Ran, Passed, SchemaIsWhole, Kept, Waits, Send
  <2> QED
    BY <2>1, <2>2 DEF Inv
<1>3. CASE Unanswered(r)
  <2>1. TypeOK'
    BY <1>3 DEF Inv, TypeOK, Unanswered
  <2>2. Ran' /\ Passed' /\ SchemaIsWhole' /\ Kept' /\ Waits'
    BY <1>3 DEF Inv, TypeOK, Ran, Passed, SchemaIsWhole, Kept, Waits, Unanswered
  <2> QED
    BY <2>1, <2>2 DEF Inv
<1> QED
  BY <1>1, <1>2, <1>3 DEF Handle

\* What happens outside the process.
LEMMA OutsideInv == Inv /\ (Outage \/ Edit \/ Kill) => Inv'
<1> SUFFICES ASSUME Inv, Outage \/ Edit \/ Kill PROVE Inv'
  OBVIOUS
<1>1. CASE Outage \/ Edit
  <2> USE <1>1 DEF Outage, Edit, process, tables, requests
  <2>1. TypeOK'
    BY DEF Inv, TypeOK
  <2>2. Ran' /\ Passed' /\ SchemaIsWhole' /\ Kept' /\ Waits'
    BY DEF Inv, TypeOK, Ran, Passed, SchemaIsWhole, Kept, Waits
  <2> QED
    BY <2>1, <2>2 DEF Inv
<1>2. CASE Kill
  <2>1. kills' \in 0 .. MaxKills
    BY <1>2, BoundsAssumption DEF Kill, Inv, TypeOK
  <2> QED
    BY <1>2, <2>1, DieInv DEF Kill
<1> QED
  BY <1>1, <1>2

LEMMA StepInv == Inv /\ [Next]_vars => Inv'
<1> SUFFICES ASSUME Inv, [Next]_vars PROVE Inv'
  OBVIOUS
<1>1. CASE Main
  BY <1>1, StartInv, OpenChannelInv, CreateDbInv, ConnectInv, BeginInv, ExecuteInv, CommitInv,
     LoseTransactionInv, CreateSuperuserInv, SpawnInv DEF Main
<1>2. CASE Manager \/ Outage \/ Edit \/ Kill
  BY <1>2, ManagerInv, OutsideInv
<1>3. ASSUME NEW r \in Requests,
             \/ Arrive(r) \/ Handle(r)
             \/ \E e \in Emails, p \in Passwords : Register(r, e, p) \/ Login(r, e, p)
      PROVE  Inv'
  BY <1>3, HandlerInv, RegisterInv, LoginInv
<1>4. CASE UNCHANGED vars
  <2> USE <1>4 DEF vars, process, tables, outside, requests
  <2>1. TypeOK'
    BY DEF Inv, TypeOK
  <2>2. Ran' /\ Passed' /\ SchemaIsWhole' /\ Kept' /\ Waits'
    BY DEF Inv, Ran, Passed, SchemaIsWhole, Kept, Waits
  <2> QED
    BY <2>1, <2>2 DEF Inv
<1> QED
  BY <1>1, <1>2, <1>3, <1>4 DEF Next

LEMMA Invariance == Spec => []Inv
BY InitInv, StepInv, PTL DEF Spec

-----------------------------------------------------------------------------
\* Every variable keeps its type; the manager runs in a serving process only, and the
\* transaction is open during init_db only (main.rs).
THEOREM TypeCorrect == Spec => []TypeOK
BY Invariance, PTL DEF Inv

\* Whatever an earlier version, an outage or a death in the middle of a start-up left,
\* the server listens only on a complete schema and with a superuser (main.rs).
THEOREM ServesOnCompleteSchema == Spec => []ServesOnlyComplete
<1>1. Inv => ServesOnlyComplete
  BY DEF Inv, Passed, ServesOnlyComplete
<1> QED
  BY <1>1, Invariance, PTL

\* The schema is that of an earlier version or complete, never in between (init_db).
THEOREM UpgradeIsWhole == Spec => []SchemaIsWhole
BY Invariance, PTL DEF Inv

\* Whoever creates or opens an account does so with one and the same password, over
\* every restart and registration (UsersRepository::create, create_superuser).
THEOREM AccountsHaveOnePassword == Spec => []OnePasswordPerAccount
<1>1. Inv => OnePasswordPerAccount
  BY DEF Inv, Kept, OnePasswordPerAccount
<1> QED
  BY <1>1, Invariance, PTL

\* A handler panics for want of an answer only when the manager's task is lost
\* (services/files.rs: resp_rx.await.unwrap()).
THEOREM PanicsNeedLostManager == Spec => PanicsWithoutManager
<1>1. Inv /\ [Next]_vars =>
        [\A r \in Requests : pc[r] # "panicked" /\ pc'[r] = "panicked" => manager = "lost"]_vars
  <2> SUFFICES ASSUME Inv, Next, NEW q \in Requests, pc[q] # "panicked", pc'[q] = "panicked"
               PROVE  manager = "lost"
    OBVIOUS
  <2>1. PICK r \in Requests : Unanswered(r)
    <3>1. ~Main
      BY DEF Main, Start, OpenChannel, CreateDb, Connect, Begin, Execute, Commit,
             LoseTransaction, CreateSuperuser, Spawn, Die, requests, Inv, TypeOK
    <3>2. ~Manager /\ ~Outage /\ ~Edit /\ ~Kill
      BY DEF Manager, ManagerConnects, ManagerAnswers, Goto, Outage, Edit, Kill, Die, requests,
             Inv, TypeOK
    <3>3. \A r \in Requests, e \in Emails, p \in Passwords : ~Register(r, e, p) /\ ~Login(r, e, p)
      BY DEF Register, Login, Goto, Inv, TypeOK
    <3>4. \A r \in Requests : ~Arrive(r) /\ ~Send(r)
      BY DEF Arrive, Send, Goto, Inv, TypeOK
    <3> QED
      BY <3>1, <3>2, <3>3, <3>4 DEF Next, Handle
  <2>2. q = r
    BY <2>1 DEF Unanswered, Goto, Inv, TypeOK
  <2> QED
    BY <2>1, <2>2 DEF Unanswered, Inv, Waits
<1> QED
  BY <1>1, Invariance, PTL DEF Spec, PanicsWithoutManager
=============================================================================
