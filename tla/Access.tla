------------------------------- MODULE Access -------------------------------
(***************************************************************************)
(* Storages and the rights of users on them: services/storages.rs and      *)
(* services/storage_workers.rs over the tables storages, access and        *)
(* storage_workers.  Each handler runs a few statements, none of them in a *)
(* transaction: it checks first and acts on what the check said.  Between  *)
(* two statements other handlers run, the client may hang up and the       *)
(* process may die, which is every client hanging up at once.              *)
(***************************************************************************)
EXTENDS Integers

CONSTANTS
    Users,
    Handlers,        \* requests served at a time; a handler serves one after the other
    Storages,        \* ids of storages
    Names,
    QueriesMayFail,
    None             \* no user, storage or name

ASSUME QueriesMayFailAssumption == QueriesMayFail \in BOOLEAN
ASSUME NoneAssumption == None \notin Users \cup Storages \cup Names

Rights == {"r", "w", "a"}
States == {"free", "present", "deleted"}   \* of an id: not used yet, in the table, used

VARIABLES
    state,     \* table storages: which ids are in it
    name,      \* and their names
    right,     \* table access: right[s][u], or "none"
    workers,   \* storages that a row of storage_workers refers to
    pc,        \* where a handler is
    request    \* the request it serves

vars == <<state, name, right, workers, pc, request>>

NoRequest == [user |-> None, storage |-> None, name |-> None, target |-> None, right |-> "none"]
Requests == [user : Users \cup {None}, storage : Storages \cup {None}, name : Names \cup {None},
             target : Users \cup {None}, right : Rights \cup {"none"}]

PCs == {"idle", "insert", "admin", "undo", "worker", "grant", "restrict", "delete"}
Managing == {"grant", "restrict", "delete"}

TypeOK ==
    /\ state \in [Storages -> States]
    /\ name \in [Storages -> Names \cup {None}]
    /\ right \in [Storages -> [Users -> Rights \cup {"none"}]]
    /\ workers \subseteq Storages
    /\ pc \in [Handlers -> PCs]
    /\ request \in [Handlers -> Requests]
    /\ \A h \in Handlers : pc[h] # "idle" => request[h].user \in Users
    /\ \A h \in Handlers : pc[h] \notin {"idle", "insert"} => request[h].storage \in Storages

Init ==
    /\ state = [s \in Storages |-> "free"]
    /\ name = [s \in Storages |-> None]
    /\ right = [s \in Storages |-> [u \in Users |-> "none"]]
    /\ workers = {}
    /\ pc = [h \in Handlers |-> "idle"]
    /\ request = [h \in Handlers |-> NoRequest]

Present(s) == state[s] = "present"
IsAdmin(u, s) == right[s][u] = "a"

tables == <<state, name, right, workers>>

Goto(h, where) == pc' = [pc EXCEPT ![h] = where] /\ UNCHANGED request

\* The answer, with success or an error; the handler is free again.
Return(h) ==
    /\ pc' = [pc EXCEPT ![h] = "idle"]
    /\ request' = [request EXCEPT ![h] = NoRequest]

Start(h, where, r) ==
    /\ pc[h] = "idle"
    /\ pc' = [pc EXCEPT ![h] = where]
    /\ request' = [request EXCEPT ![h] = r]
    /\ UNCHANGED tables

-----------------------------------------------------------------------------
(***************************************************************************)
(* Creation of a storage: four statements.                                 *)
(***************************************************************************)

\* get_by_name_and_user_id joins storages and access.
NameTaken(u, n) ==
    \E s \in Storages : Present(s) /\ name[s] = n /\ right[s][u] # "none"

\* The name check of create; a query that fails counts as a free name.
CheckName(h, u, n) ==
    /\ ~NameTaken(u, n) \/ QueriesMayFail
    /\ Start(h, "insert", [NoRequest EXCEPT !.user = u, !.name = n])

\* repo.create: a new id, unless the chat belongs to another storage.
InsertStorage(h) ==
    /\ pc[h] = "insert"
    /\ \/ \E s \in Storages :
             /\ state[s] = "free"
             /\ state' = [state EXCEPT ![s] = "present"]
             /\ name' = [name EXCEPT ![s] = request[h].name]
             /\ request' = [request EXCEPT ![h].storage = s]
             /\ pc' = [pc EXCEPT ![h] = "admin"]
       \/ Return(h) /\ UNCHANGED <<state, name>>
    /\ UNCHANGED <<right, workers>>

\* create_or_update for the creator: the foreign key wants the storage.
SetAdmin(h) ==
    LET s == request[h].storage IN
    /\ pc[h] = "admin"
    /\ \/ /\ Present(s)
          /\ right' = [right EXCEPT ![s][request[h].user] = "a"]
          /\ Return(h)
       \/ /\ ~Present(s) \/ QueriesMayFail
          /\ Goto(h, "undo")
          /\ UNCHANGED right
    /\ UNCHANGED <<state, name, workers>>

\* Mutant of Remove: storage_workers has no foreign key to storages.
RemoveWithWorkers(s) ==
    /\ state' = [state EXCEPT ![s] = IF Present(s) THEN "deleted" ELSE state[s]]
    /\ right' = [right EXCEPT ![s] = [u \in Users |-> "none"]]
    /\ UNCHANGED <<name, workers>>

\* DELETE FROM storages: rights go with it, a worker forbids it.
Remove(s) ==
    /\ s \notin workers
    /\ state' = [state EXCEPT ![s] = IF Present(s) THEN "deleted" ELSE state[s]]
    /\ right' = [right EXCEPT ![s] = [u \in Users |-> "none"]]
    /\ UNCHANGED <<name, workers>>

\* The fallback of create.
UndoStorage(h) ==
    /\ pc[h] = "undo"
    /\ \/ Remove(request[h].storage)
       \/ (QueriesMayFail \/ request[h].storage \in workers) /\ UNCHANGED tables
    /\ Return(h)

-----------------------------------------------------------------------------
(***************************************************************************)
(* Storage workers: no right on the storage is asked for.  Whose worker it *)
(* is, and its name, are left out: only the storage it refers to matters.  *)
(***************************************************************************)

\* A worker name in use is a refusal; past the check any user and storage will do.
CheckWorkerName(h, u, s) ==
    Start(h, "worker", [NoRequest EXCEPT !.user = u, !.storage = s])

\* The foreign key wants the storage; a token in use fails.
InsertWorker(h) ==
    /\ pc[h] = "worker"
    /\ \/ /\ Present(request[h].storage)
          /\ workers' = workers \cup {request[h].storage}
       \/ UNCHANGED workers
    /\ Return(h)
    /\ UNCHANGED <<state, name, right>>

-----------------------------------------------------------------------------
(***************************************************************************)
(* What administrators do.                                                 *)
(***************************************************************************)

\* Mutants of CheckAdmin: nothing forbids to name oneself; the right to write is
\* enough.
CheckAdminOnly(h, where, r) ==
    /\ IsAdmin(r.user, r.storage)
    /\ Start(h, where, r)
CheckWriter(h, where, r) ==
    /\ right[r.storage][r.user] \in {"w", "a"}
    /\ r.target # r.user
    /\ Start(h, where, r)

\* check_access with AccessType::A, then "You cannot manage access of yourself".
CheckAdmin(h, where, r) ==
    /\ IsAdmin(r.user, r.storage)
    /\ r.target # r.user
    /\ Start(h, where, r)

\* Mutant of GrantAccess: access has no foreign key to storages.
GrantUnchecked(h) ==
    LET r == request[h] IN
    /\ pc[h] = "grant"
    /\ right' = [right EXCEPT ![r.storage][r.target] = r.right]
    /\ Return(h)
    /\ UNCHANGED <<state, name, workers>>

\* create_or_update: the foreign key wants the storage.
GrantAccess(h) ==
    LET r == request[h] IN
    /\ pc[h] = "grant"
    /\ \/ /\ Present(r.storage)
          /\ right' = [right EXCEPT ![r.storage][r.target] = r.right]
       \/ /\ ~Present(r.storage) \/ QueriesMayFail
          /\ UNCHANGED right
    /\ Return(h)
    /\ UNCHANGED <<state, name, workers>>

\* Mutant of RestrictAccess: the access type is set to NULL.
RestrictToNull(h) ==
    LET r == request[h] IN
    /\ pc[h] = "restrict"
    /\ right' = [right EXCEPT ![r.storage][r.target] = None]
    /\ Return(h)
    /\ UNCHANGED <<state, name, workers>>

\* delete_access
RestrictAccess(h) ==
    LET r == request[h] IN
    /\ pc[h] = "restrict"
    /\ \/ right' = [right EXCEPT ![r.storage][r.target] = "none"]
       \/ QueriesMayFail /\ UNCHANGED right
    /\ Return(h)
    /\ UNCHANGED <<state, name, workers>>

\* delete_storage
DeleteStorage(h) ==
    /\ pc[h] = "delete"
    /\ \/ Remove(request[h].storage)
       \/ (QueriesMayFail \/ request[h].storage \in workers) /\ UNCHANGED tables
    /\ Return(h)

-----------------------------------------------------------------------------
\* The client hangs up between two statements, or the process dies.
HangUp(h) ==
    /\ pc[h] # "idle"
    /\ Return(h)
    /\ UNCHANGED tables

Arrive(h, u) ==
    \/ \E n \in Names : CheckName(h, u, n)
    \/ \E s \in Storages :
          LET r == [NoRequest EXCEPT !.user = u, !.storage = s] IN
          \/ CheckWorkerName(h, u, s)
          \/ \E v \in Users, x \in Rights :
                CheckAdmin(h, "grant", [r EXCEPT !.target = v, !.right = x])
          \/ \E v \in Users : CheckAdmin(h, "restrict", [r EXCEPT !.target = v])
          \/ CheckAdmin(h, "delete", r)

Handle(h) ==
    \/ InsertStorage(h) \/ SetAdmin(h) \/ UndoStorage(h)
    \/ InsertWorker(h)
    \/ GrantAccess(h) \/ RestrictAccess(h) \/ DeleteStorage(h)

Next ==
    \E h \in Handlers :
        \/ \E u \in Users : Arrive(h, u)
        \/ Handle(h)
        \/ HangUp(h)

Spec == Init /\ [][Next]_vars

-----------------------------------------------------------------------------
(***************************************************************************)
(* Safety.                                                                 *)
(***************************************************************************)

\* A right exists only on a storage that is there, although a grant checks first and
\* acts later, and a deletion may run in between (grant_access, delete).
RightsNeedStorage ==
    \A s \in Storages, u \in Users : right[s][u] # "none" => Present(s)

\* A storage with a worker stays, whoever registered the worker and however late: no
\* delete by its administrators and no fallback of its creation removes it (delete,
\* line 74; storage_workers.storage_id refers to storages without a cascade).
WorkersHoldStorage == \A s \in workers : Present(s)

HasAdmin(s) == \E u \in Users : IsAdmin(u, s)

\* A storage that stays loses its last administrator only to a stale check: to a grant
\* or a restriction whose own user has lost the right since (grant_access,
\* restrict_access, lines 77-112).
LastAdminFallsToStaleCheck ==
    [][\A s \in Storages : HasAdmin(s) /\ Present(s)' /\ ~HasAdmin(s)' =>
          \E h \in Handlers : /\ pc[h] \in {"grant", "restrict"} /\ request[h].storage = s
                              /\ ~IsAdmin(request[h].user, s)]_vars

\* Nobody administers the storage and no request past its check is about it: nothing
\* the API offers ever ends that (create without a transaction, check_access).
Manages(h, s) == pc[h] \in Managing \cup {"admin", "undo"} /\ request[h].storage = s
Abandoned(s) == Present(s) /\ ~HasAdmin(s) /\ \A h \in Handlers : ~Manages(h, s)

AbandonedForGood ==
    [][\A s \in Storages : Abandoned(s) => Abandoned(s)']_vars
=============================================================================
