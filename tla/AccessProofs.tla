---------------------------- MODULE AccessProofs ----------------------------
(***************************************************************************)
(* Theorems about Access, for any users, handlers, storages and names.     *)
(***************************************************************************)
EXTENDS Access, TLAPS

\* A grant or a restriction under way is of somebody else than who asked for it.
NotOneself ==
    \A h \in Handlers : pc[h] \in {"grant", "restrict"} => request[h].target # request[h].user

IInv == TypeOK /\ RightsNeedStorage /\ NotOneself

-----------------------------------------------------------------------------
\* The requests that arrive are records of the type of request.
LEMMA RequestTypes ==
    /\ NoRequest \in Requests
    /\ \A u \in Users, n \in Names : [NoRequest EXCEPT !.user = u, !.name = n] \in Requests
    /\ \A u \in Users, s \in Storages : [NoRequest EXCEPT !.user = u, !.storage = s] \in Requests
    /\ \A r \in Requests, v \in Users : [r EXCEPT !.target = v] \in Requests
    /\ \A r \in Requests, v \in Users, x \in Rights :
          [r EXCEPT !.target = v, !.right = x] \in Requests
    /\ \A r \in Requests, s \in Storages : [r EXCEPT !.storage = s] \in Requests
  BY DEF NoRequest, Requests, Rights

\* Arriving: the handler leaves idle with a request of its user.
LEMMA StartType ==
    ASSUME TypeOK, NEW h \in Handlers, NEW where \in PCs, NEW r \in Requests, r.user \in Users,
           where = "insert" \/ r.storage \in Storages, Start(h, where, r)
    PROVE  TypeOK'
  BY DEF TypeOK, Start, tables, Present

\* Answering: the handler is idle again.
LEMMA ReturnType ==
    ASSUME TypeOK, NEW h \in Handlers, Return(h)
    PROVE  /\ (pc \in [Handlers -> PCs])'
           /\ (request \in [Handlers -> Requests])'
           /\ (\A i \in Handlers : pc[i] # "idle" => request[i].user \in Users)'
           /\ (\A i \in Handlers :
                 pc[i] \notin {"idle", "insert"} => request[i].storage \in Storages)'
  BY RequestTypes DEF TypeOK, Return, PCs

\* A removal keeps the types of the tables.
LEMMA RemoveType ==
    ASSUME TypeOK, NEW s \in Storages \cup {None}, Remove(s)
    PROVE  /\ (state \in [Storages -> States])'
           /\ (name \in [Storages -> Names \cup {None}])'
           /\ (right \in [Storages -> [Users -> Rights \cup {"none"}]])'
           /\ (workers \subseteq Storages)'
  BY DEF TypeOK, Remove, States

\* A row of access is written.
LEMMA RightType ==
    ASSUME TypeOK, NEW s, NEW u, NEW x \in Rights \cup {"none"},
           right' = [right EXCEPT ![s][u] = x] \/ right' = right
    PROVE  (right \in [Storages -> [Users -> Rights \cup {"none"}]])'
  BY DEF TypeOK

-----------------------------------------------------------------------------
LEMMA TypeInit == Init => TypeOK
  <1> SUFFICES ASSUME Init
               PROVE  TypeOK
    OBVIOUS
  <1>1. /\ state \in [Storages -> States]
        /\ name \in [Storages -> Names \cup {None}]
        /\ workers \subseteq Storages
        /\ pc \in [Handlers -> PCs]
    BY DEF Init, States, PCs
  <1>2. right \in [Storages -> [Users -> Rights \cup {"none"}]]
    <2>1. [u \in Users |-> "none"] \in [Users -> Rights \cup {"none"}]
      OBVIOUS
    <2> QED
      BY <2>1 DEF Init
  <1>3. request \in [Handlers -> Requests]
    BY RequestTypes DEF Init
  <1>4. \A h \in Handlers : pc[h] = "idle"
    BY DEF Init
  <1> QED
    BY <1>1, <1>2, <1>3, <1>4 DEF TypeOK

LEMMA TypeArrive ==
    ASSUME TypeOK, NEW h \in Handlers, NEW u \in Users, Arrive(h, u)
    PROVE  TypeOK'
  <1>1. CASE \E n \in Names : CheckName(h, u, n)
    <2>1. PICK n \in Names : CheckName(h, u, n)
      BY <1>1
    <2> DEFINE r == [NoRequest EXCEPT !.user = u, !.name = n]
    <2>2. r \in Requests /\ r.user \in Users
      BY RequestTypes DEF NoRequest
    <2>3. Start(h, "insert", r)
      BY <2>1 DEF CheckName
    <2> HIDE DEF r
    <2> QED
      BY <2>2, <2>3, StartType DEF PCs
  <1>2. ASSUME NEW s \in Storages,
               LET r == [NoRequest EXCEPT !.user = u, !.storage = s] IN
               \/ CheckWorkerName(h, u, s)
               \/ \E v \in Users, x \in Rights :
                     CheckAdmin(h, "grant", [r EXCEPT !.target = v, !.right = x])
               \/ \E v \in Users : CheckAdmin(h, "restrict", [r EXCEPT !.target = v])
               \/ CheckAdmin(h, "delete", r)
        PROVE  TypeOK'
    <2> DEFINE r == [NoRequest EXCEPT !.user = u, !.storage = s]
    <2>1. r \in Requests /\ r.user \in Users /\ r.storage \in Storages
      BY RequestTypes DEF NoRequest
    <2>2. CASE CheckWorkerName(h, u, s)
      <3>1. Start(h, "worker", r)
        BY <2>2 DEF CheckWorkerName
      <3> HIDE DEF r
      <3> QED
        BY <3>1, <2>1, StartType DEF PCs
    <2>3. CASE CheckAdmin(h, "delete", r)
      <3>1. Start(h, "delete", r)
        BY <2>3 DEF CheckAdmin
      <3> HIDE DEF r
      <3> QED
        BY <3>1, <2>1, StartType DEF PCs
    <2>4. ASSUME NEW v \in Users, CheckAdmin(h, "restrict", [r EXCEPT !.target = v])
          PROVE  TypeOK'
      <3> DEFINE q == [r EXCEPT !.target = v]
      <3>1. Start(h, "restrict", q)
        BY <2>4 DEF CheckAdmin
      <3> HIDE DEF r
      <3>2. q \in Requests /\ q.user \in Users /\ q.storage \in Storages
        BY <2>1, RequestTypes DEF Requests
      <3> HIDE DEF q
      <3> QED
        BY <3>1, <3>2, StartType DEF PCs
    <2>5. ASSUME NEW v \in Users, NEW x \in Rights,
                 CheckAdmin(h, "grant", [r EXCEPT !.target = v, !.right = x])
          PROVE  TypeOK'
      <3> DEFINE q == [r EXCEPT !.target = v, !.right = x]
      <3>1. Start(h, "grant", q)
        BY <2>5 DEF CheckAdmin
      <3> HIDE DEF r
      <3>2. q \in Requests /\ q.user \in Users /\ q.storage \in Storages
        BY <2>1, RequestTypes DEF Requests
      <3> HIDE DEF q
      <3> QED
        BY <3>1, <3>2, StartType DEF PCs
    <2> QED
      BY <1>2, <2>2, <2>3, <2>4, <2>5
  <1> QED
    BY <1>1, <1>2 DEF Arrive

LEMMA TypeHandle ==
    ASSUME TypeOK, NEW h \in Handlers, Handle(h)
    PROVE  TypeOK'
  <1>r. request[h] \in Requests
    BY DEF TypeOK
  <1>s. request[h].storage \in Storages \cup {None}
    BY <1>r DEF Requests
  <1>1. CASE InsertStorage(h)
    <2>1. CASE Return(h) /\ UNCHANGED <<state, name>>
      BY <1>1, <2>1, ReturnType DEF InsertStorage, TypeOK
    <2>2. ASSUME NEW s \in Storages,
                 state' = [state EXCEPT ![s] = "present"],
                 name' = [name EXCEPT ![s] = request[h].name],
                 request' = [request EXCEPT ![h].storage = s],
                 pc' = [pc EXCEPT ![h] = "admin"]
          PROVE  TypeOK'
      <3>1. request' \in [Handlers -> Requests]
        BY <2>2, RequestTypes DEF TypeOK
      <3>2. \A i \in Handlers : /\ request'[i].user = request[i].user
                              /\ request'[i].storage = IF i = h THEN s ELSE request[i].storage
        BY <2>2 DEF TypeOK, Requests
      <3>3. request[h].name \in Names \cup {None}
        BY <1>r DEF Requests
      <3>4. request[h].user \in Users
        BY <1>1 DEF TypeOK, InsertStorage
      <3> QED
        BY <1>1, <2>2, <3>1, <3>2, <3>3, <3>4 DEF InsertStorage, TypeOK, States, PCs
    <2> QED
      BY <1>1, <2>1, <2>2 DEF InsertStorage
  <1>2. CASE SetAdmin(h)
    <2>1. CASE Return(h)
      <3>1. (right \in [Storages -> [Users -> Rights \cup {"none"}]])'
        <4>1. "a" \in Rights \cup {"none"}
          BY DEF Rights
        <4>2. \/ right' = [right EXCEPT ![request[h].storage][request[h].user] = "a"]
              \/ right' = right
          BY <1>2 DEF SetAdmin
        <4> QED
          BY <4>1, <4>2, RightType, Zenon
      <3> QED
        BY <1>2, <2>1, <3>1, ReturnType DEF SetAdmin, TypeOK
    <2>2. CASE Goto(h, "undo") /\ UNCHANGED right
      BY <1>2, <2>2 DEF SetAdmin, Goto, TypeOK, PCs
    <2> QED
      BY <1>2, <2>1, <2>2 DEF SetAdmin
  <1>3. CASE UndoStorage(h)
    BY <1>3, <1>s, ReturnType, RemoveType DEF UndoStorage, tables, TypeOK
  <1>4. CASE InsertWorker(h)
    <2>1. request[h].storage \in Storages
      BY <1>4 DEF InsertWorker, TypeOK
    <2> QED
      BY <1>4, <2>1, ReturnType DEF InsertWorker, TypeOK
  <1>5. CASE GrantAccess(h)
    <2>1. request[h].right \in Rights \cup {"none"}
      BY <1>r DEF Requests
    <2>2. (right \in [Storages -> [Users -> Rights \cup {"none"}]])'
      <3>1. \/ right' = [right EXCEPT ![request[h].storage][request[h].target] = request[h].right]
            \/ right' = right
        BY <1>5 DEF GrantAccess
      <3> QED
        BY <2>1, <3>1, RightType, Zenon
    <2> QED
      BY <1>5, <2>2, ReturnType DEF GrantAccess, TypeOK
  <1>6. CASE RestrictAccess(h)
    <2>1. (right \in [Storages -> [Users -> Rights \cup {"none"}]])'
      <3>1. "none" \in Rights \cup {"none"}
        OBVIOUS
      <3>2. \/ right' = [right EXCEPT ![request[h].storage][request[h].target] = "none"]
            \/ right' = right
        BY <1>6 DEF RestrictAccess
      <3> QED
        BY <3>1, <3>2, RightType, Zenon
    <2> QED
      BY <1>6, <2>1, ReturnType DEF RestrictAccess, TypeOK
  <1>7. CASE DeleteStorage(h)
    BY <1>7, <1>s, ReturnType, RemoveType DEF DeleteStorage, tables, TypeOK
  <1> QED
    BY <1>1, <1>2, <1>3, <1>4, <1>5, <1>6, <1>7 DEF Handle

LEMMA TypeNext == TypeOK /\ [Next]_vars => TypeOK'
  <1> SUFFICES ASSUME TypeOK, [Next]_vars
               PROVE  TypeOK'
    OBVIOUS
  <1>1. ASSUME NEW h \in Handlers, NEW u \in Users, Arrive(h, u)
        PROVE  TypeOK'
    BY <1>1, TypeArrive
  <1>2. ASSUME NEW h \in Handlers, Handle(h)
        PROVE  TypeOK'
    BY <1>2, TypeHandle
  <1>3. ASSUME NEW h \in Handlers, HangUp(h)
        PROVE  TypeOK'
    BY <1>3, ReturnType DEF HangUp, tables, TypeOK
  <1>4. CASE UNCHANGED vars
    BY <1>4 DEF vars, TypeOK
  <1> QED
    BY <1>1, <1>2, <1>3, <1>4 DEF Next

\* Every variable keeps its type.
THEOREM TypeCorrect == Spec => []TypeOK
  BY TypeInit, TypeNext, PTL DEF Spec

-----------------------------------------------------------------------------
LEMMA NotOneselfNext ==
    ASSUME TypeOK, NotOneself, [Next]_vars
    PROVE  NotOneself'
  <1>1. ASSUME NEW h \in Handlers, NEW u \in Users, Arrive(h, u)
        PROVE  NotOneself'
    <2>1. ASSUME NEW where \in {"insert", "worker", "delete"}, NEW r, Start(h, where, r)
          PROVE  NotOneself'
      BY <2>1 DEF Start, NotOneself, TypeOK
    <2>2. ASSUME NEW where, NEW r, CheckAdmin(h, where, r)
          PROVE  NotOneself'
      BY <2>2 DEF CheckAdmin, Start, NotOneself, TypeOK
    <2> QED
      BY <1>1, <2>1, <2>2 DEF Arrive, CheckName, CheckWorkerName
  <1>2. ASSUME NEW h \in Handlers, Return(h)
        PROVE  NotOneself'
    BY <1>2 DEF Return, NotOneself, TypeOK
  <1>3. ASSUME NEW h \in Handlers, NEW s \in Storages,
               request' = [request EXCEPT ![h].storage = s],
               pc' = [pc EXCEPT ![h] = "admin"]
        PROVE  NotOneself'
    BY <1>3 DEF NotOneself, TypeOK, Requests
  <1>4. ASSUME NEW h \in Handlers, Goto(h, "undo")
        PROVE  NotOneself'
    BY <1>4 DEF Goto, NotOneself, TypeOK
  <1>5. ASSUME NEW h \in Handlers, Handle(h)
        PROVE  NotOneself'
    BY <1>5, <1>2, <1>3, <1>4
       DEF Handle, InsertStorage, SetAdmin, UndoStorage, InsertWorker, GrantAccess,
           RestrictAccess, DeleteStorage
  <1>6. CASE UNCHANGED vars
    BY <1>6 DEF vars, NotOneself
  <1> QED
    BY <1>1, <1>2, <1>5, <1>6 DEF Next, HangUp

\* What a step may do to rights: none appears on a storage that is not there.
LEMMA RightsNeedStorageNext ==
    ASSUME TypeOK, RightsNeedStorage, [Next]_vars
    PROVE  RightsNeedStorage'
  <1>1. CASE UNCHANGED <<state, right>>
    BY <1>1 DEF RightsNeedStorage, Present
  <1>2. ASSUME NEW s, Remove(s)
        PROVE  RightsNeedStorage'
    BY <1>2 DEF Remove, RightsNeedStorage, Present, TypeOK
  <1>3. ASSUME NEW s \in Storages, state' = [state EXCEPT ![s] = "present"], UNCHANGED right
        PROVE  RightsNeedStorage'
    BY <1>3 DEF RightsNeedStorage, Present, TypeOK
  <1>4. ASSUME NEW s, NEW u, NEW x, Present(s), right' = [right EXCEPT ![s][u] = x],
               UNCHANGED state
        PROVE  RightsNeedStorage'
    BY <1>4 DEF RightsNeedStorage, Present, TypeOK
  <1>5. ASSUME NEW s, NEW u, right' = [right EXCEPT ![s][u] = "none"], UNCHANGED state
        PROVE  RightsNeedStorage'
    BY <1>5 DEF RightsNeedStorage, Present, TypeOK
  <1>6. ASSUME NEW h \in Handlers, Handle(h)
        PROVE  RightsNeedStorage'
    BY <1>6, <1>1, <1>2, <1>3, <1>4, <1>5
       DEF Handle, InsertStorage, SetAdmin, UndoStorage, InsertWorker, GrantAccess,
           RestrictAccess, DeleteStorage, tables
  <1>7. ASSUME NEW h \in Handlers, NEW u \in Users, Arrive(h, u)
        PROVE  RightsNeedStorage'
    BY <1>7, <1>1 DEF Arrive, CheckName, CheckWorkerName, CheckAdmin, Start, tables
  <1> QED
    BY <1>1, <1>6, <1>7 DEF Next, HangUp, tables, vars

LEMMA Invariant == Spec => []IInv
  <1>1. Init => IInv
    BY TypeInit DEF IInv, Init, RightsNeedStorage, NotOneself
  <1>2. IInv /\ [Next]_vars => IInv'
    BY TypeNext, RightsNeedStorageNext, NotOneselfNext DEF IInv
  <1> QED
    BY <1>1, <1>2, PTL DEF Spec

\* A right exists only on a storage that is there, although a grant checks first and
\* acts later, and a deletion may run in between.
THEOREM RightsNeedTheirStorage == Spec => []RightsNeedStorage
  <1>1. IInv => RightsNeedStorage
    BY DEF IInv
  <1> QED
    BY <1>1, Invariant, PTL

-----------------------------------------------------------------------------
\* A storage with a worker cannot be deleted, and a worker needs a storage: the two
\* foreign keys hold however the check and the statement of a request lie apart.
THEOREM WorkersHoldTheirStorage == Spec => []WorkersHoldStorage
  <1>1. Init => WorkersHoldStorage
    BY DEF Init, WorkersHoldStorage
  <1>2. ASSUME TypeOK, WorkersHoldStorage, [Next]_vars
        PROVE  WorkersHoldStorage'
    <2>1. CASE UNCHANGED <<state, workers>>
      BY <1>2, <2>1 DEF WorkersHoldStorage, Present
    <2>2. ASSUME NEW s, Remove(s)
          PROVE  WorkersHoldStorage'
      BY <1>2, <2>2 DEF Remove, WorkersHoldStorage, Present, TypeOK
    <2>3. ASSUME NEW s \in Storages, state' = [state EXCEPT ![s] = "present"],
                 UNCHANGED workers
          PROVE  WorkersHoldStorage'
      BY <1>2, <2>3 DEF WorkersHoldStorage, Present, TypeOK
    <2>4. ASSUME NEW h \in Handlers, InsertWorker(h)
          PROVE  WorkersHoldStorage'
      BY <1>2, <2>4 DEF InsertWorker, WorkersHoldStorage, Present
    <2>5. ASSUME NEW h \in Handlers, Handle(h)
          PROVE  WorkersHoldStorage'
      BY <2>1, <2>2, <2>3, <2>4, <2>5
         DEF Handle, InsertStorage, SetAdmin, UndoStorage, GrantAccess, RestrictAccess,
             DeleteStorage, tables
    <2>6. ASSUME NEW h \in Handlers, NEW u \in Users, Arrive(h, u)
          PROVE  WorkersHoldStorage'
      BY <2>1, <2>6 DEF Arrive, CheckName, CheckWorkerName, CheckAdmin, Start, tables
    <2> QED
      BY <1>2, <2>1, <2>5, <2>6 DEF Next, HangUp, tables, vars
  <1>3. TypeOK /\ WorkersHoldStorage /\ [Next]_vars => WorkersHoldStorage'
    BY <1>2
  <1> QED
    BY <1>1, <1>3, TypeCorrect, PTL DEF Spec

-----------------------------------------------------------------------------
\* Only a grant or a restriction takes an administrator from a storage that stays, and
\* an administrator who asked for it is still one: it is of somebody else.
LEMMA LastAdminStep ==
    ASSUME IInv, [Next]_vars, NEW s \in Storages, HasAdmin(s), Present(s)', ~HasAdmin(s)'
    PROVE  \E h \in Handlers : /\ pc[h] \in {"grant", "restrict"} /\ request[h].storage = s
                               /\ ~IsAdmin(request[h].user, s)
  <1>1. PICK a \in Users : IsAdmin(a, s)
    BY DEF HasAdmin
  <1>2. ~IsAdmin(a, s)'
    BY DEF HasAdmin
  <1>3. ASSUME UNCHANGED right
        PROVE  FALSE
    BY <1>1, <1>2, <1>3 DEF IsAdmin
  <1>4. ASSUME NEW t, Remove(t)
        PROVE  FALSE
    BY <1>1, <1>2, <1>4 DEF Remove, IsAdmin, Present, IInv, TypeOK
  <1>5. ASSUME NEW h \in Handlers, pc[h] \in {"grant", "restrict"},
               right' = right \/ \E x : right' = [right EXCEPT ![request[h].storage][request[h].target] = x]
        PROVE  /\ request[h].storage = s
               /\ ~IsAdmin(request[h].user, s)
    <2>1. PICK x : right' = [right EXCEPT ![request[h].storage][request[h].target] = x]
      BY <1>3, <1>5
    <2>2. request[h].storage = s /\ request[h].target = a
      BY <1>1, <1>2, <2>1 DEF IsAdmin, IInv, TypeOK
    <2>3. ASSUME IsAdmin(request[h].user, s)
          PROVE  FALSE
      <3> DEFINE u == request[h].user
      <3>1. u # a /\ u \in Users
        BY <1>5, <2>2 DEF IInv, NotOneself, TypeOK
      <3>2. right' = [right EXCEPT ![s][a] = x]
        BY <2>1, <2>2
      <3>3. right[s][u] = "a"
        BY <2>3 DEF IsAdmin
      <3> HIDE DEF u
      <3>4. right'[s][u] = "a"
        BY <3>1, <3>2, <3>3 DEF IInv, TypeOK
      <3>5. ~ \E v \in Users : right'[s][v] = "a"
        BY DEF HasAdmin, IsAdmin
      <3> QED
        BY <3>1, <3>4, <3>5
    <2> QED
      BY <2>2, <2>3
  <1>6. ASSUME NEW h \in Handlers, SetAdmin(h)
        PROVE  FALSE
    BY <1>1, <1>2, <1>6 DEF SetAdmin, IsAdmin, IInv, TypeOK
  <1>7. PICK h \in Handlers : (\E u \in Users : Arrive(h, u)) \/ Handle(h) \/ HangUp(h)
    BY <1>3 DEF Next, vars
  <1>8. GrantAccess(h) \/ RestrictAccess(h)
    BY <1>3, <1>4, <1>6, <1>7
       DEF Arrive, CheckName, CheckWorkerName, CheckAdmin, Start, HangUp, Handle, tables,
           InsertStorage, UndoStorage, InsertWorker, DeleteStorage
  <1> QED
    BY <1>5, <1>8 DEF GrantAccess, RestrictAccess

\* A storage loses its last administrator only to a stale check.
THEOREM LastAdminNeedsStaleCheck == Spec => LastAdminFallsToStaleCheck
  <1>1. IInv /\ [Next]_vars =>
          \A s \in Storages : HasAdmin(s) /\ Present(s)' /\ ~HasAdmin(s)' =>
             \E h \in Handlers : /\ pc[h] \in {"grant", "restrict"} /\ request[h].storage = s
                                 /\ ~IsAdmin(request[h].user, s)
    BY LastAdminStep
  <1> QED
    BY <1>1, Invariant, PTL DEF Spec, LastAdminFallsToStaleCheck

-----------------------------------------------------------------------------
\* A request to manage s gets past its check only for an administrator of s.
LEMMA NobodyPassesTheCheck ==
    ASSUME TypeOK, NEW s \in Storages, Abandoned(s), NEW h \in Handlers, NEW u \in Users,
           Arrive(h, u)
    PROVE  Abandoned(s)'
  <1>1. UNCHANGED <<state, right>>
    BY DEF Arrive, CheckName, CheckWorkerName, CheckAdmin, Start, tables
  <1>2. Present(s)' /\ ~HasAdmin(s)'
    BY <1>1 DEF Abandoned, Present, HasAdmin, IsAdmin
  <1>3. ASSUME NEW where, NEW r, Start(h, where, r),
               where \in {"insert", "worker"} \/ r.storage # s
        PROVE  \A i \in Handlers : ~Manages(i, s)'
    BY <1>3 DEF Abandoned, Manages, Managing, Start, TypeOK
  <1>4. ASSUME NEW n \in Names, CheckName(h, u, n)
        PROVE  \A i \in Handlers : ~Manages(i, s)'
    BY <1>3, <1>4 DEF CheckName
  <1>5. ASSUME NEW t \in Storages, CheckWorkerName(h, u, t)
        PROVE  \A i \in Handlers : ~Manages(i, s)'
    BY <1>3, <1>5 DEF CheckWorkerName
  <1>6. ASSUME NEW where, NEW r, CheckAdmin(h, where, r), r.user \in Users
        PROVE  \A i \in Handlers : ~Manages(i, s)'
    <2>1. r.storage # s
      BY <1>6 DEF CheckAdmin, Abandoned, HasAdmin
    <2> QED
      BY <1>3, <1>6, <2>1 DEF CheckAdmin
  <1>7. ASSUME NEW t \in Storages,
               LET r == [NoRequest EXCEPT !.user = u, !.storage = t] IN
               \/ \E v \in Users, x \in Rights :
                     CheckAdmin(h, "grant", [r EXCEPT !.target = v, !.right = x])
               \/ \E v \in Users : CheckAdmin(h, "restrict", [r EXCEPT !.target = v])
               \/ CheckAdmin(h, "delete", r)
        PROVE  \A i \in Handlers : ~Manages(i, s)'
    <2> DEFINE r == [NoRequest EXCEPT !.user = u, !.storage = t]
    <2>1. r \in Requests /\ r.user = u
      BY RequestTypes DEF NoRequest
    <2> HIDE DEF r
    <2>2. \A v \in Users, x \in Rights : [r EXCEPT !.target = v, !.right = x].user = u
      BY <2>1 DEF Requests
    <2>3. \/ \E v \in Users, x \in Rights :
                CheckAdmin(h, "grant", [r EXCEPT !.target = v, !.right = x])
          \/ \E v \in Users : CheckAdmin(h, "restrict", [r EXCEPT !.target = v])
          \/ CheckAdmin(h, "delete", r)
      BY <1>7 DEF r
    <2>4. ASSUME NEW v \in Users, NEW x \in Rights,
                 CheckAdmin(h, "grant", [r EXCEPT !.target = v, !.right = x])
          PROVE  \A i \in Handlers : ~Manages(i, s)'
      <3> DEFINE q == [r EXCEPT !.target = v, !.right = x]
      <3>1. q.user \in Users /\ CheckAdmin(h, "grant", q)
        BY <2>2, <2>4
      <3> HIDE DEF q
      <3> QED
        BY <1>6, <3>1
    <2>5. ASSUME NEW v \in Users, CheckAdmin(h, "restrict", [r EXCEPT !.target = v])
          PROVE  \A i \in Handlers : ~Manages(i, s)'
      <3> DEFINE q == [r EXCEPT !.target = v]
      <3>1. q.user \in Users /\ CheckAdmin(h, "restrict", q)
        BY <2>1, <2>5 DEF Requests
      <3> HIDE DEF q
      <3> QED
        BY <1>6, <3>1
    <2> QED
      BY <1>6, <2>1, <2>3, <2>4, <2>5
  <1>8. \A i \in Handlers : ~Manages(i, s)'
    BY <1>4, <1>5, <1>7 DEF Arrive
  <1> QED
    BY <1>2, <1>8 DEF Abandoned

\* What the handlers under way do concerns other storages.
LEMMA OthersAreManaged ==
    ASSUME TypeOK, NEW s \in Storages, Abandoned(s), NEW h \in Handlers, Handle(h)
    PROVE  Abandoned(s)'
  <1>1. pc[h] \in Managing \cup {"admin", "undo"} => request[h].storage # s
    BY DEF Abandoned, Manages
  <1>2. ASSUME Return(h)
        PROVE  \A i \in Handlers : ~Manages(i, s)'
    BY <1>2 DEF Return, Abandoned, Manages, Managing, TypeOK
  <1>3. ASSUME NEW t, t # s, Remove(t)
        PROVE  Present(s)' /\ ~HasAdmin(s)'
    BY <1>3 DEF Remove, Abandoned, Present, HasAdmin, IsAdmin, TypeOK
  <1>4. ASSUME NEW t, t # s, NEW v, NEW x, UNCHANGED state,
               right' = right \/ right' = [right EXCEPT ![t][v] = x]
        PROVE  Present(s)' /\ ~HasAdmin(s)'
    BY <1>4 DEF Abandoned, Present, HasAdmin, IsAdmin, TypeOK
  <1>5. ASSUME UNCHANGED <<state, right>>
        PROVE  Present(s)' /\ ~HasAdmin(s)'
    BY <1>5 DEF Abandoned, Present, HasAdmin, IsAdmin
  <1>6. CASE InsertStorage(h)
    <2>1. CASE Return(h) /\ UNCHANGED <<state, name>>
      BY <1>2, <1>5, <1>6, <2>1 DEF InsertStorage, Abandoned
    <2>2. ASSUME NEW t \in Storages, state[t] = "free",
                 state' = [state EXCEPT ![t] = "present"],
                 request' = [request EXCEPT ![h].storage = t],
                 pc' = [pc EXCEPT ![h] = "admin"]
          PROVE  Abandoned(s)'
      <3>1. t # s
        BY <2>2 DEF Abandoned, Present
      <3>2. Present(s)' /\ ~HasAdmin(s)'
        BY <1>6, <2>2, <3>1 DEF InsertStorage, Abandoned, Present, HasAdmin, IsAdmin, TypeOK
      <3>3. \A i \in Handlers : ~Manages(i, s)'
        BY <2>2, <3>1 DEF Abandoned, Manages, Managing, TypeOK, Requests
      <3> QED
        BY <3>2, <3>3 DEF Abandoned
    <2> QED
      BY <1>6, <2>1, <2>2 DEF InsertStorage
  <1>7. CASE SetAdmin(h)
    <2>1. request[h].storage # s
      BY <1>1, <1>7 DEF SetAdmin
    <2>2. Present(s)' /\ ~HasAdmin(s)'
      BY <1>4, <1>7, <2>1 DEF SetAdmin
    <2>3. ASSUME Goto(h, "undo")
          PROVE  \A i \in Handlers : ~Manages(i, s)'
      BY <2>1, <2>3 DEF Goto, Abandoned, Manages, Managing, TypeOK
    <2> QED
      BY <1>2, <1>7, <2>2, <2>3 DEF SetAdmin, Abandoned
  <1>8. CASE UndoStorage(h)
    BY <1>1, <1>2, <1>3, <1>5, <1>8 DEF UndoStorage, Abandoned, tables
  <1>9. CASE InsertWorker(h)
    BY <1>2, <1>5, <1>9 DEF InsertWorker, Abandoned
  <1>10. CASE GrantAccess(h)
    BY <1>1, <1>2, <1>4, <1>10 DEF GrantAccess, Abandoned, Managing
  <1>11. CASE RestrictAccess(h)
    BY <1>1, <1>2, <1>4, <1>11 DEF RestrictAccess, Abandoned, Managing
  <1>12. CASE DeleteStorage(h)
    BY <1>1, <1>2, <1>3, <1>5, <1>12 DEF DeleteStorage, Abandoned, Managing, tables
  <1> QED
    BY <1>6, <1>7, <1>8, <1>9, <1>10, <1>11, <1>12 DEF Handle

\* Nothing the API offers ends the state of a storage that nobody administers and no
\* request past its check is about.
THEOREM AbandonedStaysAbandoned == Spec => AbandonedForGood
  <1>1. ASSUME TypeOK, [Next]_vars, NEW s \in Storages, Abandoned(s)
        PROVE  Abandoned(s)'
    <2>1. CASE UNCHANGED vars
      BY <1>1, <2>1 DEF vars, Abandoned, Present, HasAdmin, IsAdmin, Manages
    <2>2. ASSUME NEW h \in Handlers, HangUp(h)
          PROVE  Abandoned(s)'
      BY <1>1, <2>2
         DEF HangUp, tables, Return, Abandoned, Present, HasAdmin, IsAdmin, Manages, Managing,
             TypeOK
    <2> QED
      BY <1>1, <2>1, <2>2, NobodyPassesTheCheck, OthersAreManaged DEF Next
  <1>2. TypeOK /\ [Next]_vars => \A s \in Storages : Abandoned(s) => Abandoned(s)'
    BY <1>1
  <1> QED
    BY <1>2, TypeCorrect, PTL DEF Spec, AbandonedForGood
=============================================================================
