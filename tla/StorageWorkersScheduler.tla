---------------------- MODULE StorageWorkersScheduler ----------------------
(***************************************************************************)
(* How the Bot API calls of one manager job share the bots of a storage.   *)
(* Every call first takes a token: get_token of services/                  *)
(* storage_workers_scheduler.rs loops over the transaction get_token of    *)
(* repositories/storage_workers.rs, which forgets usages older than a      *)
(* minute, picks the least used bot below the limit and records its use.   *)
(*                                                                         *)
(* The transactions run at READ COMMITTED, PostgreSQL's default: each      *)
(* statement sees what was committed when it started, and a DELETE waits   *)
(* for a transaction that is deleting the same rows.  A statement is one   *)
(* step.  Time is the age of things, so that it never runs out.            *)
(***************************************************************************)
EXTENDS Integers, FiniteSets

CONSTANTS
    Calls,        \* Bot API calls of a job; join_all runs them together
    Workers,      \* the storage workers (bots) of the storage
    Usages,       \* ids of rows of storage_workers_usages
    Rate,         \* TELEGRAM_RATE_LIMIT
    Window,       \* "1 minute", in ticks
    Connections,  \* connections in the pool of the manager (WORKERS)
    TxTime,       \* bound on the ticks that pass within a transaction
    QueriesMayFail,
    None          \* no usage, no worker

ASSUME RateAssumption == Rate \in Nat
ASSUME WindowAssumption == Window \in Nat
ASSUME ConnectionsAssumption == Connections \in Nat \ {0}
ASSUME TxTimeAssumption == TxTime \in Nat
ASSUME QueriesMayFailAssumption == QueriesMayFail \in BOOLEAN
ASSUME NoneAssumption == None \notin Usages \cup Workers
ASSUME CallsAssumption == IsFiniteSet(Calls)

\* An age beyond Old is never told apart from Old.
Old == Window + TxTime + 1
Older(age) == IF age < Old THEN age + 1 ELSE Old

VARIABLES
    usages,   \* table storage_workers_usages: id -> [worker, age since dt]
    pc,       \* where a call is
    need,     \* tokens it still needs
    since,    \* age of its transaction: NOW() is the time of BEGIN
    gone,     \* usages its transaction has deleted
    taken,    \* the usage its transaction has inserted, or None
    worker    \* the bot of that usage

transaction == <<since, gone, taken, worker>>
vars == <<usages, pc, need, since, gone, taken, worker>>

Rows == [worker : Workers, age : 0 .. Old]
InTransaction == {"delete", "take", "commit"}
PCs == {"done", "begin", "sleep", "granted"} \cup InTransaction

TypeOK ==
    /\ DOMAIN usages \subseteq Usages
    /\ usages \in [DOMAIN usages -> Rows]
    /\ pc \in [Calls -> PCs]
    /\ need \in [Calls -> 0 .. 2]
    /\ since \in [Calls -> 0 .. TxTime]
    /\ gone \in [Calls -> SUBSET Usages]
    /\ taken \in [Calls -> Usages \cup {None}]
    /\ worker \in [Calls -> Workers \cup {None}]

Init ==
    /\ usages = [u \in {} |-> None]
    /\ pc = [c \in Calls |-> "done"]
    /\ need = [c \in Calls |-> 0]
    /\ since = [c \in Calls |-> 0]
    /\ gone = [c \in Calls |-> {}]
    /\ taken = [c \in Calls |-> None]
    /\ worker = [c \in Calls |-> None]

Open == {c \in Calls : pc[c] \in InTransaction}

Goto(c, where) == pc' = [pc EXCEPT ![c] = where]

\* The transaction of c is over: nothing of it is pending.
Close(c) ==
    /\ since' = [since EXCEPT ![c] = 0]
    /\ gone' = [gone EXCEPT ![c] = {}]
    /\ taken' = [taken EXCEPT ![c] = None]
    /\ worker' = [worker EXCEPT ![c] = None]

-----------------------------------------------------------------------------
\* The manager starts the calls S of its next job when the last one is through:
\* an upload or deletion takes one token per call, a download two.
StartJob(S, tokens) ==
    /\ \A c \in Calls : pc[c] = "done"
    /\ pc' = [c \in Calls |-> IF c \in S THEN "begin" ELSE "done"]
    /\ need' = [c \in Calls |-> IF c \in S THEN tokens ELSE 0]
    /\ UNCHANGED <<usages, transaction>>

\* self.db.begin() waits for a connection of the pool.
Begin(c) ==
    /\ pc[c] = "begin"
    /\ Cardinality(Open) < Connections
    /\ Goto(c, "delete")
    /\ UNCHANGED <<usages, need, transaction>>

\* Mutants of Expired: <= for <; the DELETE is left out.
ExpiredOnTime(c) == {u \in DOMAIN usages : usages[u].age >= since[c] + Window}
NeverExpired(c) == {}

\* dt < NOW() - INTERVAL '1 minute'
Expired(c) == {u \in DOMAIN usages : usages[u].age > since[c] + Window}

DeleteOld(c) ==
    /\ pc[c] = "delete"
    /\ \A o \in Calls \ {c} : gone[o] \cap Expired(c) = {}
    /\ gone' = [gone EXCEPT ![c] = Expired(c)]
    /\ Goto(c, "take")
    /\ UNCHANGED <<usages, need, since, taken, worker>>

UsagesSeen(c, w) == {u \in DOMAIN usages \ gone[c] : usages[u].worker = w}

Count(c, w) == Cardinality(UsagesSeen(c, w))

\* Mutant of Below: <= for <.
BelowOrAt(c) == {w \in Workers : Count(c, w) <= Rate}

\* HAVING COUNT(swu.id) < limit
Below(c) == {w \in Workers : Count(c, w) < Rate}

FreshIds == Usages \ (DOMAIN usages \cup {taken[o] : o \in Calls})

\* The INSERT ... SELECT: the least used worker below the limit gets a usage, dated
\* with the start of the transaction; without one, no row is inserted.
Take(c) ==
    /\ pc[c] = "take"
    /\ \/ /\ FreshIds # {}
          /\ \E w \in Below(c) :
                /\ \A v \in Below(c) : Count(c, w) <= Count(c, v)
                /\ worker' = [worker EXCEPT ![c] = w]
          /\ taken' = [taken EXCEPT ![c] = CHOOSE u \in FreshIds : TRUE]
       \/ /\ Below(c) = {}
          /\ UNCHANGED <<taken, worker>>
    /\ Goto(c, "commit")
    /\ UNCHANGED <<usages, need, since, gone>>

\* The table once the transaction of c is committed.
Committed(c) ==
    [u \in (DOMAIN usages \ gone[c]) \cup ({taken[c]} \ {None}) |->
        IF u = taken[c] THEN [worker |-> worker[c], age |-> since[c]] ELSE usages[u]]

\* transaction.commit(): a token, or None and a sleep of one second.
Commit(c) ==
    /\ pc[c] = "commit"
    /\ usages' = Committed(c)
    /\ IF taken[c] = None
       THEN Goto(c, "sleep") /\ UNCHANGED need
       ELSE Goto(c, "granted") /\ need' = [need EXCEPT ![c] = @ - 1]
    /\ Close(c)

\* Mutant of Use: every answer is followed by one more token.
UseAgain(c) ==
    /\ pc[c] = "granted"
    /\ Goto(c, "begin")
    /\ UNCHANGED <<usages, need, transaction>>

\* The HTTP request with the token; a download then asks for its second token,
\* unless the first request failed.
Use(c) ==
    /\ pc[c] = "granted"
    /\ \/ need[c] > 0 /\ Goto(c, "begin") /\ UNCHANGED need
       \/ Goto(c, "done") /\ need' = [need EXCEPT ![c] = 0]
    /\ UNCHANGED <<usages, transaction>>

\* No connection in time, or a failed statement: rollback, and the call fails.
Fail(c) ==
    /\ QueriesMayFail
    /\ pc[c] \in {"begin"} \cup InTransaction
    /\ Goto(c, "done")
    /\ need' = [need EXCEPT ![c] = 0]
    /\ Close(c)
    /\ UNCHANGED usages

\* The commit took place but its answer was lost.
FailAfterCommit(c) ==
    /\ QueriesMayFail
    /\ pc[c] = "commit"
    /\ usages' = Committed(c)
    /\ Goto(c, "done")
    /\ need' = [need EXCEPT ![c] = 0]
    /\ Close(c)

\* The process dies: open transactions are rolled back, the table stays.
Crash ==
    /\ pc' = [c \in Calls |-> "done"]
    /\ need' = [c \in Calls |-> 0]
    /\ since' = [c \in Calls |-> 0]
    /\ gone' = [c \in Calls |-> {}]
    /\ taken' = [c \in Calls |-> None]
    /\ worker' = [c \in Calls |-> None]
    /\ UNCHANGED usages

\* Time passes, at most TxTime ticks while a transaction is open.  A tick is no longer
\* than the sleep of one second: who sleeps tries again only after one.
Tick ==
    /\ \A c \in Open : since[c] < TxTime
    /\ usages' = [u \in DOMAIN usages |-> [usages[u] EXCEPT !.age = Older(@)]]
    /\ since' = [c \in Calls |-> IF c \in Open THEN since[c] + 1 ELSE since[c]]
    /\ pc' = [c \in Calls |-> IF pc[c] = "sleep" THEN "begin" ELSE pc[c]]
    /\ UNCHANGED <<need, gone, taken, worker>>

Call(c) ==
    \/ Begin(c) \/ DeleteOld(c) \/ Take(c) \/ Commit(c)
    \/ Use(c) \/ Fail(c) \/ FailAfterCommit(c)

Next ==
    \/ \E S \in (SUBSET Calls) \ {{}}, tokens \in 1 .. 2 : StartJob(S, tokens)
    \/ \E c \in Calls : Call(c)
    \/ Crash
    \/ Tick

Spec == Init /\ [][Next]_vars

\* Time passes whatever is open; tokio polls every call; the pool and the row locks
\* of PostgreSQL serve those who wait in the order they came; every statement ends.
Fairness ==
    /\ SF_vars(Tick)
    /\ \A c \in Calls : /\ SF_vars(Begin(c)) /\ SF_vars(DeleteOld(c))
                        /\ WF_vars(Take(c)) /\ WF_vars(Commit(c)) /\ WF_vars(Use(c))

FairSpec == Spec /\ Fairness

-----------------------------------------------------------------------------
\* The usages of w that a minute has not made worthless.
Recent(w) == {u \in DOMAIN usages : usages[u].worker = w /\ usages[u].age <= Window}

\* However the transactions of a job interleave, a bot has at most Rate - 1 usages
\* in a minute plus one for each connection of the pool: the transactions that
\* count before the others commit (repositories/storage_workers.rs, lines 118-145).
UsagesBounded ==
    \A w \in Workers : Cardinality(Recent(w)) <= Rate - 1 + Connections

\* A usage leaves the table only when it is more than a minute old, however long
\* the transaction that deletes it was open: no use is forgotten too early.
ForgottenOnlyWhenOld ==
    [][\A u \in DOMAIN usages \ DOMAIN usages' : usages[u].age > Window]_vars

\* "Manages storage workers by limiting their usage" (services/
\* storage_workers_scheduler.rs:9): a bot is used at most Rate times a minute.
WithinRate == \A w \in Workers : Cardinality(Recent(w)) <= Rate

\* Every Bot API call of a job ends: it gets its tokens, however many others want
\* the same bots, or fails.
EveryCallEnds == \A c \in Calls : pc[c] # "done" ~> pc[c] = "done"
=============================================================================
