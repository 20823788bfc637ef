------------------- MODULE StorageWorkersSchedulerProofs -------------------
(* Theorems about StorageWorkersScheduler for every value of its constants. *)
EXTENDS StorageWorkersScheduler, FiniteSetTheorems, TLAPS

(***************************************************************************)
(* A transaction holds something only while it is open, and only what it   *)
(* may hold: usages it will delete are old, a usage it inserts is new.     *)
(***************************************************************************)
Transaction(c) ==
    /\ pc[c] \in {"begin", "sleep"} \cup InTransaction => need[c] > 0
    /\ pc[c] \notin InTransaction => since[c] = 0 /\ gone[c] = {}
    /\ taken[c] # None => pc[c] = "commit" /\ worker[c] \in Workers
    /\ gone[c] \subseteq DOMAIN usages
    /\ \A u \in gone[c] : usages[u].age > Window

\* Two transactions never delete the same row: the second waits for the first.
RowLocks == \A c, d \in Calls : c # d => gone[c] \cap gone[d] = {}

NewIds ==
    \A c \in Calls : taken[c] # None =>
        /\ taken[c] \notin DOMAIN usages
        /\ \A d \in Calls : taken[d] = taken[c] => d = c

\* Usages of w that are inserted and not yet committed, by the calls that did it.
Pending(w) == {c \in Calls : taken[c] # None /\ worker[c] = w}

\* Committed and pending usages together stay within the bound, because a call
\* inserts only when it sees fewer than Rate, and the other open transactions are
\* fewer than the connections.
Bounded ==
    \A w \in Workers :
        Cardinality(Recent(w)) + Cardinality(Pending(w)) <= Rate - 1 + Connections

IInv ==
    /\ TypeOK
    /\ \A c \in Calls : Transaction(c)
    /\ NewIds
    /\ RowLocks
    /\ IsFiniteSet(DOMAIN usages)
    /\ Cardinality(Open) <= Connections
    /\ Bounded

AllAssumptions ==
    /\ Rate \in Nat
    /\ Window \in Nat
    /\ Connections \in Nat \ {0}
    /\ TxTime \in Nat
    /\ None \notin Usages \cup Workers
    /\ IsFiniteSet(Calls)

\* The assumptions on the constants, under one name.
LEMMA Assumptions == AllAssumptions
BY RateAssumption, WindowAssumption, ConnectionsAssumption, TxTimeAssumption,
   NoneAssumption, CallsAssumption
DEF AllAssumptions

\* The sets the bound speaks of are finite, so that their sizes are numbers.
LEMMA Finite ==
    ASSUME IsFiniteSet(DOMAIN usages)
    PROVE  /\ IsFiniteSet(Open) /\ Cardinality(Open) \in Nat
           /\ \A w : IsFiniteSet(Recent(w)) /\ Cardinality(Recent(w)) \in Nat
           /\ \A w : IsFiniteSet(Pending(w)) /\ Cardinality(Pending(w)) \in Nat
<1>1. IsFiniteSet(Open) /\ Cardinality(Open) \in Nat
  BY Assumptions, FS_Subset, FS_CardinalityType DEF AllAssumptions, Open
<1>2. ASSUME NEW w PROVE IsFiniteSet(Recent(w)) /\ Cardinality(Recent(w)) \in Nat
  BY FS_Subset, FS_CardinalityType DEF Recent
<1>3. ASSUME NEW w PROVE IsFiniteSet(Pending(w)) /\ Cardinality(Pending(w)) \in Nat
  BY Assumptions, FS_Subset, FS_CardinalityType DEF AllAssumptions, Pending
<1> QED
  BY <1>1, <1>2, <1>3

\* The start: an empty table and no transaction.
LEMMA InitIInv == Init => IInv
<1> SUFFICES ASSUME Init PROVE IInv
  OBVIOUS
<1> USE Assumptions DEF AllAssumptions
<1>1. DOMAIN usages = {}
  BY DEF Init
<1>2. TypeOK
  BY <1>1 DEF Init, TypeOK, PCs
<1>3. Open = {}
  BY DEF Init, Open, InTransaction
<1>4. \A w : Recent(w) = {} /\ Pending(w) = {}
  BY <1>1 DEF Init, Recent, Pending
<1>5. Cardinality({}) = 0 /\ IsFiniteSet({})
  BY FS_EmptySet
<1>6. Bounded
  <2>1. ASSUME NEW w \in Workers
        PROVE  Cardinality(Recent(w)) = 0 /\ Cardinality(Pending(w)) = 0
    BY <1>4, <1>5
  <2> QED
    BY <2>1 DEF Bounded
<1>7. \A c \in Calls : Transaction(c)
  BY <1>1 DEF Init, Transaction, InTransaction
<1>8. NewIds
  BY DEF Init, NewIds
<1>9. RowLocks
  BY DEF Init, RowLocks
<1>10. Cardinality(Open) <= Connections
  BY <1>3, <1>5
<1> QED
  BY <1>1, <1>2, <1>5, <1>6, <1>7, <1>8, <1>9, <1>10 DEF IInv

-----------------------------------------------------------------------------
\* Usages that grow old, are rolled back or deleted never break the bound.
LEMMA BoundedByLess ==
    ASSUME IsFiniteSet(DOMAIN usages), Bounded,
           \A w \in Workers : Recent(w)' \subseteq Recent(w) /\ Pending(w)' \subseteq Pending(w)
    PROVE  Bounded'
<1> SUFFICES ASSUME NEW w \in Workers
             PROVE  Cardinality(Recent(w)') + Cardinality(Pending(w)') <= Rate - 1 + Connections
  BY DEF Bounded
<1>1. /\ IsFiniteSet(Recent(w)) /\ Cardinality(Recent(w)) \in Nat
      /\ IsFiniteSet(Pending(w)) /\ Cardinality(Pending(w)) \in Nat
  BY Finite
<1>2. /\ Cardinality(Recent(w)') \in Nat
      /\ Cardinality(Recent(w)') <= Cardinality(Recent(w))
  BY <1>1, FS_Subset, FS_CardinalityType
<1>3. /\ Cardinality(Pending(w)') \in Nat
      /\ Cardinality(Pending(w)') <= Cardinality(Pending(w))
  BY <1>1, FS_Subset, FS_CardinalityType
<1>4. Cardinality(Recent(w)) + Cardinality(Pending(w)) <= Rate - 1 + Connections
  BY DEF Bounded
<1> QED
  BY <1>1, <1>2, <1>3, <1>4, Assumptions DEF AllAssumptions

\* No more transactions than before are not more than the connections.
LEMMA OpenByLess ==
    ASSUME IsFiniteSet(Open), Cardinality(Open) \in Nat, Cardinality(Open) <= Connections,
           Open' \subseteq Open
    PROVE  Cardinality(Open') <= Connections
<1>1. Cardinality(Open') \in Nat /\ Cardinality(Open') <= Cardinality(Open)
  BY FS_Subset, FS_CardinalityType
<1> QED
  BY <1>1, Assumptions DEF AllAssumptions

\* Every step keeps the types.
LEMMA StepTypeOK == TypeOK /\ (\A c \in Calls : Transaction(c)) /\ [Next]_vars => TypeOK'
<1> SUFFICES ASSUME TypeOK, \A c \in Calls : Transaction(c), [Next]_vars
             PROVE  TypeOK'
  OBVIOUS
<1> USE Assumptions DEF AllAssumptions
<1>0. UNCHANGED usages => (DOMAIN usages)' = DOMAIN usages
  OBVIOUS
<1>1. ASSUME NEW S \in SUBSET Calls, NEW tokens \in 1 .. 2, StartJob(S, tokens) PROVE TypeOK'
  BY <1>0, <1>1 DEF StartJob, transaction, TypeOK, PCs
<1>2. ASSUME NEW c \in Calls, Begin(c) PROVE TypeOK'
  BY <1>0, <1>2 DEF Begin, Goto, transaction, TypeOK, PCs, InTransaction
<1>3. ASSUME NEW c \in Calls, DeleteOld(c) PROVE TypeOK'
  <2>1. Expired(c) \in SUBSET Usages
    BY DEF Expired, TypeOK
  <2> QED
    BY <1>0, <1>3, <2>1 DEF DeleteOld, Goto, TypeOK, PCs, InTransaction
<1>4. ASSUME NEW c \in Calls, Take(c) PROVE TypeOK'
  <2>1. FreshIds # {} => (CHOOSE u \in FreshIds : TRUE) \in Usages
    BY DEF FreshIds
  <2>2. taken' \in [Calls -> Usages \cup {None}] /\ worker' \in [Calls -> Workers \cup {None}]
    BY <1>4, <2>1 DEF Take, Below, TypeOK
  <2> QED
    BY <1>0, <1>4, <2>2 DEF Take, Goto, TypeOK, PCs, InTransaction
<1>5. ASSUME NEW c \in Calls, pc[c] = "commit" PROVE /\ DOMAIN Committed(c) \subseteq Usages
                                                   /\ Committed(c) \in [DOMAIN Committed(c) -> Rows]
  <2>1. since[c] \in 0 .. Old
    BY DEF TypeOK, Old
  <2>2. taken[c] # None => worker[c] \in Workers
    BY DEF Transaction
  <2> QED
    BY <2>1, <2>2 DEF Committed, Rows, TypeOK
<1>6. ASSUME NEW c \in Calls, Close(c)
      PROVE  /\ since' \in [Calls -> 0 .. TxTime]
             /\ gone' \in [Calls -> SUBSET Usages]
             /\ taken' \in [Calls -> Usages \cup {None}]
             /\ worker' \in [Calls -> Workers \cup {None}]
  BY <1>6 DEF Close, TypeOK
<1>7. ASSUME NEW c \in Calls, Commit(c) PROVE TypeOK'
  <2>1. need[c] - 1 \in 0 .. 2
    BY <1>7 DEF Commit, Transaction, InTransaction, TypeOK
  <2>2. pc' \in [Calls -> PCs] /\ need' \in [Calls -> 0 .. 2]
    BY <1>7, <2>1 DEF Commit, Goto, TypeOK, PCs
  <2> QED
    BY <1>5, <1>6, <1>7, <2>2 DEF Commit, TypeOK
<1>8. ASSUME NEW c \in Calls, Use(c) PROVE TypeOK'
  BY <1>0, <1>8 DEF Use, Goto, transaction, TypeOK, PCs
<1>9. ASSUME NEW c \in Calls, Fail(c) PROVE TypeOK'
  BY <1>0, <1>6, <1>9 DEF Fail, Goto, TypeOK, PCs
<1>10. ASSUME NEW c \in Calls, FailAfterCommit(c) PROVE TypeOK'
  BY <1>5, <1>6, <1>10 DEF FailAfterCommit, Goto, TypeOK, PCs
<1>11. CASE Crash
  BY <1>0, <1>11 DEF Crash, TypeOK, PCs
<1>12. CASE Tick
  <2>1. usages' \in [DOMAIN usages -> Rows] /\ DOMAIN usages' = DOMAIN usages
    BY <1>12 DEF Tick, Rows, Older, Old, TypeOK
  <2>2. since' \in [Calls -> 0 .. TxTime]
    BY <1>12 DEF Tick, TypeOK
  <2>3. pc' \in [Calls -> PCs]
    BY <1>12 DEF Tick, TypeOK, PCs
  <2> QED
    BY <1>12, <2>1, <2>2, <2>3 DEF Tick, TypeOK
<1>13. CASE UNCHANGED vars
  BY <1>0, <1>13 DEF vars, TypeOK
<1> QED
  BY <1>1, <1>2, <1>3, <1>4, <1>7, <1>8, <1>9, <1>10, <1>11, <1>12, <1>13
  DEF Next, Call

\* Every step keeps transactions clean and ids unique.
LEMMA StepTransactions ==
    ASSUME TypeOK, \A c \in Calls : Transaction(c), NewIds, RowLocks, [Next]_vars
    PROVE  (\A c \in Calls : Transaction(c)') /\ NewIds' /\ RowLocks'
<1> DEFINE Goal == (\A c \in Calls : Transaction(c)') /\ NewIds' /\ RowLocks'
<1> USE Assumptions DEF AllAssumptions
<1>0. UNCHANGED usages => (DOMAIN usages)' = DOMAIN usages
  OBVIOUS
<1>1. ASSUME NEW S \in SUBSET Calls, NEW tokens \in 1 .. 2, StartJob(S, tokens) PROVE Goal
  BY <1>0, <1>1 DEF StartJob, transaction, TypeOK, Transaction, NewIds, RowLocks, InTransaction
<1>2. ASSUME NEW c \in Calls, Begin(c) PROVE Goal
  BY <1>0, <1>2 DEF Begin, Goto, transaction, TypeOK, Transaction, NewIds, RowLocks, InTransaction
<1>3. ASSUME NEW c \in Calls, DeleteOld(c) PROVE Goal
  <2>1. Expired(c) \subseteq DOMAIN usages /\ \A u \in Expired(c) : usages[u].age > Window
    BY DEF Expired, TypeOK, Rows
  <2>2. \A d \in Calls : Transaction(d)'
    BY <1>0, <1>3, <2>1 DEF DeleteOld, Goto, TypeOK, Transaction, InTransaction
  <2> QED
    BY <1>0, <1>3, <2>2 DEF DeleteOld, NewIds, RowLocks, TypeOK
<1>4. ASSUME NEW c \in Calls, Take(c) PROVE Goal
  <2>1. taken' = taken \/ \E u \in FreshIds : taken' = [taken EXCEPT ![c] = u]
    BY <1>4 DEF Take
  <2>2. \A u \in FreshIds : u # None /\ u \notin DOMAIN usages /\ \A d \in Calls : taken[d] # u
    BY DEF FreshIds
  <2>3. taken[c] = None
    BY <1>4 DEF Take, Transaction
  <2>4. NewIds'
    BY <1>0, <1>4, <2>1, <2>2 DEF Take, NewIds, TypeOK
  <2>5. taken'[c] # None => worker'[c] \in Workers
    BY <1>4, <2>3 DEF Take, Below, TypeOK
  <2>6. \A d \in Calls \ {c} : taken'[d] = taken[d] /\ worker'[d] = worker[d]
    BY <1>4 DEF Take, TypeOK
  <2>7. \A d \in Calls : Transaction(d)'
    BY <1>0, <1>4, <2>5, <2>6 DEF Take, Goto, TypeOK, Transaction, InTransaction
  <2> QED
    BY <1>4, <2>4, <2>7 DEF Take, RowLocks
<1>5. ASSUME NEW c \in Calls, pc[c] \in InTransaction, Close(c),
             usages' = usages \/ usages' = Committed(c),
             \/ UNCHANGED need /\ pc' = [pc EXCEPT ![c] = "sleep"]
             \/ \E n : need' = [need EXCEPT ![c] = n] /\ pc' = [pc EXCEPT ![c] = "granted"]
             \/ \E n : need' = [need EXCEPT ![c] = n] /\ pc' = [pc EXCEPT ![c] = "done"]
      PROVE  Goal
  <2>1. ASSUME NEW u \in DOMAIN usages'
        PROVE  \/ u \in DOMAIN usages /\ usages'[u] = usages[u]
               \/ u = taken[c] /\ taken[c] # None
    <3>1. CASE usages' = Committed(c)
      <4>1. u \in (DOMAIN usages \ gone[c]) \cup ({taken[c]} \ {None})
        BY <3>1 DEF Committed
      <4>2. u # taken[c] => usages'[u] = usages[u]
        BY <3>1, <4>1 DEF Committed
      <4> QED
        BY <4>1, <4>2, None \notin Usages DEF TypeOK
    <3> QED
      BY <1>5, <3>1
  <2>2. ASSUME NEW u \in DOMAIN usages \ gone[c]
        PROVE  u \in DOMAIN usages' /\ usages'[u] = usages[u]
    <3>1. u # taken[c]
      BY DEF NewIds, TypeOK
    <3>2. u \in DOMAIN Committed(c) /\ Committed(c)[u] = usages[u]
      BY <3>1 DEF Committed
    <3> QED
      BY <1>5, <3>2
  <2>3. NewIds'
    BY <1>5, <2>1 DEF Close, NewIds, TypeOK
  <2>4. ASSUME NEW d \in Calls \ {c} PROVE Transaction(d)'
    <3>1. /\ gone'[d] = gone[d] /\ taken'[d] = taken[d] /\ worker'[d] = worker[d]
          /\ pc'[d] = pc[d] /\ since'[d] = since[d] /\ need'[d] = need[d]
      BY <1>5 DEF Close, TypeOK
    <3>2. gone[d] \subseteq DOMAIN usages \ gone[c]
      BY DEF Transaction, RowLocks
    <3> QED
      BY <2>2, <3>1, <3>2 DEF Transaction
  <2>5. Transaction(c)'
    BY <1>5 DEF Close, Transaction, TypeOK, InTransaction
  <2>6. RowLocks'
    BY <1>5 DEF Close, RowLocks, TypeOK
  <2> QED
    BY <2>3, <2>4, <2>5, <2>6
<1>6. ASSUME NEW c \in Calls, Commit(c) PROVE Goal
  BY <1>5, <1>6 DEF Commit, Goto, InTransaction
<1>7. ASSUME NEW c \in Calls, Use(c) PROVE Goal
  BY <1>0, <1>7 DEF Use, Goto, transaction, TypeOK, Transaction, NewIds, RowLocks, InTransaction
<1>8. ASSUME NEW c \in Calls, Fail(c) PROVE Goal
  BY <1>0, <1>5, <1>8 DEF Fail, Goto, Close, TypeOK, Transaction, NewIds, RowLocks, InTransaction
<1>9. ASSUME NEW c \in Calls, FailAfterCommit(c) PROVE Goal
  BY <1>5, <1>9 DEF FailAfterCommit, Goto, InTransaction
<1>10. CASE Crash
  BY <1>0, <1>10 DEF Crash, Transaction, NewIds, RowLocks, InTransaction
<1>11. CASE Tick
  <2>1. /\ DOMAIN usages' = DOMAIN usages
        /\ \A u \in DOMAIN usages : usages[u].age > Window => usages'[u].age > Window
    BY <1>11 DEF Tick, Older, Old, TypeOK, Rows
  <2>2. NewIds'
    BY <1>11, <2>1 DEF Tick, NewIds
  <2>3. ASSUME NEW d \in Calls PROVE Transaction(d)'
    BY <1>11, <2>1 DEF Tick, Open, Transaction, TypeOK, InTransaction
  <2> QED
    BY <1>11, <2>2, <2>3 DEF Tick, RowLocks
<1>12. CASE UNCHANGED vars
  BY <1>0, <1>12 DEF vars, Transaction, NewIds, RowLocks
<1> QED
  BY <1>1, <1>2, <1>3, <1>4, <1>6, <1>7, <1>8, <1>9, <1>10, <1>11, <1>12 DEF Next, Call

\* The pool never lends more connections than it has.
LEMMA StepOpen ==
    ASSUME IInv, [Next]_vars
    PROVE  Cardinality(Open)' <= Connections
<1> USE Assumptions DEF AllAssumptions
<1>0. IsFiniteSet(Open) /\ Cardinality(Open) \in Nat /\ Cardinality(Open) <= Connections
  BY Finite DEF IInv
<1>1. ASSUME Open' \subseteq Open PROVE Cardinality(Open)' <= Connections
  BY <1>0, <1>1, OpenByLess
<1>2. ASSUME NEW S \in SUBSET Calls, NEW tokens \in 1 .. 2, StartJob(S, tokens)
      PROVE  Open' \subseteq Open
  BY <1>2 DEF StartJob, Open, InTransaction
<1>3. ASSUME NEW c \in Calls, Begin(c) PROVE Cardinality(Open)' <= Connections
  <2>1. Open' = Open \cup {c} /\ c \notin Open
    BY <1>3 DEF Begin, Goto, Open, InTransaction, IInv, TypeOK
  <2>2. Cardinality(Open') = Cardinality(Open) + 1
    BY <1>0, <2>1, FS_AddElement
  <2> QED
    BY <1>0, <1>3, <2>2 DEF Begin
<1>4. ASSUME NEW c \in Calls, Call(c), ~Begin(c) PROVE Open' \subseteq Open
  BY <1>4
  DEF Call, DeleteOld, Take, Commit, Use, Fail, FailAfterCommit, Goto, Open, InTransaction,
      IInv, TypeOK
<1>5. CASE Crash
  BY <1>1, <1>5 DEF Crash, Open, InTransaction
<1>6. CASE Tick
  BY <1>1, <1>6 DEF Tick, Open, InTransaction
<1>7. CASE UNCHANGED vars
  BY <1>1, <1>7 DEF vars, Open
<1> QED
  BY <1>1, <1>2, <1>3, <1>4, <1>5, <1>6, <1>7 DEF Next

\* The table stays finite.
LEMMA StepFinite ==
    ASSUME IInv, [Next]_vars
    PROVE  IsFiniteSet(DOMAIN usages')
<1>0. IsFiniteSet(DOMAIN usages)
  BY DEF IInv
<1>1. \A c \in Calls : DOMAIN Committed(c) \subseteq DOMAIN usages \cup {taken[c]}
  BY DEF Committed
<1>2. \/ DOMAIN usages' = DOMAIN usages
      \/ \E c \in Calls : usages' = Committed(c)
  BY DEF Next, Call, StartJob, Begin, DeleteOld, Take, Commit, Use, Fail, FailAfterCommit,
         Crash, Tick, vars
<1>3. \A c \in Calls : IsFiniteSet(DOMAIN usages \cup {taken[c]})
  BY <1>0, FS_AddElement
<1>4. ASSUME NEW c \in Calls, usages' = Committed(c) PROVE IsFiniteSet(DOMAIN usages')
  BY <1>1, <1>3, <1>4, FS_Subset
<1> QED
  BY <1>0, <1>2, <1>4

\* A call that inserts a usage of w saw fewer than Rate, and all recent ones.
LEMMA RecentIsSeen ==
    ASSUME IInv, NEW c \in Calls, NEW w \in Workers, w \in Below(c)
    PROVE  Cardinality(Recent(w)) <= Rate - 1
<1> USE Assumptions DEF AllAssumptions
<1>1. Recent(w) \subseteq UsagesSeen(c, w)
  BY DEF Recent, UsagesSeen, IInv, Transaction, TypeOK, Rows
<1>2. IsFiniteSet(UsagesSeen(c, w)) /\ Cardinality(UsagesSeen(c, w)) \in Nat
  BY FS_Subset, FS_CardinalityType DEF UsagesSeen, IInv
<1>3. Cardinality(Recent(w)) \in Nat /\ Cardinality(Recent(w)) <= Cardinality(UsagesSeen(c, w))
  BY <1>1, <1>2, FS_Subset, FS_CardinalityType
<1>4. Cardinality(UsagesSeen(c, w)) < Rate
  BY DEF Below, Count
<1> QED
  BY <1>2, <1>3, <1>4

\* The insert: the other transactions with a pending usage have each a connection.
LEMMA TakeBounded ==
    ASSUME IInv, NEW c \in Calls, Take(c)
    PROVE  Bounded'
<1> USE Assumptions DEF AllAssumptions
<1> SUFFICES ASSUME NEW w \in Workers
             PROVE  Cardinality(Recent(w)') + Cardinality(Pending(w)') <= Rate - 1 + Connections
  BY DEF Bounded
<1>1. /\ IsFiniteSet(Recent(w)) /\ Cardinality(Recent(w)) \in Nat
      /\ IsFiniteSet(Pending(w)) /\ Cardinality(Pending(w)) \in Nat
      /\ IsFiniteSet(Open) /\ Cardinality(Open) \in Nat
  BY Finite DEF IInv
<1>2. Recent(w)' = Recent(w)
  BY DEF Take, Recent
<1>3. Cardinality(Recent(w)) + Cardinality(Pending(w)) <= Rate - 1 + Connections
  BY DEF IInv, Bounded
<1>4. taken[c] = None /\ c \in Open
  BY DEF IInv, Transaction, Take, Open, InTransaction
<1>5. CASE UNCHANGED taken
  <2>1. Pending(w)' \subseteq Pending(w)
    BY <1>4, <1>5 DEF Pending, Take, IInv, TypeOK
  <2>2. Cardinality(Pending(w)') \in Nat /\ Cardinality(Pending(w)') <= Cardinality(Pending(w))
    BY <1>1, <2>1, FS_Subset, FS_CardinalityType
  <2> QED
    BY <1>1, <1>2, <1>3, <2>2
<1>6. CASE worker'[c] # w
  <2>1. Pending(w)' \subseteq Pending(w)
    BY <1>4, <1>6 DEF Pending, Take, IInv, TypeOK
  <2>2. Cardinality(Pending(w)') \in Nat /\ Cardinality(Pending(w)') <= Cardinality(Pending(w))
    BY <1>1, <2>1, FS_Subset, FS_CardinalityType
  <2> QED
    BY <1>1, <1>2, <1>3, <2>2
<1>7. CASE worker'[c] = w /\ ~UNCHANGED taken
  <2>1. w \in Below(c)
    BY <1>7 DEF Take, IInv, TypeOK
  <2>2. Cardinality(Recent(w)) <= Rate - 1
    BY <2>1, RecentIsSeen
  <2>3. Pending(w)' \subseteq Open
    BY <1>4 DEF Pending, Take, Open, InTransaction, IInv, Transaction, TypeOK
  <2>4. Cardinality(Pending(w)') \in Nat /\ Cardinality(Pending(w)') <= Cardinality(Open)
    BY <1>1, <2>3, FS_Subset, FS_CardinalityType
  <2> QED
    BY <1>1, <1>2, <2>2, <2>4 DEF IInv
<1> QED
  BY <1>5, <1>6, <1>7

\* The commit: the usage that was pending is now in the table.
LEMMA CommitBounded ==
    ASSUME IInv, NEW c \in Calls, pc[c] = "commit", usages' = Committed(c), Close(c)
    PROVE  Bounded'
<1> USE Assumptions DEF AllAssumptions
<1> SUFFICES ASSUME NEW w \in Workers
             PROVE  Cardinality(Recent(w)') + Cardinality(Pending(w)') <= Rate - 1 + Connections
  BY DEF Bounded
<1>1. /\ IsFiniteSet(Recent(w)) /\ Cardinality(Recent(w)) \in Nat
      /\ IsFiniteSet(Pending(w)) /\ Cardinality(Pending(w)) \in Nat
  BY Finite DEF IInv
<1>2. Cardinality(Recent(w)) + Cardinality(Pending(w)) <= Rate - 1 + Connections
  BY DEF IInv, Bounded
<1>3. Pending(w)' = Pending(w) \ {c}
  BY DEF Close, Pending, IInv, TypeOK
<1>4. ASSUME NEW u \in Recent(w)'
      PROVE  u \in Recent(w) \/ (u = taken[c] /\ taken[c] # None /\ worker[c] = w)
  <2>1. /\ u \in DOMAIN Committed(c)
        /\ Committed(c)[u].worker = w
        /\ Committed(c)[u].age <= Window
    BY DEF Recent
  <2>2. u \in (DOMAIN usages \ gone[c]) \cup ({taken[c]} \ {None})
    BY <2>1 DEF Committed
  <2>3. CASE u = taken[c]
    <3>1. Committed(c)[u].worker = worker[c]
      BY <2>2, <2>3 DEF Committed
    <3> QED
      BY <2>1, <2>2, <2>3, <3>1, None \notin Usages DEF IInv, TypeOK
  <2>4. CASE u # taken[c]
    <3>1. Committed(c)[u] = usages[u]
      BY <2>2, <2>4 DEF Committed
    <3> QED
      BY <2>1, <2>2, <2>4, <3>1 DEF Recent
  <2> QED
    BY <2>3, <2>4
<1>5. CASE c \in Pending(w)
  <2>1. Cardinality(Pending(w)') = Cardinality(Pending(w)) - 1
    BY <1>1, <1>3, <1>5, FS_RemoveElement
  <2>2. Recent(w)' \subseteq Recent(w) \cup {taken[c]}
    BY <1>4
  <2>3. /\ IsFiniteSet(Recent(w) \cup {taken[c]})
        /\ Cardinality(Recent(w) \cup {taken[c]}) \in Nat
        /\ Cardinality(Recent(w) \cup {taken[c]}) <= Cardinality(Recent(w)) + 1
    <3>1. /\ IsFiniteSet(Recent(w) \cup {taken[c]})
          /\ \/ Cardinality(Recent(w) \cup {taken[c]}) = Cardinality(Recent(w))
             \/ Cardinality(Recent(w) \cup {taken[c]}) = Cardinality(Recent(w)) + 1
      BY <1>1, FS_AddElement
    <3> QED
      BY <1>1, <3>1
  <2>4. /\ Cardinality(Recent(w)') \in Nat
        /\ Cardinality(Recent(w)') <= Cardinality(Recent(w) \cup {taken[c]})
    BY <2>2, <2>3, FS_Subset, FS_CardinalityType
  <2> QED
    BY <1>1, <1>2, <2>1, <2>3, <2>4
<1>6. CASE c \notin Pending(w)
  <2>1. Recent(w)' \subseteq Recent(w) /\ Pending(w)' \subseteq Pending(w)
    BY <1>3, <1>4, <1>6 DEF Pending
  <2>2. /\ Cardinality(Recent(w)') \in Nat /\ Cardinality(Recent(w)') <= Cardinality(Recent(w))
        /\ Cardinality(Pending(w)') \in Nat /\ Cardinality(Pending(w)') <= Cardinality(Pending(w))
    BY <1>1, <2>1, FS_Subset, FS_CardinalityType
  <2> QED
    BY <1>1, <1>2, <2>2
<1> QED
  BY <1>5, <1>6

\* Every step keeps the bound: only an insert uses it up.
LEMMA StepBounded ==
    ASSUME IInv, [Next]_vars
    PROVE  Bounded'
<1> USE Assumptions DEF AllAssumptions
<1>0. IsFiniteSet(DOMAIN usages) /\ Bounded
  BY DEF IInv
<1>1. ASSUME UNCHANGED usages,
             \A c \in Calls : \/ taken'[c] = None
                              \/ taken'[c] = taken[c] /\ worker'[c] = worker[c]
      PROVE  Bounded'
  <2>1. \A w \in Workers : Recent(w)' \subseteq Recent(w) /\ Pending(w)' \subseteq Pending(w)
    BY <1>1 DEF Recent, Pending
  <2> QED
    BY <1>0, <2>1, BoundedByLess
<1>2. ASSUME NEW S \in SUBSET Calls, NEW tokens \in 1 .. 2, StartJob(S, tokens) PROVE Bounded'
  BY <1>1, <1>2 DEF StartJob, transaction
<1>3. ASSUME NEW c \in Calls, Begin(c) \/ DeleteOld(c) \/ Use(c) PROVE Bounded'
  BY <1>1, <1>3 DEF Begin, DeleteOld, Use, transaction
<1>4. ASSUME NEW c \in Calls, Take(c) PROVE Bounded'
  BY <1>4, TakeBounded
<1>5. ASSUME NEW c \in Calls, Commit(c) \/ FailAfterCommit(c) PROVE Bounded'
  BY <1>5, CommitBounded DEF Commit, FailAfterCommit
<1>6. ASSUME NEW c \in Calls, Fail(c) PROVE Bounded'
  BY <1>1, <1>6 DEF Fail, Close, IInv, TypeOK
<1>7. CASE Crash
  BY <1>1, <1>7 DEF Crash
<1>8. CASE Tick
  <2>1. \A w \in Workers : Recent(w)' \subseteq Recent(w)
    BY <1>8 DEF Tick, Recent, Older, Old, IInv, TypeOK, Rows
  <2>2. \A w \in Workers : Pending(w)' \subseteq Pending(w)
    BY <1>8 DEF Tick, Pending
  <2> QED
    BY <1>0, <2>1, <2>2, BoundedByLess
<1>9. CASE UNCHANGED vars
  BY <1>1, <1>9 DEF vars
<1> QED
  BY <1>2, <1>3, <1>4, <1>5, <1>6, <1>7, <1>8, <1>9 DEF Next, Call

\* The inductive invariant is preserved by every step.
LEMMA StepIInv == IInv /\ [Next]_vars => IInv'
<1> SUFFICES ASSUME IInv, [Next]_vars PROVE IInv'
  OBVIOUS
<1>1. TypeOK /\ (\A c \in Calls : Transaction(c)) /\ NewIds /\ RowLocks
  BY DEF IInv
<1>2. TypeOK'
  BY <1>1, StepTypeOK
<1>3. (\A c \in Calls : Transaction(c)') /\ NewIds' /\ RowLocks'
  BY <1>1, StepTransactions
<1>4. IsFiniteSet(DOMAIN usages') /\ Cardinality(Open)' <= Connections /\ Bounded'
  BY StepFinite, StepOpen, StepBounded
<1> QED
  BY <1>2, <1>3, <1>4 DEF IInv

\* The inductive invariant holds in every reachable state.
LEMMA Invariance == Spec => []IInv
<1> QED
  BY InitIInv, StepIInv, PTL DEF Spec

-----------------------------------------------------------------------------
\* Every variable keeps its type in every reachable state.
THEOREM TypeCorrect == Spec => []TypeOK
<1>1. IInv => TypeOK
  BY DEF IInv
<1> QED
  BY <1>1, Invariance, PTL

\* For any number of calls, bots and connections and any limit, a bot has at most
\* Rate - 1 + Connections usages in a minute (get_token of
\* repositories/storage_workers.rs under READ COMMITTED).
THEOREM UsagesAreBounded == Spec => []UsagesBounded
<1>1. IInv => UsagesBounded
  <2> SUFFICES ASSUME IInv, NEW w \in Workers
               PROVE  Cardinality(Recent(w)) <= Rate - 1 + Connections
    BY DEF UsagesBounded
  <2>1. Cardinality(Recent(w)) \in Nat /\ Cardinality(Pending(w)) \in Nat
    BY Finite DEF IInv
  <2>2. Cardinality(Recent(w)) + Cardinality(Pending(w)) <= Rate - 1 + Connections
    BY DEF IInv, Bounded
  <2> QED
    BY <2>1, <2>2, Assumptions DEF AllAssumptions
<1> QED
  BY <1>1, Invariance, PTL

\* A pool of one connection keeps every bot within the limit: "limiting their
\* usage" (services/storage_workers_scheduler.rs:9) is true of WORKERS = 1 only.
THEOREM OneConnectionIsWithinRate ==
    ASSUME Connections = 1
    PROVE  Spec => []WithinRate
<1>1. UsagesBounded => WithinRate
  BY Assumptions DEF AllAssumptions, UsagesBounded, WithinRate
<1> QED
  BY <1>1, UsagesAreBounded, PTL

\* A usage younger than a minute stays in the table, however long the transaction
\* was open that deletes the old ones.
THEOREM ForgottenUsagesAreOld == Spec => ForgottenOnlyWhenOld
<1>1. IInv /\ [Next]_vars =>
        [\A u \in DOMAIN usages \ DOMAIN usages' : usages[u].age > Window]_vars
  <2> SUFFICES ASSUME IInv, [Next]_vars, NEW u \in DOMAIN usages \ DOMAIN usages'
               PROVE  usages[u].age > Window
    OBVIOUS
  <2>1. PICK c \in Calls : usages' = Committed(c)
    BY DEF Next, Call, StartJob, Begin, DeleteOld, Take, Commit, Use, Fail, FailAfterCommit,
           Crash, Tick, vars
  <2>2. u \in gone[c]
    BY <2>1 DEF Committed
  <2> QED
    BY <2>2 DEF IInv, Transaction
<1> QED
  BY <1>1, Invariance, PTL DEF Spec, ForgottenOnlyWhenOld
=============================================================================
