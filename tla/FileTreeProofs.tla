--------------------------- MODULE FileTreeProofs ---------------------------
(***************************************************************************)
(* Theorems about FileTree, for any requests, paths and folders.           *)
(***************************************************************************)
EXTENDS FileTree, NumberLemmas, TLAPS

-----------------------------------------------------------------------------
(***************************************************************************)
(* Type correctness.                                                       *)
(***************************************************************************)

\* A sequence of components is the path of a folder.
LEMMA FolderPaths == \A d \in Seq(Components) : FolderPath(d) \in Paths
  BY DEF FolderPath, Paths

\* A parent is never the root itself.
LEMMA ParentType ==
    ASSUME NEW a \in Paths
    PROVE  Parent(a) \in Seq(Components)
  <1> DEFINE d == IF IsFolder(a) THEN SubSeq(a.dir, 1, Len(a.dir) - 1) ELSE a.dir
  <1>1. a.dir \in Seq(Components)
    BY DEF Paths
  <1>2. SubSeq(a.dir, 1, Len(a.dir) - 1) \in Seq(Components)
    BY <1>1
  <1>3. d \in Seq(Components)
    BY <1>1, <1>2
  <1>4. << <<Empty, 0>> >> \in Seq(Components)
    BY DEF Components
  <1> HIDE DEF d
  <1>5. Parent(a) = IF d = <<>> THEN << <<Empty, 0>> >> ELSE d
    BY DEF Parent, d
  <1> QED
    BY <1>3, <1>4, <1>5

\* The name that create_file_anyway looks for is one of a file.
LEMMA CopyType ==
    ASSUME NEW p \in Uploads, NEW k \in Nat
    PROVE  /\ p \in Paths
           /\ [dir |-> p.dir, leaf |-> <<p.leaf[1], k>>] \in Paths
  <1>1. p \in Paths /\ p.leaf # <<>>
    BY UploadsAssumption DEF IsFolder
  <1>2. p.leaf \in Components
    BY <1>1 DEF Paths
  <1>3. <<p.leaf[1], k>> \in Components
    BY <1>2 DEF Components
  <1> QED
    BY <1>1, <1>3 DEF Paths

LEMMA NumbersType ==
    ASSUME TypeOK, NEW p
    PROVE  Numbers(p) \subseteq Nat
  <1>1. ASSUME NEW x \in CopiesOf(p)
        PROVE  path[x].leaf[2] \in Nat
    <2>1. path[x] \in Paths /\ path[x].leaf # <<>>
      BY <1>1 DEF CopiesOf, TypeOK, IsFolder
    <2>2. path[x].leaf \in Components
      BY <2>1 DEF Paths
    <2> QED
      BY <2>2 DEF Components
  <1> QED
    BY <1>1 DEF Numbers

\* The number of a copy is free among the numbers it is chosen from.
LEMMA CopyNumberIsFree ==
    ASSUME NEW N \in SUBSET Nat, NEW k \in CopyNumbers(N)
    PROVE  k \in Nat /\ k \notin N
  BY DEF CopyNumbers

LEMMA TypeInit == Init => TypeOK
  <1> SUFFICES ASSUME Init
               PROVE  TypeOK
    OBVIOUS
  <1>1. Unset \in Paths
    <2>1. <<>> \in Seq(Components)
      OBVIOUS
    <2> QED
      BY <2>1, FolderPaths DEF Unset
  <1>2. path \in [Rows -> Paths]
    BY <1>1, InitialPathsAssumption DEF Init
  <1>3. uploaded \subseteq Rows /\ asked \in [Requests -> Paths]
    BY <1>1 DEF Init, Rows
  <1> QED
    BY <1>2, <1>3 DEF Init, TypeOK, PCs

LEMMA TypeNext == TypeOK /\ [Next]_vars => TypeOK'
  <1> SUFFICES ASSUME TypeOK, [Next]_vars
               PROVE  TypeOK'
    OBVIOUS
  <1> USE DEF Goto, Return
  <1>1. CASE UNCHANGED vars
    BY <1>1 DEF vars, TypeOK
  <1>2. ASSUME NEW r \in Requests, NEW p \in Paths, NEW next \in {"done", "transfer"},
               CreateFile(r, p, next)
        PROVE  uploaded' = uploaded => TypeOK'
    <2>1. r \in Rows
      BY DEF Rows
    <2> QED
      BY <1>2, <2>1 DEF CreateFile, TypeOK, PCs
  <1>3. ASSUME NEW r \in Requests, NEW d \in Folders, CreateFolder(r, d)
        PROVE  TypeOK'
    <2>1. FolderPath(d) \in Paths /\ r \in Rows
      BY FoldersAssumption DEF Rows
    <2> QED
      BY <1>3, <2>1 DEF CreateFolder, CreateFile, TypeOK, PCs
  <1>4. ASSUME NEW r \in Requests, NEW p \in Uploads, UploadTo(r, p)
        PROVE  TypeOK'
    BY <1>2, <1>4, UploadsAssumption DEF UploadTo
  <1>5. ASSUME NEW r \in Requests, NEW p \in Uploads, ReadCopies(r, p)
        PROVE  TypeOK'
    <2>1. \A k \in CopyNumbers(Numbers(p)) : [dir |-> p.dir, leaf |-> <<p.leaf[1], k>>] \in Paths
      BY CopyType, NumbersType, CopyNumberIsFree
    <2>2. p \in Paths /\ r \in Rows /\ CopiesOf(p) \in SUBSET Rows
      BY UploadsAssumption DEF Rows, CopiesOf
    <2>3. path' \in [Rows -> Paths]
      BY <1>5, <2>1, <2>2 DEF ReadCopies, TypeOK
    <2> QED
      BY <1>5, <2>2, <2>3 DEF ReadCopies, TypeOK, PCs
  <1>6. ASSUME NEW r \in Requests, NEW a \in Deletes, AskDelete(r, a)
        PROVE  TypeOK'
    <2>1. FolderPath(Parent(a)) \in Paths /\ a \in Paths /\ r \in Rows
      BY DeletesAssumption, FolderPaths, ParentType DEF Rows
    <2> QED
      BY <1>6, <2>1 DEF AskDelete, TypeOK, PCs
  <1>7. ASSUME NEW r \in Requests, Handle(r)
        PROVE  TypeOK'
    <2>1. r \in Rows
      BY DEF Rows
    <2>2. CASE InsertCopy(r)
      BY <2>1, <2>2 DEF InsertCopy, TypeOK, PCs
    <2>3. CASE SetAsUploaded(r)
      BY <2>1, <2>3 DEF SetAsUploaded, TypeOK, PCs
    <2>4. CASE DeleteWithFolders(r)
      BY <2>1, <2>4 DEF DeleteWithFolders, TypeOK, PCs
    <2>5. CASE FindRows(r)
      BY <2>5 DEF FindRows, TypeOK, PCs
    <2>6. CASE RemoveRow(r)
      BY <2>6 DEF RemoveRow, TypeOK, PCs
    <2>7. CASE Removed(r)
      BY <2>7 DEF Removed, TypeOK, PCs
    <2>8. CASE CheckParent(r)
      BY <2>8 DEF CheckParent, Below, TypeOK, PCs
    <2>9. CASE PutFolder(r)
      BY <2>1, <2>9 DEF PutFolder, Rollback, TypeOK, PCs
    <2>10. CASE Commit(r)
      BY <2>10 DEF Commit, TypeOK, PCs
    <2> QED
      BY <1>7, <2>2, <2>3, <2>4, <2>5, <2>6, <2>7, <2>8, <2>9, <2>10 DEF Handle
  <1>8. ASSUME NEW r \in Requests, Fail(r) \/ HangUp(r)
        PROVE  TypeOK'
    BY <1>8 DEF Fail, HangUp, Rollback, TypeOK, PCs, Rows
  <1> QED
    BY <1>1, <1>3, <1>4, <1>5, <1>6, <1>7, <1>8 DEF Next, Arrive, Idle

\* Every row keeps a path that is one, and every handler a place in its code.
THEOREM TypeCorrect == Spec => []TypeOK
  BY TypeInit, TypeNext, PTL DEF Spec

-----------------------------------------------------------------------------
(***************************************************************************)
(* The inductive invariant.                                                *)
(***************************************************************************)

\* A row that was there once: its request inserts none any more.
Spent(x) == x \in Seeds \/ pc[x] \in {"transfer", "undo", "done", "gone"}

\* What the row of a request and its answer may be where the request is.
Phases ==
    \A r \in Requests :
        /\ pc[r] \in {"new", "insert", "delete", "lock", "parent", "put"} => row[r] = "absent"
        /\ pc[r] = "commit" => row[r] # "live"
        /\ row[r] = "inserted" => pc[r] = "commit"
        /\ pc[r] \notin {"done", "gone"} => answer[r] = "none"
        /\ pc[r] \in {"new", "insert", "transfer", "undo", "delete"} => target[r] = {}

SeedsStay == \A x \in Seeds : row[x] # "inserted"

\* What statements found was there; a DELETE found what its request names.
Found ==
    \A r \in Requests :
        /\ \A x \in target[r] \cup seen[r] : Spent(x)
        /\ \A x \in target[r] : Matches(asked[r], path[x])

\* A row whose deletion is open is still there, and was found by who deletes it.
Removers ==
    \A x \in Rows : remover[x] # None =>
        /\ row[x] = "live"
        /\ x \in target[remover[x]]
        /\ pc[remover[x]] \in InTransaction

\* Once the DELETE is through, what it found is gone or goes with its commit.
Deleted ==
    \A r \in Requests : pc[r] \in {"parent", "put", "commit"} \/ answer[r] = "ok" =>
        \A x \in target[r] : row[x] = "absent" \/ remover[x] = r

\* The folder a delete may put back, and what it has seen in it.
Checked ==
    \A r \in Requests :
        /\ pc[r] \in {"delete"} \cup InTransaction => path[r] = FolderPath(Parent(asked[r]))
        /\ pc[r] = "put" => seen[r] = {}
        /\ pc[r] = "commit" => /\ seen[r] = {} => row[r] = "inserted"
                               /\ \A y \in seen[r] : /\ remover[y] # r
                                                     /\ Like(path[r].dir, path[y])

\* The name a copy gets was free among those it was chosen from.
Chosen == \A r \in Requests : pc[r] = "insert" => \A y \in seen[r] : path[y] # path[r]

Inv == /\ TypeOK /\ Phases /\ SeedsStay /\ Found /\ Removers
       /\ Deleted /\ Checked /\ Chosen /\ OneRowPerPath

LEMMA RowsOfRequests ==
    Requests \subseteq Rows /\ Seeds \subseteq Rows /\ \A r \in Requests : r \notin Seeds /\ r # None
  BY RowsAssumption DEF Rows

LEMMA LiveIsSpent ==
    ASSUME TypeOK, Phases, NEW x \in Rows, row[x] = "live"
    PROVE  Spent(x)
  BY DEF TypeOK, Phases, Spent, Rows, PCs

LEMMA InvInit == Init => Inv
  <1> SUFFICES ASSUME Init
               PROVE  Inv
    OBVIOUS
  <1>1. TypeOK
    BY TypeInit
  <1>2. OneRowPerPath
    BY DEF Init, OneRowPerPath, Rows
  <1>3. Phases /\ SeedsStay /\ Found /\ Removers /\ Deleted /\ Checked /\ Chosen
    BY RowsOfRequests
       DEF Init, Phases, SeedsStay, Found, Removers, Deleted, Checked, Chosen, InTransaction, Rows
  <1> QED
    BY <1>1, <1>2, <1>3 DEF Inv

\* A request inserts one row at most, and answers once.
LEMMA PhasesNext ==
    ASSUME Inv, [Next]_vars
    PROVE  Phases' /\ SeedsStay'
  <1> USE RowsOfRequests DEF Goto, Return, Inv
  <1>1. CASE UNCHANGED vars
    BY <1>1 DEF vars, Phases, SeedsStay, TypeOK, PCs, Active, InTransaction
  <1>2. ASSUME NEW r \in Requests, NEW d \in Folders, CreateFolder(r, d)
        PROVE  Phases' /\ SeedsStay'
    BY <1>2 DEF CreateFolder, CreateFile, Phases, SeedsStay, TypeOK, PCs, Active, InTransaction
  <1>3. ASSUME NEW r \in Requests, NEW p \in Uploads, UploadTo(r, p)
        PROVE  Phases' /\ SeedsStay'
    BY <1>3 DEF UploadTo, CreateFile, Phases, SeedsStay, TypeOK, PCs, Active, InTransaction
  <1>4. ASSUME NEW r \in Requests, NEW p \in Uploads, ReadCopies(r, p)
        PROVE  Phases' /\ SeedsStay'
    BY <1>4 DEF ReadCopies, Phases, SeedsStay, TypeOK, PCs, Active, InTransaction
  <1>5. ASSUME NEW r \in Requests, NEW a \in Deletes, AskDelete(r, a)
        PROVE  Phases' /\ SeedsStay'
    BY <1>5 DEF AskDelete, Phases, SeedsStay, TypeOK, PCs, Active, InTransaction
  <1>6. ASSUME NEW r \in Requests, InsertCopy(r)
        PROVE  Phases' /\ SeedsStay'
    BY <1>6 DEF InsertCopy, Phases, SeedsStay, TypeOK, PCs, Active, InTransaction
  <1>7. ASSUME NEW r \in Requests, SetAsUploaded(r)
        PROVE  Phases' /\ SeedsStay'
    BY <1>7 DEF SetAsUploaded, Phases, SeedsStay, TypeOK, PCs, Active, InTransaction
  <1>8. ASSUME NEW r \in Requests, DeleteWithFolders(r)
        PROVE  Phases' /\ SeedsStay'
    BY <1>8 DEF DeleteWithFolders, Phases, SeedsStay, TypeOK, PCs, Active, InTransaction
  <1>9. ASSUME NEW r \in Requests, FindRows(r)
        PROVE  Phases' /\ SeedsStay'
    BY <1>9 DEF FindRows, Phases, SeedsStay, TypeOK, PCs, Active, InTransaction
  <1>10. ASSUME NEW r \in Requests, RemoveRow(r)
        PROVE  Phases' /\ SeedsStay'
    BY <1>10 DEF RemoveRow, Phases, SeedsStay, TypeOK, PCs, Active, InTransaction
  <1>11. ASSUME NEW r \in Requests, Removed(r)
        PROVE  Phases' /\ SeedsStay'
    BY <1>11 DEF Removed, Phases, SeedsStay, TypeOK, PCs, Active, InTransaction
  <1>12. ASSUME NEW r \in Requests, CheckParent(r)
        PROVE  Phases' /\ SeedsStay'
    BY <1>12 DEF CheckParent, Phases, SeedsStay, TypeOK, PCs, Active, InTransaction
  <1>13. ASSUME NEW r \in Requests, PutFolder(r)
        PROVE  Phases' /\ SeedsStay'
    BY <1>13 DEF PutFolder, Rollback, Phases, SeedsStay, TypeOK, PCs, Active, InTransaction
  <1>14. ASSUME NEW r \in Requests, Commit(r)
        PROVE  Phases' /\ SeedsStay'
    BY <1>14 DEF Commit, Phases, SeedsStay, TypeOK, PCs, Active, InTransaction
  <1>15. ASSUME NEW r \in Requests, Fail(r)
        PROVE  Phases' /\ SeedsStay'
    BY <1>15 DEF Fail, Rollback, Phases, SeedsStay, TypeOK, PCs, Active, InTransaction
  <1>16. ASSUME NEW r \in Requests, HangUp(r)
        PROVE  Phases' /\ SeedsStay'
    BY <1>16 DEF HangUp, Rollback, Phases, SeedsStay, TypeOK, PCs, Active, InTransaction
  <1> QED
    BY <1>1, <1>2, <1>3, <1>4, <1>5, <1>6, <1>7, <1>8, <1>9, <1>10, <1>11, <1>12, <1>13, <1>14, <1>15, <1>16
       DEF Next, Arrive, Handle, Idle

\* Every INSERT waits for the rows of its path and looks whether one is there.
LEMMA OneRowNext ==
    ASSUME Inv, [Next]_vars
    PROVE  OneRowPerPath'
  <1> USE RowsOfRequests DEF Goto, Return, Inv
  <1>1. CASE UNCHANGED vars
    BY <1>1 DEF vars, OneRowPerPath, Phases, SeedsStay, TypeOK, Settled, Unsettled, Taken,
       Live, Rows
  <1>2. ASSUME NEW r \in Requests, NEW d \in Folders, CreateFolder(r, d)
        PROVE  OneRowPerPath'
    BY <1>2 DEF CreateFolder, CreateFile, OneRowPerPath, Phases, SeedsStay, TypeOK, Settled,
       Unsettled, Taken, Live, Rows
  <1>3. ASSUME NEW r \in Requests, NEW p \in Uploads, UploadTo(r, p)
        PROVE  OneRowPerPath'
    BY <1>3 DEF UploadTo, CreateFile, OneRowPerPath, Phases, SeedsStay, TypeOK, Settled,
       Unsettled, Taken, Live, Rows
  <1>4. ASSUME NEW r \in Requests, NEW p \in Uploads, ReadCopies(r, p)
        PROVE  OneRowPerPath'
    BY <1>4 DEF ReadCopies, OneRowPerPath, Phases, SeedsStay, TypeOK, Settled, Unsettled,
       Taken, Live, Rows
  <1>5. ASSUME NEW r \in Requests, NEW a \in Deletes, AskDelete(r, a)
        PROVE  OneRowPerPath'
    BY <1>5 DEF AskDelete, OneRowPerPath, Phases, SeedsStay, TypeOK, Settled, Unsettled, Taken,
       Live, Rows
  <1>6. ASSUME NEW r \in Requests, InsertCopy(r)
        PROVE  OneRowPerPath'
    BY <1>6 DEF InsertCopy, OneRowPerPath, Phases, SeedsStay, TypeOK, Settled, Unsettled,
       Taken, Live, Rows
  <1>7. ASSUME NEW r \in Requests, SetAsUploaded(r)
        PROVE  OneRowPerPath'
    BY <1>7 DEF SetAsUploaded, OneRowPerPath, Phases, SeedsStay, TypeOK, Settled, Unsettled,
       Taken, Live, Rows
  <1>8. ASSUME NEW r \in Requests, DeleteWithFolders(r)
        PROVE  OneRowPerPath'
    BY <1>8 DEF DeleteWithFolders, OneRowPerPath, Phases, SeedsStay, TypeOK, Settled,
       Unsettled, Taken, Live, Rows
  <1>9. ASSUME NEW r \in Requests, FindRows(r)
        PROVE  OneRowPerPath'
    BY <1>9 DEF FindRows, OneRowPerPath, Phases, SeedsStay, TypeOK, Settled, Unsettled, Taken,
       Live, Rows
  <1>10. ASSUME NEW r \in Requests, RemoveRow(r)
        PROVE  OneRowPerPath'
    BY <1>10 DEF RemoveRow, OneRowPerPath, Phases, SeedsStay, TypeOK, Settled, Unsettled,
       Taken, Live, Rows
  <1>11. ASSUME NEW r \in Requests, Removed(r)
        PROVE  OneRowPerPath'
    BY <1>11 DEF Removed, OneRowPerPath, Phases, SeedsStay, TypeOK, Settled, Unsettled, Taken,
       Live, Rows
  <1>12. ASSUME NEW r \in Requests, CheckParent(r)
        PROVE  OneRowPerPath'
    BY <1>12 DEF CheckParent, OneRowPerPath, Phases, SeedsStay, TypeOK, Settled, Unsettled,
       Taken, Live, Rows
  <1>13. ASSUME NEW r \in Requests, PutFolder(r)
        PROVE  OneRowPerPath'
    BY <1>13 DEF PutFolder, Rollback, OneRowPerPath, Phases, SeedsStay, TypeOK, Settled,
       Unsettled, Taken, Live, Rows
  <1>14. ASSUME NEW r \in Requests, Commit(r)
        PROVE  OneRowPerPath'
    BY <1>14 DEF Commit, OneRowPerPath, Phases, SeedsStay, TypeOK, Settled, Unsettled, Taken,
       Live, Rows
  <1>15. ASSUME NEW r \in Requests, Fail(r)
        PROVE  OneRowPerPath'
    BY <1>15 DEF Fail, Rollback, OneRowPerPath, Phases, SeedsStay, TypeOK, Settled, Unsettled,
       Taken, Live, Rows
  <1>16. ASSUME NEW r \in Requests, HangUp(r)
        PROVE  OneRowPerPath'
    BY <1>16 DEF HangUp, Rollback, OneRowPerPath, Phases, SeedsStay, TypeOK, Settled,
       Unsettled, Taken, Live, Rows
  <1> QED
    BY <1>1, <1>2, <1>3, <1>4, <1>5, <1>6, <1>7, <1>8, <1>9, <1>10, <1>11, <1>12, <1>13, <1>14, <1>15, <1>16
       DEF Next, Arrive, Handle, Idle

\* What was found keeps its path, and nothing comes back.
LEMMA FoundNext ==
    ASSUME Inv, [Next]_vars
    PROVE  Found'
  <1> USE RowsOfRequests DEF Goto, Return, Inv
  <1>1. CASE UNCHANGED vars
    BY <1>1 DEF vars, Found, Spent, Phases, TypeOK, PCs, Rows, Active, InTransaction
  <1>2. ASSUME NEW r \in Requests, NEW d \in Folders, CreateFolder(r, d)
        PROVE  Found'
    BY <1>2 DEF CreateFolder, CreateFile, Found, Spent, Phases, TypeOK, PCs, Rows, Active,
       InTransaction
  <1>3. ASSUME NEW r \in Requests, NEW p \in Uploads, UploadTo(r, p)
        PROVE  Found'
    BY <1>3 DEF UploadTo, CreateFile, Found, Spent, Phases, TypeOK, PCs, Rows, Active,
       InTransaction
  <1>4. ASSUME NEW r \in Requests, NEW p \in Uploads, ReadCopies(r, p)
        PROVE  Found'
    BY <1>4, LiveIsSpent DEF ReadCopies, CopiesOf, Live, Found, Spent, Phases, TypeOK, PCs,
       Rows, Active, InTransaction
  <1>5. ASSUME NEW r \in Requests, NEW a \in Deletes, AskDelete(r, a)
        PROVE  Found'
    BY <1>5 DEF AskDelete, Found, Spent, Phases, TypeOK, PCs, Rows, Active, InTransaction
  <1>6. ASSUME NEW r \in Requests, InsertCopy(r)
        PROVE  Found'
    BY <1>6 DEF InsertCopy, Found, Spent, Phases, TypeOK, PCs, Rows, Active, InTransaction
  <1>7. ASSUME NEW r \in Requests, SetAsUploaded(r)
        PROVE  Found'
    BY <1>7 DEF SetAsUploaded, Found, Spent, Phases, TypeOK, PCs, Rows, Active, InTransaction
  <1>8. ASSUME NEW r \in Requests, DeleteWithFolders(r)
        PROVE  Found'
    BY <1>8 DEF DeleteWithFolders, Found, Spent, Phases, TypeOK, PCs, Rows, Active,
       InTransaction
  <1>9. ASSUME NEW r \in Requests, FindRows(r)
        PROVE  Found'
    BY <1>9, LiveIsSpent DEF FindRows, Live, Found, Spent, Phases, TypeOK, PCs, Rows, Active,
       InTransaction
  <1>10. ASSUME NEW r \in Requests, RemoveRow(r)
        PROVE  Found'
    BY <1>10 DEF RemoveRow, Found, Spent, Phases, TypeOK, PCs, Rows, Active, InTransaction
  <1>11. ASSUME NEW r \in Requests, Removed(r)
        PROVE  Found'
    BY <1>11 DEF Removed, Found, Spent, Phases, TypeOK, PCs, Rows, Active, InTransaction
  <1>12. ASSUME NEW r \in Requests, CheckParent(r)
        PROVE  Found'
    BY <1>12, LiveIsSpent DEF CheckParent, Below, Live, Found, Spent, Phases, TypeOK, PCs,
       Rows, Active, InTransaction
  <1>13. ASSUME NEW r \in Requests, PutFolder(r)
        PROVE  Found'
    BY <1>13 DEF PutFolder, Rollback, Found, Spent, Phases, TypeOK, PCs, Rows, Active,
       InTransaction
  <1>14. ASSUME NEW r \in Requests, Commit(r)
        PROVE  Found'
    BY <1>14 DEF Commit, Found, Spent, Phases, TypeOK, PCs, Rows, Active, InTransaction
  <1>15. ASSUME NEW r \in Requests, Fail(r)
        PROVE  Found'
    BY <1>15 DEF Fail, Rollback, Found, Spent, Phases, TypeOK, PCs, Rows, Active, InTransaction
  <1>16. ASSUME NEW r \in Requests, HangUp(r)
        PROVE  Found'
    BY <1>16 DEF HangUp, Rollback, Found, Spent, Phases, TypeOK, PCs, Rows, Active,
       InTransaction
  <1> QED
    BY <1>1, <1>2, <1>3, <1>4, <1>5, <1>6, <1>7, <1>8, <1>9, <1>10, <1>11, <1>12, <1>13, <1>14, <1>15, <1>16
       DEF Next, Arrive, Handle, Idle

\* A deleted row is left alone until its transaction ends.
LEMMA RemoversNext ==
    ASSUME Inv, [Next]_vars
    PROVE  Removers'
  <1> USE RowsOfRequests DEF Goto, Return, Inv
  <1>1. CASE UNCHANGED vars
    BY <1>1 DEF vars, Removers, Phases, TypeOK, PCs, Rows, Active, InTransaction
  <1>2. ASSUME NEW r \in Requests, NEW d \in Folders, CreateFolder(r, d)
        PROVE  Removers'
    BY <1>2 DEF CreateFolder, CreateFile, Removers, Phases, TypeOK, PCs, Rows, Active,
       InTransaction
  <1>3. ASSUME NEW r \in Requests, NEW p \in Uploads, UploadTo(r, p)
        PROVE  Removers'
    BY <1>3 DEF UploadTo, CreateFile, Removers, Phases, TypeOK, PCs, Rows, Active,
       InTransaction
  <1>4. ASSUME NEW r \in Requests, NEW p \in Uploads, ReadCopies(r, p)
        PROVE  Removers'
    BY <1>4 DEF ReadCopies, Removers, Phases, TypeOK, PCs, Rows, Active, InTransaction
  <1>5. ASSUME NEW r \in Requests, NEW a \in Deletes, AskDelete(r, a)
        PROVE  Removers'
    BY <1>5 DEF AskDelete, Removers, Phases, TypeOK, PCs, Rows, Active, InTransaction
  <1>6. ASSUME NEW r \in Requests, InsertCopy(r)
        PROVE  Removers'
    BY <1>6 DEF InsertCopy, Removers, Phases, TypeOK, PCs, Rows, Active, InTransaction
  <1>7. ASSUME NEW r \in Requests, SetAsUploaded(r)
        PROVE  Removers'
    BY <1>7 DEF SetAsUploaded, Removers, Phases, TypeOK, PCs, Rows, Active, InTransaction
  <1>8. ASSUME NEW r \in Requests, DeleteWithFolders(r)
        PROVE  Removers'
    BY <1>8 DEF DeleteWithFolders, Removers, Phases, TypeOK, PCs, Rows, Active, InTransaction
  <1>9. ASSUME NEW r \in Requests, FindRows(r)
        PROVE  Removers'
    BY <1>9 DEF FindRows, Removers, Phases, TypeOK, PCs, Rows, Active, InTransaction
  <1>10. ASSUME NEW r \in Requests, RemoveRow(r)
        PROVE  Removers'
    BY <1>10 DEF RemoveRow, Left, Live, Removers, Phases, TypeOK, PCs, Rows, Active,
       InTransaction
  <1>11. ASSUME NEW r \in Requests, Removed(r)
        PROVE  Removers'
    BY <1>11 DEF Removed, Removers, Phases, TypeOK, PCs, Rows, Active, InTransaction
  <1>12. ASSUME NEW r \in Requests, CheckParent(r)
        PROVE  Removers'
    BY <1>12 DEF CheckParent, Removers, Phases, TypeOK, PCs, Rows, Active, InTransaction
  <1>13. ASSUME NEW r \in Requests, PutFolder(r)
        PROVE  Removers'
    BY <1>13 DEF PutFolder, Rollback, Removers, Phases, TypeOK, PCs, Rows, Active,
       InTransaction
  <1>14. ASSUME NEW r \in Requests, Commit(r)
        PROVE  Removers'
    BY <1>14 DEF Commit, Removers, Phases, TypeOK, PCs, Rows, Active, InTransaction
  <1>15. ASSUME NEW r \in Requests, Fail(r)
        PROVE  Removers'
    BY <1>15 DEF Fail, Rollback, Removers, Phases, TypeOK, PCs, Rows, Active, InTransaction
  <1>16. ASSUME NEW r \in Requests, HangUp(r)
        PROVE  Removers'
    BY <1>16 DEF HangUp, Rollback, Removers, Phases, TypeOK, PCs, Rows, Active, InTransaction
  <1> QED
    BY <1>1, <1>2, <1>3, <1>4, <1>5, <1>6, <1>7, <1>8, <1>9, <1>10, <1>11, <1>12, <1>13, <1>14, <1>15, <1>16
       DEF Next, Arrive, Handle, Idle

\* A DELETE waits for the transactions that have deleted a row it found.
LEMMA DeletedNext ==
    ASSUME Inv, [Next]_vars
    PROVE  Deleted'
  <1> USE RowsOfRequests DEF Goto, Return, Inv
  <1>1. CASE UNCHANGED vars
    BY <1>1 DEF vars, Deleted, Removers, Found, Spent, Phases, TypeOK, PCs, Rows, Active,
       InTransaction
  <1>2. ASSUME NEW r \in Requests, NEW d \in Folders, CreateFolder(r, d)
        PROVE  Deleted'
    BY <1>2 DEF CreateFolder, CreateFile, Deleted, Removers, Found, Spent, Phases, TypeOK, PCs,
       Rows, Active, InTransaction
  <1>3. ASSUME NEW r \in Requests, NEW p \in Uploads, UploadTo(r, p)
        PROVE  Deleted'
    BY <1>3 DEF UploadTo, CreateFile, Deleted, Removers, Found, Spent, Phases, TypeOK, PCs,
       Rows, Active, InTransaction
  <1>4. ASSUME NEW r \in Requests, NEW p \in Uploads, ReadCopies(r, p)
        PROVE  Deleted'
    BY <1>4 DEF ReadCopies, Deleted, Removers, Found, Spent, Phases, TypeOK, PCs, Rows, Active,
       InTransaction
  <1>5. ASSUME NEW r \in Requests, NEW a \in Deletes, AskDelete(r, a)
        PROVE  Deleted'
    BY <1>5 DEF AskDelete, Deleted, Removers, Found, Spent, Phases, TypeOK, PCs, Rows, Active,
       InTransaction
  <1>6. ASSUME NEW r \in Requests, InsertCopy(r)
        PROVE  Deleted'
    BY <1>6 DEF InsertCopy, Deleted, Removers, Found, Spent, Phases, TypeOK, PCs, Rows, Active,
       InTransaction
  <1>7. ASSUME NEW r \in Requests, SetAsUploaded(r)
        PROVE  Deleted'
    BY <1>7 DEF SetAsUploaded, Deleted, Removers, Found, Spent, Phases, TypeOK, PCs, Rows,
       Active, InTransaction
  <1>8. ASSUME NEW r \in Requests, DeleteWithFolders(r)
        PROVE  Deleted'
    BY <1>8 DEF DeleteWithFolders, Deleted, Removers, Found, Spent, Phases, TypeOK, PCs, Rows,
       Active, InTransaction
  <1>9. ASSUME NEW r \in Requests, FindRows(r)
        PROVE  Deleted'
    BY <1>9 DEF FindRows, Deleted, Removers, Found, Spent, Phases, TypeOK, PCs, Rows, Active,
       InTransaction
  <1>10. ASSUME NEW r \in Requests, RemoveRow(r)
        PROVE  Deleted'
    BY <1>10 DEF RemoveRow, Left, Live, Deleted, Removers, Found, Spent, Phases, TypeOK, PCs,
       Rows, Active, InTransaction
  <1>11. ASSUME NEW r \in Requests, Removed(r)
        PROVE  Deleted'
    BY <1>11 DEF Removed, Left, Live, SeedsStay, Deleted, Removers, Found, Spent, Phases,
       TypeOK, PCs, Rows, Active, InTransaction
  <1>12. ASSUME NEW r \in Requests, CheckParent(r)
        PROVE  Deleted'
    BY <1>12 DEF CheckParent, Deleted, Removers, Found, Spent, Phases, TypeOK, PCs, Rows,
       Active, InTransaction
  <1>13. ASSUME NEW r \in Requests, PutFolder(r)
        PROVE  Deleted'
    BY <1>13 DEF PutFolder, Rollback, Deleted, Removers, Found, Spent, Phases, TypeOK, PCs,
       Rows, Active, InTransaction
  <1>14. ASSUME NEW r \in Requests, Commit(r)
        PROVE  Deleted'
    BY <1>14 DEF Commit, Deleted, Removers, Found, Spent, Phases, TypeOK, PCs, Rows, Active,
       InTransaction
  <1>15. ASSUME NEW r \in Requests, Fail(r)
        PROVE  Deleted'
    BY <1>15 DEF Fail, Rollback, Deleted, Removers, Found, Spent, Phases, TypeOK, PCs, Rows,
       Active, InTransaction
  <1>16. ASSUME NEW r \in Requests, HangUp(r)
        PROVE  Deleted'
    BY <1>16 DEF HangUp, Rollback, Deleted, Removers, Found, Spent, Phases, TypeOK, PCs, Rows,
       Active, InTransaction
  <1> QED
    BY <1>1, <1>2, <1>3, <1>4, <1>5, <1>6, <1>7, <1>8, <1>9, <1>10, <1>11, <1>12, <1>13, <1>14, <1>15, <1>16
       DEF Next, Arrive, Handle, Idle

\* The check of the folder lasts until the commit.
LEMMA CheckedNext ==
    ASSUME Inv, [Next]_vars
    PROVE  Checked'
  <1> USE RowsOfRequests DEF Goto, Return, Inv
  <1>1. CASE UNCHANGED vars
    BY <1>1 DEF vars, Checked, Found, Spent, Phases, TypeOK, PCs, Rows, Active, InTransaction
  <1>2. ASSUME NEW r \in Requests, NEW d \in Folders, CreateFolder(r, d)
        PROVE  Checked'
    BY <1>2 DEF CreateFolder, CreateFile, Checked, Found, Spent, Phases, TypeOK, PCs, Rows,
       Active, InTransaction
  <1>3. ASSUME NEW r \in Requests, NEW p \in Uploads, UploadTo(r, p)
        PROVE  Checked'
    BY <1>3 DEF UploadTo, CreateFile, Checked, Found, Spent, Phases, TypeOK, PCs, Rows, Active,
       InTransaction
  <1>4. ASSUME NEW r \in Requests, NEW p \in Uploads, ReadCopies(r, p)
        PROVE  Checked'
    BY <1>4 DEF ReadCopies, Checked, Found, Spent, Phases, TypeOK, PCs, Rows, Active,
       InTransaction
  <1>5. ASSUME NEW r \in Requests, NEW a \in Deletes, AskDelete(r, a)
        PROVE  Checked'
    BY <1>5 DEF AskDelete, Checked, Found, Spent, Phases, TypeOK, PCs, Rows, Active,
       InTransaction
  <1>6. ASSUME NEW r \in Requests, InsertCopy(r)
        PROVE  Checked'
    BY <1>6 DEF InsertCopy, Checked, Found, Spent, Phases, TypeOK, PCs, Rows, Active,
       InTransaction
  <1>7. ASSUME NEW r \in Requests, SetAsUploaded(r)
        PROVE  Checked'
    BY <1>7 DEF SetAsUploaded, Checked, Found, Spent, Phases, TypeOK, PCs, Rows, Active,
       InTransaction
  <1>8. ASSUME NEW r \in Requests, DeleteWithFolders(r)
        PROVE  Checked'
    BY <1>8 DEF DeleteWithFolders, Checked, Found, Spent, Phases, TypeOK, PCs, Rows, Active,
       InTransaction
  <1>9. ASSUME NEW r \in Requests, FindRows(r)
        PROVE  Checked'
    BY <1>9 DEF FindRows, Checked, Found, Spent, Phases, TypeOK, PCs, Rows, Active,
       InTransaction
  <1>10. ASSUME NEW r \in Requests, RemoveRow(r)
        PROVE  Checked'
    BY <1>10 DEF RemoveRow, Left, Live, Checked, Found, Spent, Phases, TypeOK, PCs, Rows,
       Active, InTransaction
  <1>11. ASSUME NEW r \in Requests, Removed(r)
        PROVE  Checked'
    BY <1>11 DEF Removed, Checked, Found, Spent, Phases, TypeOK, PCs, Rows, Active,
       InTransaction
  <1>12. ASSUME NEW r \in Requests, CheckParent(r)
        PROVE  Checked'
    BY <1>12 DEF CheckParent, Below, Checked, Found, Spent, Phases, TypeOK, PCs, Rows, Active,
       InTransaction
  <1>13. ASSUME NEW r \in Requests, PutFolder(r)
        PROVE  Checked'
    BY <1>13 DEF PutFolder, Rollback, Checked, Found, Spent, Phases, TypeOK, PCs, Rows, Active,
       InTransaction
  <1>14. ASSUME NEW r \in Requests, Commit(r)
        PROVE  Checked'
    BY <1>14 DEF Commit, Removers, Checked, Found, Spent, Phases, TypeOK, PCs, Rows, Active,
       InTransaction
  <1>15. ASSUME NEW r \in Requests, Fail(r)
        PROVE  Checked'
    BY <1>15 DEF Fail, Rollback, Checked, Found, Spent, Phases, TypeOK, PCs, Rows, Active,
       InTransaction
  <1>16. ASSUME NEW r \in Requests, HangUp(r)
        PROVE  Checked'
    BY <1>16 DEF HangUp, Rollback, Checked, Found, Spent, Phases, TypeOK, PCs, Rows, Active,
       InTransaction
  <1> QED
    BY <1>1, <1>2, <1>3, <1>4, <1>5, <1>6, <1>7, <1>8, <1>9, <1>10, <1>11, <1>12, <1>13, <1>14, <1>15, <1>16
       DEF Next, Arrive, Handle, Idle

\* A name that was free at the SELECT is no name of the rows it found.
LEMMA ChosenNext ==
    ASSUME Inv, [Next]_vars
    PROVE  Chosen'
  <1> USE RowsOfRequests DEF Goto, Return, Inv
  <1>1. CASE UNCHANGED vars
    BY <1>1 DEF vars, Chosen, Found, Spent, Phases, TypeOK, PCs, Rows, Active, InTransaction
  <1>2. ASSUME NEW r \in Requests, NEW d \in Folders, CreateFolder(r, d)
        PROVE  Chosen'
    BY <1>2 DEF CreateFolder, CreateFile, Chosen, Found, Spent, Phases, TypeOK, PCs, Rows,
       Active, InTransaction
  <1>3. ASSUME NEW r \in Requests, NEW p \in Uploads, UploadTo(r, p)
        PROVE  Chosen'
    BY <1>3 DEF UploadTo, CreateFile, Chosen, Found, Spent, Phases, TypeOK, PCs, Rows, Active,
       InTransaction
  <1>4. ASSUME NEW r \in Requests, NEW p \in Uploads, ReadCopies(r, p)
        PROVE  Chosen'
    <2>1. CASE pc'[r] = "done"
      BY <1>4, <2>1 DEF ReadCopies, Chosen, Found, Spent, Phases, TypeOK, PCs, Rows
    <2>2. CASE pc'[r] # "done"
      <3>1. PICK k \in CopyNumbers(Numbers(p)) :
               path' = [path EXCEPT ![r] = [dir |-> p.dir, leaf |-> <<p.leaf[1], k>>]]
        BY <1>4, <2>2 DEF ReadCopies, TypeOK
      <3>2. k \notin Numbers(p)
        BY NumbersType, CopyNumberIsFree
      <3>3. path'[r].leaf[2] = k
        BY <3>1 DEF TypeOK
      <3>4. ASSUME NEW y \in CopiesOf(p)
            PROVE  path'[y] # path'[r]
        <4>1. y # r /\ y \in Rows
          BY <1>4, <3>4 DEF ReadCopies, CopiesOf, Live, Phases
        <4>2. path'[y] = path[y]
          BY <3>1, <4>1 DEF TypeOK
        <4>3. path[y].leaf[2] \in Numbers(p)
          BY <3>4 DEF Numbers
        <4> QED
          BY <3>2, <3>3, <4>2, <4>3
      <3>5. seen'[r] = CopiesOf(p)
        BY <1>4 DEF ReadCopies, TypeOK
      <3>6. ASSUME NEW q \in Requests, q # r, pc'[q] = "insert", NEW y \in seen'[q]
            PROVE  path'[y] # path'[q]
        BY <1>4, <3>1, <3>6 DEF ReadCopies, Chosen, Found, Spent, Phases, TypeOK, Rows
      <3> QED
        BY <3>4, <3>5, <3>6 DEF Chosen
    <2> QED
      BY <2>1, <2>2
  <1>5. ASSUME NEW r \in Requests, NEW a \in Deletes, AskDelete(r, a)
        PROVE  Chosen'
    BY <1>5 DEF AskDelete, Chosen, Found, Spent, Phases, TypeOK, PCs, Rows, Active,
       InTransaction
  <1>6. ASSUME NEW r \in Requests, InsertCopy(r)
        PROVE  Chosen'
    BY <1>6 DEF InsertCopy, Chosen, Found, Spent, Phases, TypeOK, PCs, Rows, Active,
       InTransaction
  <1>7. ASSUME NEW r \in Requests, SetAsUploaded(r)
        PROVE  Chosen'
    BY <1>7 DEF SetAsUploaded, Chosen, Found, Spent, Phases, TypeOK, PCs, Rows, Active,
       InTransaction
  <1>8. ASSUME NEW r \in Requests, DeleteWithFolders(r)
        PROVE  Chosen'
    BY <1>8 DEF DeleteWithFolders, Chosen, Found, Spent, Phases, TypeOK, PCs, Rows, Active,
       InTransaction
  <1>9. ASSUME NEW r \in Requests, FindRows(r)
        PROVE  Chosen'
    BY <1>9 DEF FindRows, Chosen, Found, Spent, Phases, TypeOK, PCs, Rows, Active,
       InTransaction
  <1>10. ASSUME NEW r \in Requests, RemoveRow(r)
        PROVE  Chosen'
    BY <1>10 DEF RemoveRow, Chosen, Found, Spent, Phases, TypeOK, PCs, Rows, Active,
       InTransaction
  <1>11. ASSUME NEW r \in Requests, Removed(r)
        PROVE  Chosen'
    BY <1>11 DEF Removed, Chosen, Found, Spent, Phases, TypeOK, PCs, Rows, Active,
       InTransaction
  <1>12. ASSUME NEW r \in Requests, CheckParent(r)
        PROVE  Chosen'
    BY <1>12 DEF CheckParent, Chosen, Found, Spent, Phases, TypeOK, PCs, Rows, Active,
       InTransaction
  <1>13. ASSUME NEW r \in Requests, PutFolder(r)
        PROVE  Chosen'
    BY <1>13 DEF PutFolder, Rollback, Chosen, Found, Spent, Phases, TypeOK, PCs, Rows, Active,
       InTransaction
  <1>14. ASSUME NEW r \in Requests, Commit(r)
        PROVE  Chosen'
    BY <1>14 DEF Commit, Chosen, Found, Spent, Phases, TypeOK, PCs, Rows, Active, InTransaction
  <1>15. ASSUME NEW r \in Requests, Fail(r)
        PROVE  Chosen'
    BY <1>15 DEF Fail, Rollback, Chosen, Found, Spent, Phases, TypeOK, PCs, Rows, Active,
       InTransaction
  <1>16. ASSUME NEW r \in Requests, HangUp(r)
        PROVE  Chosen'
    BY <1>16 DEF HangUp, Rollback, Chosen, Found, Spent, Phases, TypeOK, PCs, Rows, Active,
       InTransaction
  <1> QED
    BY <1>1, <1>2, <1>3, <1>4, <1>5, <1>6, <1>7, <1>8, <1>9, <1>10, <1>11, <1>12, <1>13, <1>14, <1>15, <1>16
       DEF Next, Arrive, Handle, Idle

LEMMA Invariant == Spec => []Inv
  <1>1. Inv /\ [Next]_vars => Inv'
    BY TypeNext, PhasesNext, OneRowNext, FoundNext, RemoversNext, DeletedNext, CheckedNext,
       ChosenNext DEF Inv
  <1> QED
    BY InvInit, <1>1, PTL DEF Spec

-----------------------------------------------------------------------------
(***************************************************************************)
(* The theorems.                                                           *)
(***************************************************************************)

\* However uploads, folders and deletes interleave, fail or are dropped, a path has one
\* row at most.
THEOREM NoPathTwice == Spec => []OneRowPerPath
  <1>1. Inv => OneRowPerPath
    BY DEF Inv
  <1> QED
    BY <1>1, Invariant, PTL

\* What a delete has found is gone when it answers with success.
THEOREM WhatIsDeletedIsGone == Spec => []DeletedIsGone
  <1>1. Inv => DeletedIsGone
    <2> SUFFICES ASSUME Inv, NEW r \in Requests, answer[r] = "ok", NEW x \in target[r]
                 PROVE  row[x] = "absent"
      BY DEF DeletedIsGone
    <2>1. pc[r] \in {"done", "gone"} /\ x \in Rows
      BY DEF Inv, Phases, TypeOK
    <2>2. remover[x] # r
      BY <2>1, RowsOfRequests DEF Inv, Removers, InTransaction
    <2> QED
      BY <2>2 DEF Inv, Deleted
  <1> QED
    BY <1>1, Invariant, PTL

\* create_file_anyway is refused only by a row it could not know of.
THEOREM RefusedByStaleRead == Spec => RefusedByNewRow
  <1>1. ASSUME Inv, [Next]_vars, NEW r \in Requests, pc[r] = "insert", answer'[r] = "unknown"
        PROVE  \E x \in Rows \ seen[r] : Live(x) /\ path[x] = path[r]
    <2>1. answer[r] = "none"
      BY <1>1 DEF Inv, Phases
    <2>2. Taken(path[r])
      BY <1>1, <2>1
         DEF Next, vars, Idle, Arrive, Handle, CreateFolder, UploadTo, CreateFile, ReadCopies,
             AskDelete, InsertCopy, SetAsUploaded, DeleteWithFolders, FindRows, RemoveRow,
             Removed, CheckParent, PutFolder, Commit, Fail, HangUp, Goto, Return, Inv, TypeOK,
             InTransaction
    <2> QED
      BY <1>1, <2>2 DEF Taken, Inv, Chosen, TypeOK
  <1>2. Inv /\ [Next]_vars =>
          \A r \in Requests : pc[r] = "insert" /\ answer'[r] = "unknown" =>
             \E x \in Rows \ seen[r] : Live(x) /\ path[x] = path[r]
    BY <1>1
  <1> QED
    BY <1>2, Invariant, PTL DEF Spec, RefusedByNewRow

\* A row goes by the fallback of its upload, or when the delete that found it commits.
LEMMA HowRowsGo ==
    ASSUME Inv, [Next]_vars, NEW x \in Rows, Live(x), row'[x] # "live"
    PROVE  \/ x \in Requests /\ DeleteWithFolders(x)
           \/ \E r \in Requests : Commit(r) /\ remover[x] = r
  <1> USE RowsOfRequests DEF Live, Inv, TypeOK, Phases
  <1>1. row' # row
    OBVIOUS
  <1>2. ASSUME NEW r \in Requests, Rollback(r)
        PROVE  FALSE
    BY <1>2 DEF Rollback
  <1>3. ASSUME NEW r \in Requests, NEW p, NEW next, CreateFile(r, p, next)
        PROVE  FALSE
    BY <1>3, <1>1 DEF CreateFile
  <1>4. ASSUME NEW r \in Requests, InsertCopy(r)
        PROVE  FALSE
    BY <1>4, <1>1 DEF InsertCopy
  <1>5. ASSUME NEW r \in Requests, PutFolder(r)
        PROVE  FALSE
    BY <1>5, <1>2 DEF PutFolder
  <1>6. ASSUME NEW r \in Requests, DeleteWithFolders(r)
        PROVE  x = r
    BY <1>6 DEF DeleteWithFolders
  <1>7. ASSUME NEW r \in Requests, Commit(r)
        PROVE  remover[x] = r
    BY <1>7 DEF Commit
  <1>8. PICK r \in Requests : Arrive(r) \/ Handle(r) \/ Fail(r) \/ HangUp(r)
    BY <1>1 DEF Next, Idle, vars
  <1>9. DeleteWithFolders(r) \/ Commit(r)
    BY <1>1, <1>2, <1>3, <1>4, <1>5, <1>8
       DEF Arrive, Handle, Fail, HangUp, CreateFolder, UploadTo, ReadCopies, AskDelete,
           SetAsUploaded, FindRows, RemoveRow, Removed, CheckParent
  <1> QED
    BY <1>6, <1>7, <1>9

\* What LIKE matches is in the folder, or it is misread.
LEMMA LikeIsInside ==
    ASSUME NEW d, NEW p
    PROVE  <<d, p>> \notin Misread => (Like(d, p) <=> Inside(d, p))
  BY DEF Like

\* What LIKE matches is as deep as the folder.
LEMMA LikeDepth ==
    ASSUME NEW d, NEW p, Like(d, p)
    PROVE  Len(d) <= Len(p.dir)
  <1>1. CASE <<d, p>> \in Misread
    <2>1. <<d, p>>[1] = d /\ <<d, p>>[2] = p
      OBVIOUS
    <2> QED
      BY <1>1, <2>1, MisreadAssumption
  <1>2. CASE <<d, p>> \notin Misread
    BY <1>2 DEF Like, Inside
  <1> QED
    BY <1>1, <1>2

\* A row goes only by a delete that names it, or whose folder LIKE takes for a pattern of
\* its path, or by the fallback of its own upload.
THEOREM RowsGoByMatch == Spec => OnlyMatchedRowsGo
  <1> DEFINE Matched(r, x) ==
                \/ Named(asked[r], path[x])
                \/ IsFolder(asked[r]) /\ <<asked[r].dir, path[x]>> \in Misread
  <1>1. ASSUME Inv, [Next]_vars, NEW x \in Rows, Goes(x)
        PROVE  \/ x \in Requests /\ FallsBack(x)
               \/ \E r \in Requests : Commits(r) /\ Matched(r, x)
    <2>1. ASSUME x \in Requests, DeleteWithFolders(x)
          PROVE  FallsBack(x)
      BY <1>1, <2>1 DEF DeleteWithFolders, Return, FallsBack, Inv, TypeOK
    <2>2. ASSUME NEW r \in Requests, Commit(r), remover[x] = r
          PROVE  Commits(r) /\ Matched(r, x)
      <3>1. x \in target[r]
        BY <1>1, <2>2, RowsOfRequests DEF Inv, Removers
      <3>2. Matches(asked[r], path[x])
        BY <1>1, <3>1 DEF Inv, Found
      <3>3. Matched(r, x)
        BY <3>2, LikeIsInside DEF Matches, Named
      <3> QED
        BY <1>1, <2>2, <3>3 DEF Commit, Return, Commits, Inv, Phases, TypeOK
    <2> QED
      BY <1>1, <2>1, <2>2, HowRowsGo DEF Goes
  <1>2. Inv /\ [Next]_vars =>
          \A x \in Rows : Goes(x) =>
             \/ x \in Requests /\ FallsBack(x)
             \/ \E r \in Requests :
                   /\ Commits(r)
                   /\ \/ Named(asked[r], path[x])
                      \/ IsFolder(asked[r]) /\ <<asked[r].dir, path[x]>> \in Misread
    BY <1>1
  <1> QED
    BY <1>2, Invariant, PTL DEF Spec, OnlyMatchedRowsGo

\* The first n components of a directory.
LEMMA FirstComponents ==
    ASSUME NEW s \in Seq(Components), NEW n \in 0 .. Len(s)
    PROVE  /\ SubSeq(s, 1, n) \in Seq(Components)
           /\ Len(SubSeq(s, 1, n)) = n
           /\ \A i \in 1 .. n : SubSeq(s, 1, n)[i] = s[i]
  OBVIOUS

\* A folder around a deleted row is in the folder that was asked for, or around the one
\* that may be put back.
LEMMA AroundTheParent ==
    ASSUME NEW a \in Paths, NEW p \in Paths, Named(a, p),
           NEW n \in 1 .. Len(p.dir), ~(IsFolder(a) /\ Inside(a.dir, FolderPath(SubSeq(p.dir, 1, n))))
    PROVE  Inside(SubSeq(p.dir, 1, n), FolderPath(Parent(a)))
  <1> DEFINE d == SubSeq(p.dir, 1, n)
  <1>1. a.dir \in Seq(Components) /\ p.dir \in Seq(Components)
    BY DEF Paths
  <1>2. d \in Seq(Components) /\ Len(d) = n /\ \A i \in 1 .. n : d[i] = p.dir[i]
    BY <1>1, FirstComponents
  <1> HIDE DEF d
  <1>3. CASE ~IsFolder(a)
    <2>1. p.dir = a.dir /\ a.dir # <<>>
      BY <1>1, <1>3 DEF Named
    <2>2. FolderPath(Parent(a)).dir = p.dir
      BY <1>3, <2>1 DEF Parent, FolderPath
    <2> QED
      BY <1>1, <1>2, <2>2 DEF Inside, d
  <1>4. CASE IsFolder(a)
    <2> DEFINE s == SubSeq(a.dir, 1, Len(a.dir) - 1)
    <2>1. Len(a.dir) <= Len(p.dir) /\ \A i \in 1 .. Len(a.dir) : p.dir[i] = a.dir[i]
      BY <1>4 DEF Named, Inside
    <2>2. n < Len(a.dir)
      <3>1. CASE Len(a.dir) <= n
        <4>1. Inside(a.dir, FolderPath(d))
          BY <1>1, <1>2, <2>1, <3>1 DEF Inside, FolderPath
        <4> QED
          BY <1>4, <4>1 DEF d
      <3> QED
        BY <1>1, <3>1
    <2>3. Len(a.dir) - 1 \in 0 .. Len(a.dir)
      BY <1>1, <2>2
    <2>4. /\ s \in Seq(Components) /\ Len(s) = Len(a.dir) - 1
          /\ \A i \in 1 .. Len(a.dir) - 1 : s[i] = a.dir[i]
      BY <1>1, <2>3, FirstComponents
    <2> HIDE DEF s
    <2>5. s # <<>>
      BY <2>2, <2>4, <1>1
    <2>6. Parent(a) = s
      BY <1>4, <2>5 DEF Parent, s
    <2>7. FolderPath(Parent(a)).dir = s
      BY <2>6 DEF FolderPath
    <2>8. Inside(d, FolderPath(Parent(a)))
      BY <1>1, <1>2, <2>1, <2>2, <2>4, <2>7 DEF Inside
    <2> QED
      BY <2>8 DEF d
  <1> QED
    BY <1>3, <1>4

\* A folder that nobody asked to delete disappears only with a failed upload, by a
\* pattern, or when deletes overlap.
THEOREM FolderGoesOnlyByOverlap == Spec => FolderGoesByOverlap
  <1> DEFINE Overlap(r) ==
                /\ seen[r] # {}
                /\ \A y \in seen[r] : row[y] = "absent" \/ ~Inside(path[r].dir, path[y])
  <1>1. ASSUME Inv, [Next]_vars, NEW x \in Rows, NEW n \in 1 .. Len(path[x].dir), Live(x),
               \A y \in Rows : Inside(SubSeq(path[x].dir, 1, n), path[y]) => row'[y] # "live"
        PROVE  \/ \E r \in Requests : FallsBack(r) /\ Inside(SubSeq(path[x].dir, 1, n), path[r])
               \/ \E r \in Requests :
                     /\ Commits(r)
                     /\ \/ /\ IsFolder(asked[r])
                           /\ Inside(asked[r].dir, FolderPath(SubSeq(path[x].dir, 1, n)))
                        \/ remover[x] = r /\ ~Named(asked[r], path[x])
                        \/ Overlap(r)
    <2> DEFINE d == SubSeq(path[x].dir, 1, n)
    <2>1. path[x] \in Paths /\ path[x].dir \in Seq(Components)
      BY <1>1 DEF Inv, TypeOK, Paths
    <2>2. d \in Seq(Components) /\ Len(d) = n /\ \A i \in 1 .. n : d[i] = path[x].dir[i]
      BY <2>1, FirstComponents
    <2>3. \A y \in Rows : Inside(d, path[y]) => row'[y] # "live"
      BY <1>1
    <2>4. Inside(d, path[x])
      <3> HIDE DEF d
      <3> QED
        BY <2>1, <2>2 DEF Inside
    <2> HIDE DEF d
    <2>5. ASSUME x \in Requests, DeleteWithFolders(x)
          PROVE  FallsBack(x) /\ Inside(d, path[x])
      BY <1>1, <2>4, <2>5 DEF DeleteWithFolders, Return, FallsBack, Inv, TypeOK
    <2>6. ASSUME NEW r \in Requests, Commit(r), remover[x] = r,
                 ~(IsFolder(asked[r]) /\ Inside(asked[r].dir, FolderPath(d))),
                 Named(asked[r], path[x])
          PROVE  Overlap(r)
      <3>1. x \in target[r] /\ asked[r] \in Paths /\ pc[r] = "commit"
        BY <1>1, <2>6, RowsOfRequests DEF Inv, Removers, TypeOK, Commit
      <3>3. path[r] = FolderPath(Parent(asked[r]))
        BY <1>1, <3>1 DEF Inv, Checked, InTransaction
      <3>4. Inside(d, path[r])
        BY <2>1, <2>6, <3>1, <3>3, AroundTheParent DEF d
      <3>5. row[r] # "inserted"
        BY <1>1, <2>3, <2>6, <3>4, RowsOfRequests DEF Commit, Inv, Removers, TypeOK
      <3>6. seen[r] # {}
        BY <1>1, <3>1, <3>5 DEF Inv, Checked
      <3>7. ASSUME NEW y \in seen[r], Inside(path[r].dir, path[y])
            PROVE  row[y] = "absent"
        <4>1. y \in Rows /\ Spent(y) /\ remover[y] # r
          BY <1>1, <3>1, <3>7 DEF Inv, TypeOK, Found, Checked
        <4>3. Inside(d, path[y])
          <5>1. /\ path[r].dir \in Seq(Components) /\ path[y].dir \in Seq(Components)
            BY <1>1, <4>1, RowsOfRequests DEF Inv, TypeOK, Paths
          <5> QED
            BY <2>2, <3>4, <3>7, <5>1 DEF Inside
        <4>4. row'[y] # "live"
          BY <2>3, <4>1, <4>3
        <4>5. row[y] # "live"
          BY <1>1, <2>6, <4>1, <4>4 DEF Commit, Inv, TypeOK
        <4>6. row[y] # "inserted"
          BY <1>1, <4>1 DEF Inv, Phases, SeedsStay, Spent, Rows
        <4> QED
          BY <1>1, <4>1, <4>5, <4>6 DEF Inv, TypeOK
      <3> QED
        BY <3>6, <3>7
    <2>7. ASSUME NEW r \in Requests, Commit(r)
          PROVE  Commits(r)
      BY <1>1, <2>7 DEF Commit, Return, Commits, Inv, Phases, TypeOK
    <2>8. row'[x] # "live"
      BY <2>3, <2>4
    <2> QED
      BY <1>1, <2>5, <2>6, <2>7, <2>8, HowRowsGo DEF d
  <1>2. Inv /\ [Next]_vars =>
          \A x \in Rows : \A n \in 1 .. Len(path[x].dir) :
             LET d == SubSeq(path[x].dir, 1, n) IN
             Live(x) /\ (\A y \in Rows : Inside(d, path[y]) => row'[y] # "live") =>
                 \/ \E r \in Requests : FallsBack(r) /\ Inside(d, path[r])
                 \/ \E r \in Requests :
                       /\ Commits(r)
                       /\ \/ IsFolder(asked[r]) /\ Inside(asked[r].dir, FolderPath(d))
                          \/ remover[x] = r /\ ~Named(asked[r], path[x])
                          \/ /\ seen[r] # {}
                             /\ \A y \in seen[r] :
                                   row[y] = "absent" \/ ~Inside(path[r].dir, path[y])
    BY <1>1
  <1> QED
    BY <1>2, Invariant, PTL DEF Spec, FolderGoesByOverlap

-----------------------------------------------------------------------------
(***************************************************************************)
(* Listings.                                                               *)
(***************************************************************************)

LEMMA FoldersType == \A d \in Folders : d \in Seq(Components)
  <1> SUFFICES ASSUME NEW d \in Folders
               PROVE  d \in Seq(Components)
    OBVIOUS
  <1>1. FolderPath(d) \in Paths
    BY FoldersAssumption
  <1>2. FolderPath(d).dir \in Seq(Components)
    BY <1>1 DEF Paths
  <1> QED
    BY <1>2 DEF FolderPath

LEMMA NoComponentIsEmpty == \A c \in Components : c # <<>>
  BY DEF Components

\* Two directories of one length, one in the other, are the same.
LEMMA InsideOfSameLength ==
    ASSUME NEW d \in Seq(Components), NEW p \in Paths, Inside(d, p), Len(p.dir) = Len(d)
    PROVE  p.dir = d
  <1>1. p.dir \in Seq(Components)
    BY DEF Paths
  <1> QED
    BY <1>1 DEF Inside

\* A row in a folder of the folder d is in the folder that its component names.
LEMMA InsideOneDeeper ==
    ASSUME NEW d \in Seq(Components), NEW p \in Paths, Inside(d, p), Len(p.dir) > Len(d)
    PROVE  Inside(Append(d, p.dir[Len(d) + 1]), p)
  <1>1. p.dir \in Seq(Components)
    BY DEF Paths
  <1>2. p.dir[Len(d) + 1] \in Components
    BY <1>1
  <1> QED
    BY <1>1, <1>2 DEF Inside

\* A listing of a folder that LIKE reads as it is written shows what is in the folder
\* and nothing else, and its query finds a size for every entry that it reads so too
\* (list_dir).
THEOREM ListingsAreExact == Spec => []ListingIsExact
  <1>1. ASSUME TypeOK, NEW d \in Folders \cup {<<>>}, Literal(d)
        PROVE  LET shown == {x \in Rows : Live(x) /\ x \in uploaded /\ Inside(d, path[x])}
                   within == {x \in shown : Len(path[x].dir) > Len(d)}
                   files == {x \in shown \ within : path[x].leaf \notin {<<>>, Nameless}}
                   folders == {x \in within : path[x].dir[Len(d) + 1] # Nameless}
               IN  /\ {<<e.name, e.is_file>> : e \in ListDir(d)}
                          = {<<path[x].leaf, TRUE>> : x \in files}
                               \cup {<<path[x].dir[Len(d) + 1], FALSE>> : x \in folders}
                   /\ \A e \in ListDir(d) : e.sized \/ ~Literal(Append(d, e.name))
    <2> DEFINE shown == {x \in Rows : Live(x) /\ x \in uploaded /\ Inside(d, path[x])}
               within == {x \in shown : Len(path[x].dir) > Len(d)}
               files == {x \in shown \ within : path[x].leaf \notin {<<>>, Nameless}}
               folders == {x \in within : path[x].dir[Len(d) + 1] # Nameless}
               part(x) == Part(path[x], Len(d) + 1)
               is_file(x) == path[x].dir = d /\ path[x].leaf = part(x)
               sized(x) == is_file(x) \/ Below(Append(d, part(x))) # {}
               Entry(x) == [name |-> part(x), is_file |-> is_file(x), sized |-> sized(x)]
               Brief(e) == <<e.name, e.is_file>>
               listed == {x \in Rows : Listable(d, x)}
    <2>1. d \in Seq(Components)
      <3>1. <<>> \in Seq(Components)
        OBVIOUS
      <3> QED
        BY <3>1, FoldersType
    <2>2. ASSUME NEW x \in Rows
          PROVE  /\ path[x] \in Paths /\ path[x].dir \in Seq(Components)
                 /\ Len(path[x].dir) \in Nat /\ Len(d) \in Nat
      BY <1>1, <2>1 DEF TypeOK, Paths
    <2>3. ASSUME NEW x \in Rows
          PROVE  Live(x) => (d = <<>> \/ Like(d, path[x]) <=> Inside(d, path[x]))
      <3> SUFFICES ASSUME Live(x)
                   PROVE  d = <<>> \/ Like(d, path[x]) <=> Inside(d, path[x])
        OBVIOUS
      <3>1. <<d, path[x]>> \notin Misread
        BY <1>1 DEF Literal
      <3>2. Like(d, path[x]) <=> Inside(d, path[x])
        BY <3>1, LikeIsInside
      <3>3. d = <<>> => Inside(d, path[x])
        BY <2>2 DEF Inside
      <3> QED
        BY <3>2, <3>3
    <2>4. ASSUME NEW x \in within
          PROVE  /\ x \in listed <=> x \in folders
                 /\ part(x) = path[x].dir[Len(d) + 1] /\ is_file(x) = FALSE
                 /\ sized(x) \/ ~Literal(Append(d, part(x)))
      <3>1. x \in Rows /\ Live(x) /\ x \in uploaded /\ Inside(d, path[x])
            /\ Len(path[x].dir) > Len(d)
        OBVIOUS
      <3>2. part(x) = path[x].dir[Len(d) + 1]
        BY <2>2, <3>1 DEF Part
      <3>3. part(x) \in Components
        BY <2>2, <3>1, <3>2
      <3>4. part(x) # <<>> /\ ~is_file(x)
        <4>1. path[x].dir # d
          BY <2>2, <3>1
        <4> QED
          BY <3>3, <4>1, NoComponentIsEmpty
      <3>5. ASSUME Literal(Append(d, part(x)))
            PROVE  x \in Below(Append(d, part(x)))
        <4>1. Inside(Append(d, part(x)), path[x])
          BY <2>1, <2>2, <3>1, <3>2, InsideOneDeeper
        <4>2. <<Append(d, part(x)), path[x]>> \notin Misread
          BY <3>1, <3>5 DEF Literal
        <4> QED
          BY <3>1, <4>1, <4>2, LikeIsInside DEF Below
      <3>7. x \in listed <=> x \in folders
        BY <2>3, <3>1, <3>2, <3>4 DEF Listable
      <3> QED
        BY <3>2, <3>4, <3>5, <3>7
    <2>5. ASSUME NEW x \in shown \ within
          PROVE  /\ x \in listed <=> x \in files
                 /\ part(x) = path[x].leaf /\ is_file(x) = TRUE
      <3>1. x \in Rows /\ Live(x) /\ x \in uploaded /\ Inside(d, path[x])
            /\ ~(Len(path[x].dir) > Len(d))
        OBVIOUS
      <3>2. Len(path[x].dir) = Len(d)
        BY <2>2, <3>1 DEF Inside
      <3>3. path[x].dir = d
        BY <2>1, <2>2, <3>1, <3>2, InsideOfSameLength
      <3>4. part(x) = path[x].leaf
        BY <2>2, <3>2 DEF Part
      <3>6. x \in listed <=> x \in files
        BY <2>3, <3>1, <3>4 DEF Listable
      <3> QED
        BY <3>3, <3>4, <3>6
    <2>6. \A x \in listed : x \in shown
      BY <2>3 DEF Listable
    <2>7. ListDir(d) = {Entry(x) : x \in listed}
      BY DEF ListDir
    <2>8. listed = files \cup folders
      <3> HIDE DEF part, is_file, sized, listed, shown, within
      <3> QED
        BY <2>4, <2>5, <2>6 DEF within
    <2>9. \A x \in listed : /\ Brief(Entry(x)) = <<part(x), is_file(x)>>
                           /\ Entry(x).sized = sized(x) /\ Entry(x).name = part(x)
      <3> HIDE DEF part, is_file, sized
      <3> QED
        OBVIOUS
    <2> HIDE DEF Entry, Brief, part, is_file, sized, listed, shown, within
    <2>10. {Brief(e) : e \in ListDir(d)} = {<<part(x), is_file(x)>> : x \in listed}
      BY <2>7, <2>9
    <2>11. {<<part(x), is_file(x)>> : x \in listed}
              = {<<path[x].leaf, TRUE>> : x \in files}
                   \cup {<<path[x].dir[Len(d) + 1], FALSE>> : x \in folders}
      BY <2>4, <2>5, <2>8
    <2>12. ASSUME NEW e \in ListDir(d)
           PROVE  e.sized \/ ~Literal(Append(d, e.name))
      <3>1. PICK x \in listed : e = Entry(x)
        BY <2>7
      <3>2. CASE x \in files
        BY <2>5, <2>9, <3>1, <3>2 DEF sized
      <3>3. CASE x \in folders
        BY <2>4, <2>9, <3>1, <3>3
      <3> QED
        BY <2>8, <3>1, <3>2, <3>3
    <2> QED
      BY <2>10, <2>11, <2>12 DEF Brief, shown, within
  <1>2. TypeOK => ListingIsExact
    BY <1>1 DEF ListingIsExact
  <1> QED
    BY <1>2, TypeCorrect, PTL

-----------------------------------------------------------------------------
(***************************************************************************)
(* Circles of waiting requests.                                            *)
(***************************************************************************)

\* What a delete in its transaction was asked for.
Asked == \A r \in Requests : pc[r] \in {"delete"} \cup InTransaction => asked[r] \in Deletes

LEMMA AskedAlways == Spec => []Asked
  <1>1. Init => Asked
    BY DEF Init, Asked, InTransaction
  <1>2. TypeOK /\ Asked /\ [Next]_vars => Asked'
    BY DEF Next, vars, Idle, Arrive, Handle, CreateFolder, UploadTo, CreateFile, ReadCopies,
           AskDelete, InsertCopy, SetAsUploaded, DeleteWithFolders, FindRows, RemoveRow, Removed,
           CheckParent, PutFolder, Commit, Fail, HangUp, Goto, Return, InTransaction, Asked, TypeOK
  <1> QED
    BY <1>1, <1>2, TypeCorrect, PTL DEF Spec

\* A request that is waited for, and waits itself, has deleted a row that the other has
\* found or wants to insert.
LEMMA WaitingForADelete ==
    ASSUME Inv, NEW r \in Requests, NEW q \in WaitsFor(r), WaitsFor(q) # {}
    PROVE  /\ q \in Requests
           /\ pc[q] \in {"lock", "put"}
           /\ \E x \in Rows :
                 /\ Live(x) /\ remover[x] = q /\ x \in target[q]
                 /\ pc[r] = "lock" => q # r /\ x \in target[r]
                 /\ pc[r] = "put" => q # r /\ path[x] = path[r]
  <1> USE DEF Inv
  <1>1. ASSUME NEW x \in Rows, row[x] = "inserted", q = x
        PROVE  FALSE
    <2>1. x \in Requests /\ pc[x] = "commit"
      BY <1>1 DEF SeedsStay, Phases, Rows
    <2> QED
      BY <1>1, <2>1 DEF WaitsFor
  <1>2. PICK x \in Rows :
           /\ remover[x] = q /\ q # None
           /\ pc[r] = "lock" => q # r /\ x \in target[r]
           /\ pc[r] = "put" => q # r /\ path[x] = path[r]
    <2>1. CASE pc[r] = "lock"
      BY <2>1 DEF WaitsFor, Left, TypeOK
    <2>2. CASE pc[r] \in {"insert", "put"}
      BY <1>1, <2>2 DEF WaitsFor, Unsettled
    <2>3. CASE pc[r] \in {"transfer", "undo"}
      BY <2>3, RowsOfRequests DEF WaitsFor
    <2>4. CASE pc[r] \notin {"lock", "insert", "put", "transfer", "undo"}
      BY <2>4 DEF WaitsFor
    <2> QED
      BY <2>1, <2>2, <2>3, <2>4
  <1>3. q \in Requests /\ Live(x) /\ x \in target[q] /\ pc[q] \in InTransaction
    BY <1>2 DEF TypeOK, Removers, Live
  <1>4. pc[q] \in {"lock", "put"}
    BY <1>3 DEF WaitsFor, InTransaction
  <1> QED
    BY <1>2, <1>3, <1>4

\* The parent of a folder: one component less, or the folder without name.
LEMMA ParentOfFolder ==
    ASSUME NEW a \in Deletes, IsFolder(a)
    PROVE  /\ a.dir \in Seq(Components) /\ Len(a.dir) >= 1
           /\ Len(a.dir) > 1 => Len(Parent(a)) = Len(a.dir) - 1
           /\ Len(a.dir) = 1 => Parent(a) = << Nameless >>
  <1>1. a \in Paths /\ a # Unset
    BY DeletesAssumption
  <1>2. a.dir \in Seq(Components) /\ a = [dir |-> a.dir, leaf |-> <<>>]
    BY <1>1 DEF Paths, IsFolder
  <1>3. a.dir # <<>>
    BY <1>1, <1>2 DEF Unset, FolderPath
  <1>4. Len(a.dir) \in Nat /\ Len(a.dir) >= 1
    BY <1>2, <1>3
  <1> DEFINE s == SubSeq(a.dir, 1, Len(a.dir) - 1)
  <1>5. s \in Seq(Components) /\ Len(s) = Len(a.dir) - 1
    <2>1. Len(a.dir) - 1 \in 0 .. Len(a.dir)
      BY <1>4
    <2> QED
      BY <1>2, <2>1, FirstComponents
  <1>6. Parent(a) = IF s = <<>> THEN << Nameless >> ELSE s
    BY DEF Parent, Nameless
  <1> HIDE DEF s
  <1> QED
    BY <1>2, <1>4, <1>5, <1>6

\* Requests wait for each other in a circle only when the delete of a folder has found
\* several rows and another has found one of them too.  Else all in the circle are
\* about to put back a folder, each around the parent of the next, which has no end but
\* at the root, where two would have deleted one row (delete).
THEOREM CirclesShareRows == Spec => []CircleSharesRows
  <1>1. ASSUME Inv, Asked, NEW S \in SUBSET Requests, S # {},
               \A r \in S : WaitsFor(r) \cap S # {},
               ~\E q, r \in S : \E x, y \in target[q] : q # r /\ x \in target[r] /\ x # y
        PROVE  FALSE
    <2> DEFINE By(r, q) == q \in WaitsFor(r) \cap S
    <2>1. ASSUME NEW r \in S, NEW q \in S, By(r, q)
          PROVE  /\ pc[q] \in {"lock", "put"}
                 /\ \E x \in Rows :
                       /\ Live(x) /\ remover[x] = q /\ x \in target[q]
                       /\ pc[r] = "lock" => q # r /\ x \in target[r]
                       /\ pc[r] = "put" => q # r /\ path[x] = path[r]
      BY <1>1, <2>1, WaitingForADelete
    <2>2. ASSUME NEW r \in S
          PROVE  \E q \in S : By(r, q)
      BY <1>1
    <2> HIDE DEF By
    <2>3. ASSUME NEW r \in S, NEW q \in S, By(r, q)
          PROVE  pc[q] = "put"
      <3> SUFFICES ASSUME pc[q] = "lock"
                   PROVE  FALSE
        BY <2>1, <2>3
      <3>1. PICK x \in Rows : remover[x] = q /\ x \in target[q]
        BY <2>1, <2>3
      <3>2. PICK g \in S : By(q, g)
        BY <2>2
      <3>3. PICK z \in Rows : remover[z] = g /\ z \in target[g] /\ g # q /\ z \in target[q]
        BY <2>1, <3>2
      <3> QED
        BY <1>1, <3>1, <3>3
    <2> DEFINE Putting == {q \in S : \E r \in S : By(r, q)}
               Circle == {q \in S : \E r \in Putting : By(r, q)}
               Depth(r) == Len(asked[r].dir)
    <2>4. Circle # {} /\ \A r \in Circle : r \in S /\ pc[r] = "put" /\ \E q \in Circle : By(r, q)
      BY <1>1, <2>2, <2>3
    <2>5. ASSUME NEW r \in S, pc[r] = "put"
          PROVE  asked[r] \in Deletes /\ path[r] = FolderPath(Parent(asked[r]))
      BY <1>1, <2>5 DEF Inv, Asked, Checked, InTransaction
    <2>6. ASSUME NEW r \in S, NEW q \in S, By(r, q), pc[r] = "put"
          PROVE  IsFolder(asked[q]) /\ Like(asked[q].dir, FolderPath(Parent(asked[r])))
      <3>1. PICK x \in Rows : x \in target[q] /\ path[x] = path[r]
        BY <2>1, <2>6
      <3>2. Matches(asked[q], path[r])
        BY <1>1, <3>1 DEF Inv, Found
      <3>3. IsFolder(path[r])
        <4>1. path[r] = FolderPath(Parent(asked[r]))
          BY <2>5, <2>6
        <4> QED
          BY <4>1 DEF IsFolder, FolderPath
      <3> QED
        BY <2>5, <2>6, <3>2, <3>3 DEF Matches
    <2>7. ASSUME NEW r \in Circle
          PROVE  asked[r] \in Deletes /\ IsFolder(asked[r])
      <3>1. \E p \in S : By(p, r) /\ pc[p] = "put"
        BY <2>3
      <3> QED
        BY <2>4, <2>5, <2>6, <3>1
    <2>8. PICK r \in Circle : \A q \in Circle : Depth(r) <= Depth(q)
      <3>1. {Depth(q) : q \in Circle} \in SUBSET Nat /\ {Depth(q) : q \in Circle} # {}
        <4>1. ASSUME NEW q \in Circle
              PROVE  Depth(q) \in Nat
          <5>1. asked[q].dir \in Seq(Components)
            BY <2>7, ParentOfFolder
          <5> QED
            BY <5>1
        <4> HIDE DEF Depth, Circle
        <4> QED
          BY <2>4, <4>1
      <3>2. PICK m \in {Depth(q) : q \in Circle} : \A n \in {Depth(q) : q \in Circle} : m <= n
        BY <3>1, LeastNumber
      <3> QED
        BY <3>2
    <2>9. PICK q \in Circle : By(r, q)
      BY <2>4
    <2> HIDE DEF Circle, Putting
    <2>10. Depth(q) <= Len(Parent(asked[r])) /\ Depth(r) \in Nat /\ Depth(q) \in Nat
      <3>1. Len(asked[q].dir) <= Len(FolderPath(Parent(asked[r])).dir)
        BY <2>4, <2>6, <2>9, LikeDepth
      <3>2. FolderPath(Parent(asked[r])).dir = Parent(asked[r])
        BY DEF FolderPath
      <3> QED
        BY <2>4, <2>6, <2>9, <3>1, <3>2, ParentOfFolder
    <2>11. Depth(r) = 1 /\ Depth(q) = 1
      <3>1. Depth(r) >= 1 /\ Depth(q) >= 1 /\ Depth(r) <= Depth(q)
        BY <2>7, <2>8, ParentOfFolder
      <3>2. CASE Depth(r) > 1
        <4>1. Len(Parent(asked[r])) = Depth(r) - 1
          BY <2>7, <3>2, ParentOfFolder
        <4>2. Depth(q) <= Depth(r) - 1
          BY <2>10, <4>1
        <4> HIDE DEF Depth
        <4> QED
          BY <2>10, <3>1, <4>2
      <3>3. CASE Depth(r) = 1
        <4>1. Parent(asked[r]) = << Nameless >>
          BY <2>7, <3>3, ParentOfFolder
        <4>2. Depth(q) <= 1
          BY <2>10, <4>1
        <4> HIDE DEF Depth
        <4> QED
          BY <2>10, <3>1, <3>3, <4>2
      <3> HIDE DEF Depth
      <3> QED
        BY <2>10, <3>1, <3>2, <3>3
    <2>12. path[r] = FolderPath(<< Nameless >>) /\ path[q] = path[r]
      <3>1. Parent(asked[r]) = << Nameless >> /\ Parent(asked[q]) = << Nameless >>
        BY <2>7, <2>11, ParentOfFolder
      <3> QED
        BY <2>4, <2>5, <3>1
    <2>13. PICK h \in Circle : By(q, h)
      BY <2>4
    <2>14. PICK x \in Rows : Live(x) /\ remover[x] = q /\ path[x] = path[r]
      BY <2>1, <2>4, <2>9
    <2>15. PICK y \in Rows : Live(y) /\ remover[y] = h /\ path[y] = path[q] /\ h # q
      BY <2>1, <2>4, <2>13
    <2>16. x = y
      BY <1>1, <2>12, <2>14, <2>15 DEF Inv, OneRowPerPath, Live
    <2> QED
      BY <2>14, <2>15, <2>16
  <1>2. Inv /\ Asked => CircleSharesRows
    BY <1>1 DEF CircleSharesRows
  <1> QED
    BY <1>2, Invariant, AskedAlways, PTL
=============================================================================
