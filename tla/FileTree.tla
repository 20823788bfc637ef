------------------------------ MODULE FileTree ------------------------------
(***************************************************************************)
(* The tree of files and folders that XenovraDrive keeps in the table      *)
(* files: repositories/files.rs and the handlers of services/files.rs that *)
(* change it.  A folder is a row whose path ends with a slash, or no row   *)
(* at all while there are files below it.  Statements run at PostgreSQL's  *)
(* READ COMMITTED: each sees what was committed when it began, and waits   *)
(* for the rows and the unique keys that open transactions have changed.   *)
(* What happens to the content of a file is FilePipeline's subject; here a *)
(* transfer takes some time and succeeds or fails.  One storage.           *)
(***************************************************************************)
EXTENDS Integers, Sequences

CONSTANTS
    Requests,      \* HTTP requests; each lends its identity to the row it inserts
    Seeds,         \* rows that the table holds at the start
    Names,         \* names of folders, and of files without the suffix
    Empty,         \* the name of no characters
    Wide,          \* names with more bytes than characters
    Misread,       \* <<d, p>>: LIKE takes the folder d for a pattern and errs about p
    Folders,       \* what create_folder may ask for
    Uploads,       \* what upload_to and upload_anyway may ask for
    Deletes,       \* what delete may ask for
    InitialPaths,  \* where the rows of the start may be
    None           \* no request

(***************************************************************************)
(* A component of a path is a name and the number of a copy: <<n, 0>> is   *)
(* "n" and <<n, 2>> is "n (2)".  The row of a folder ends with a slash and *)
(* has the leaf <<>>.                                                      *)
(***************************************************************************)
Components == (Names \cup {Empty}) \X Nat
Paths == [dir : Seq(Components), leaf : Components \cup {<<>>}]

FolderPath(d) == [dir |-> d, leaf |-> <<>>]
IsFolder(p) == p.leaf = <<>>
Unset == FolderPath(<<>>)
Rows == Requests \cup Seeds

ASSUME NamesAssumption == Empty \notin Names /\ Wide \subseteq Names
\* Every slash of a pattern needs a slash of the path, whatever _ and % stand for.
ASSUME MisreadAssumption ==
    /\ Misread \subseteq Seq(Components) \X Paths
    /\ \A dp \in Misread : dp[1] # <<>> /\ Len(dp[1]) <= Len(dp[2].dir)
ASSUME FoldersAssumption == \A d \in Folders : d # <<>> /\ FolderPath(d) \in Paths
ASSUME UploadsAssumption ==
    Uploads \subseteq Paths /\ \A p \in Uploads : ~IsFolder(p) /\ p.leaf[2] = 0
ASSUME DeletesAssumption == Deletes \subseteq Paths /\ Unset \notin Deletes
ASSUME InitialPathsAssumption == InitialPaths \subseteq Paths
ASSUME RowsAssumption == Requests \cap Seeds = {} /\ None \notin Requests

VARIABLES
    path,      \* column path, of a row that is there or will be
    row,       \* "absent", "inserted" by a transaction that is still open, or "live"
    uploaded,  \* rows with is_uploaded
    remover,   \* the open transaction that deleted a row, or None
    pc,        \* where a handler is
    asked,     \* the path a request names
    seen,      \* the rows that the check of a statement found
    target,    \* the rows that the DELETE of a request found
    answer     \* what a handler returned

vars == <<path, row, uploaded, remover, pc, asked, seen, target, answer>>

PCs == {"new", "insert", "transfer", "undo",
        "delete", "lock", "parent", "put", "commit", "done", "gone"}
InTransaction == {"lock", "parent", "put", "commit"}
Active == PCs \ {"new", "done", "gone"}

TypeOK ==
    /\ path \in [Rows -> Paths]
    /\ row \in [Rows -> {"absent", "inserted", "live"}]
    /\ uploaded \subseteq Rows
    /\ remover \in [Rows -> Requests \cup {None}]
    /\ pc \in [Requests -> PCs]
    /\ asked \in [Requests -> Paths]
    /\ seen \in [Requests -> SUBSET Rows]
    /\ target \in [Requests -> SUBSET Rows]
    /\ answer \in [Requests -> {"none", "ok", "taken", "unknown", "failed"}]

\* The start: files and folders that earlier requests left.
Init ==
    /\ path \in [Rows -> InitialPaths \cup {Unset}]
    /\ \A x \in Rows : path[x] = Unset <=> x \in Requests
    /\ \A x, y \in Seeds : path[x] = path[y] => x = y
    /\ row = [x \in Rows |-> IF x \in Seeds THEN "live" ELSE "absent"]
    /\ uploaded = Seeds
    /\ remover = [x \in Rows |-> None]
    /\ pc = [r \in Requests |-> "new"]
    /\ asked = [r \in Requests |-> Unset]
    /\ seen = [r \in Requests |-> {}]
    /\ target = [r \in Requests |-> {}]
    /\ answer = [r \in Requests |-> "none"]

-----------------------------------------------------------------------------
(***************************************************************************)
(* Paths.                                                                  *)
(***************************************************************************)
\* Path p is in folder d, name for name.
Inside(d, p) == Len(d) <= Len(p.dir) /\ \A i \in 1 .. Len(d) : p.dir[i] = d[i]

\* path LIKE d || '/%'.  The signs _ and % in the names of d stand for other signs,
\* slashes too, and for a backslash LIKE reads only the sign that follows it.
Like(d, p) == IF <<d, p>> \in Misread THEN ~Inside(d, p) ELSE Inside(d, p)

\* Mutant of Matches: LIKE for files too, so that copies match as well.
MatchesCopies(a, p) ==
    IF IsFolder(a) THEN Like(a.dir, p) ELSE p.dir = a.dir /\ ~IsFolder(p) /\ p.leaf[1] = a.leaf[1]

\* The WHERE clause of delete and of list_message_ids_by_path.
Matches(a, p) == IF IsFolder(a) THEN Like(a.dir, p) ELSE p = a

\* Path::parent with a slash: the parent of a path at the root is "", which makes "/".
Parent(a) ==
    LET d == IF IsFolder(a) THEN SubSeq(a.dir, 1, Len(a.dir) - 1) ELSE a.dir
    IN  IF d = <<>> THEN << <<Empty, 0>> >> ELSE d

-----------------------------------------------------------------------------
(***************************************************************************)
(* Rows, locks and unique keys.                                            *)
(***************************************************************************)
Live(x) == row[x] = "live"
Below(d) == {x \in Rows : Live(x) /\ Like(d, path[x])}

\* The rows of path p that open transactions have inserted or deleted: an INSERT of
\* p waits until there is none.
Unsettled(p) ==
    {x \in Rows : path[x] = p /\ (row[x] = "inserted" \/ (Live(x) /\ remover[x] # None))}
Settled(p) == Unsettled(p) = {}

Taken(p) == \E x \in Rows : Live(x) /\ path[x] = p

Return(r, a) ==
    /\ pc' = [pc EXCEPT ![r] = "done"]
    /\ answer' = [answer EXCEPT ![r] = a]

Goto(r, where) ==
    /\ pc' = [pc EXCEPT ![r] = where]
    /\ UNCHANGED answer

\* The transaction of r ends without effect.
Rollback(r) ==
    /\ row' = [row EXCEPT ![r] = IF row[r] = "inserted" THEN "absent" ELSE row[r]]
    /\ remover' = [x \in Rows |-> IF remover[x] = r THEN None ELSE remover[x]]

-----------------------------------------------------------------------------
(***************************************************************************)
(* create_folder, upload_to, upload_anyway.                                *)
(***************************************************************************)

\* _create_file: one INSERT.
CreateFile(r, p, next) ==
    /\ pc[r] = "new"
    /\ Settled(p)
    /\ asked' = [asked EXCEPT ![r] = p]
    /\ \/ /\ ~Taken(p)
          /\ path' = [path EXCEPT ![r] = p]
          /\ row' = [row EXCEPT ![r] = "live"]
          /\ IF next = "done" THEN Return(r, "ok") ELSE Goto(r, next)
       \/ Taken(p) /\ Return(r, "taken") /\ UNCHANGED <<path, row>>
    /\ UNCHANGED <<remover, seen, target>>

\* A folder counts as uploaded at once.
CreateFolder(r, d) ==
    /\ CreateFile(r, FolderPath(d), "done")
    /\ uploaded' = IF row'[r] = "live" THEN uploaded \cup {r} ELSE uploaded

UploadTo(r, p) ==
    /\ CreateFile(r, p, "transfer")
    /\ UNCHANGED uploaded

\* The rows that the pattern of create_file_anyway finds for p, and their numbers.
CopiesOf(p) ==
    {x \in Rows : Live(x) /\ path[x].dir = p.dir /\ ~IsFolder(path[x])
                          /\ path[x].leaf[1] = p.leaf[1]}
Numbers(p) == {path[x].leaf[2] : x \in CopiesOf(p)}

IsWide(p) ==
    p.leaf[1] \in Wide \/ \E i \in DOMAIN p.dir : p.dir[i][1] \in Wide

\* Mutants of CopyNumbers: the largest number again; the gaps are looked for downwards.
CopyNumbersAgain(N) == IF 0 \notin N THEN {0} ELSE {k \in N : \A j \in N : j <= k}
CopyNumbersDown(N) == IF 0 \notin N THEN {0} ELSE {n - 1 : n \in N}

\* The CASE of create_file_anyway.  The first gap is joined with the numbers in no
\* order, and LIMIT 1 takes any row of it: the gap, or one more than the largest.
CopyNumbers(N) ==
    LET free == {n + 1 : n \in N} \ N
    IN  IF 0 \notin N THEN {0}
        ELSE {k \in free : (\A j \in free : k <= j) \/ (\A j \in free : j <= k)}

\* The SELECT of create_file_anyway.  A number is cut out of a path from a place counted
\* in bytes and with a length counted in characters: after a wide name nothing of a
\* number of few digits is left, and its cast to numeric fails.
ReadCopies(r, p) ==
    LET N == Numbers(p) IN
    /\ pc[r] = "new"
    /\ asked' = [asked EXCEPT ![r] = p]
    /\ seen' = [seen EXCEPT ![r] = CopiesOf(p)]
    /\ \/ /\ ~(IsWide(p) /\ 0 \in N /\ N # {0})
          /\ \E k \in CopyNumbers(N) :
                path' = [path EXCEPT ![r] = [dir |-> p.dir, leaf |-> <<p.leaf[1], k>>]]
          /\ Goto(r, "insert")
       \/ /\ IsWide(p) /\ 0 \in N /\ N # {0}
          /\ UNCHANGED path
          /\ Return(r, "unknown")
    /\ UNCHANGED <<row, uploaded, remover, target>>

\* Its INSERT: a unique key that is taken by now is not told from other errors.
InsertCopy(r) ==
    /\ pc[r] = "insert"
    /\ Settled(path[r])
    /\ \/ /\ ~Taken(path[r])
          /\ row' = [row EXCEPT ![r] = "live"]
          /\ Goto(r, "transfer")
       \/ Taken(path[r]) /\ Return(r, "unknown") /\ UNCHANGED row
    /\ UNCHANGED <<path, uploaded, remover, asked, seen, target>>

\* _upload when the manager has answered: set_as_uploaded runs in any case, and
\* updates nothing when the row is gone.
SetAsUploaded(r) ==
    /\ pc[r] = "transfer"
    /\ remover[r] = None
    /\ uploaded' = IF Live(r) THEN uploaded \cup {r} ELSE uploaded
    /\ Return(r, "ok") \/ Goto(r, "undo")
    /\ UNCHANGED <<path, row, remover, asked, seen, target>>

\* Mutant of DeleteWithFolders: the fallback names the path.
DeleteWithFoldersByPath(r) ==
    /\ pc[r] = "undo"
    /\ Settled(path[r])
    /\ row' = [x \in Rows |-> IF path[x] = path[r] THEN "absent" ELSE row[x]]
    /\ Return(r, "failed")
    /\ UNCHANGED <<path, uploaded, remover, asked, seen, target>>

\* The fallback of a failed upload: the row only, whatever its folder looks like then.
DeleteWithFolders(r) ==
    /\ pc[r] = "undo"
    /\ remover[r] = None
    /\ row' = [row EXCEPT ![r] = "absent"]
    /\ Return(r, "failed")
    /\ UNCHANGED <<path, uploaded, remover, asked, seen, target>>

-----------------------------------------------------------------------------
(***************************************************************************)
(* delete: the messages go first, which takes some time, then one          *)
(* transaction of two statements.                                          *)
(***************************************************************************)
AskDelete(r, a) ==
    /\ pc[r] = "new"
    /\ asked' = [asked EXCEPT ![r] = a]
    /\ path' = [path EXCEPT ![r] = FolderPath(Parent(a))]
    /\ Goto(r, "delete")
    /\ UNCHANGED <<row, uploaded, remover, seen, target>>

\* BEGIN, and the DELETE finds its rows: those that were committed when it began.
FindRows(r) ==
    /\ pc[r] = "delete"
    /\ target' = [target EXCEPT ![r] = {x \in Rows : Live(x) /\ Matches(asked[r], path[x])}]
    /\ Goto(r, "lock")
    /\ UNCHANGED <<path, row, uploaded, remover, asked, seen>>

\* Mutant of Left: it deletes the row of the folder too.
LeftWithFolder(r) ==
    {x \in Rows : Live(x) /\ remover[x] # r /\ (x \in target[r] \/ path[x] = path[r])}

\* What it has found and has not deleted yet; rows that are gone by now are passed over.
Left(r) == {x \in target[r] : Live(x) /\ remover[x] # r}

RemoveRow(r) ==
    /\ pc[r] = "lock"
    /\ \E x \in Left(r) : remover[x] = None /\ remover' = [remover EXCEPT ![x] = r]
    /\ UNCHANGED <<path, row, uploaded, pc, asked, seen, target, answer>>

\* Mutant of Removed: rows that others have deleted, for now, are passed over too.
RemovedSkipLocked(r) ==
    /\ pc[r] = "lock"
    /\ \A x \in Left(r) : remover[x] # None
    /\ Goto(r, "parent")
    /\ UNCHANGED <<path, row, uploaded, remover, asked, seen, target>>

\* It deletes them one by one, in the order of some scan, and waits for a row that
\* another open transaction has deleted until that one ends.
Removed(r) ==
    /\ pc[r] = "lock"
    /\ Left(r) = {}
    /\ Goto(r, "parent")
    /\ UNCHANGED <<path, row, uploaded, remover, asked, seen, target>>

\* Mutant of CheckParent: one statement with the DELETE, of which it does not see the
\* effects.
CheckParentBefore(r) ==
    /\ pc[r] = "parent"
    /\ LET left == Below(path[r].dir) IN
          /\ seen' = [seen EXCEPT ![r] = left]
          /\ Goto(r, IF left = {} THEN "put" ELSE "commit")
    /\ UNCHANGED <<path, row, uploaded, remover, asked, target>>

\* NOT EXISTS of the second statement: is anything left below the parent folder?
CheckParent(r) ==
    /\ pc[r] = "parent"
    /\ LET left == {x \in Below(path[r].dir) : remover[x] # r} IN
          /\ seen' = [seen EXCEPT ![r] = left]
          /\ Goto(r, IF left = {} THEN "put" ELSE "commit")
    /\ UNCHANGED <<path, row, uploaded, remover, asked, target>>

\* Mutant of PutFolder: the table has no UNIQUE (path, storage_id).
PutFolderUnchecked(r) ==
    /\ pc[r] = "put"
    /\ row' = [row EXCEPT ![r] = "inserted"]
    /\ uploaded' = uploaded \cup {r}
    /\ Goto(r, "commit")
    /\ UNCHANGED <<path, remover, asked, seen, target>>

\* Its INSERT puts the folder back.  A unique key that is taken by now rolls back
\* the DELETE too.
PutFolder(r) ==
    /\ pc[r] = "put"
    /\ Settled(path[r])
    /\ \/ /\ ~Taken(path[r])
          /\ row' = [row EXCEPT ![r] = "inserted"]
          /\ uploaded' = uploaded \cup {r}
          /\ Goto(r, "commit")
          /\ UNCHANGED remover
       \/ Taken(path[r]) /\ Rollback(r) /\ Return(r, "unknown") /\ UNCHANGED uploaded
    /\ UNCHANGED <<path, asked, seen, target>>

Commit(r) ==
    /\ pc[r] = "commit"
    /\ row' = [x \in Rows |-> IF remover[x] = r THEN "absent"
                              ELSE IF x = r /\ row[r] = "inserted" THEN "live"
                              ELSE row[x]]
    /\ remover' = [x \in Rows |-> IF remover[x] = r THEN None ELSE remover[x]]
    /\ Return(r, "ok")
    /\ UNCHANGED <<path, uploaded, asked, seen, target>>

\* A statement of the transaction fails.
Fail(r) ==
    /\ pc[r] \in InTransaction
    /\ Rollback(r)
    /\ Return(r, "unknown")
    /\ UNCHANGED <<path, uploaded, asked, seen, target>>

\* The client hangs up: axum drops the handler at its await point, and with it the
\* transaction.  A crash of the process is every handler hanging up.
HangUp(r) ==
    /\ pc[r] \in Active
    /\ Rollback(r)
    /\ Goto(r, "gone")
    /\ UNCHANGED <<path, uploaded, asked, seen, target>>

Arrive(r) ==
    \/ \E d \in Folders : CreateFolder(r, d)
    \/ \E p \in Uploads : UploadTo(r, p) \/ ReadCopies(r, p)
    \/ \E a \in Deletes : AskDelete(r, a)

Handle(r) ==
    \/ InsertCopy(r) \/ SetAsUploaded(r) \/ DeleteWithFolders(r)
    \/ FindRows(r) \/ RemoveRow(r) \/ Removed(r) \/ CheckParent(r) \/ PutFolder(r) \/ Commit(r)

\* Every request is finished: the server waits for more.
Idle ==
    /\ \A r \in Requests : pc[r] \in {"done", "gone"}
    /\ UNCHANGED vars

Next ==
    \/ \E r \in Requests : Arrive(r) \/ Handle(r) \/ Fail(r) \/ HangUp(r)
    \/ Idle

Spec == Init /\ [][Next]_vars

-----------------------------------------------------------------------------
(***************************************************************************)
(* What list_dir shows: a component of the matching paths, DISTINCT.       *)
(***************************************************************************)

\* SPLIT_PART(path, '/', n), where <<>> stands for no characters.
Part(p, n) ==
    IF n <= Len(p.dir) THEN p.dir[n] ELSE IF n = Len(p.dir) + 1 THEN p.leaf ELSE <<>>

\* A component of no characters.
Nameless == <<Empty, 0>>

\* Mutant of Listable: the rows of uploads under way are listed too.
ListableEarly(d, x) ==
    /\ Live(x)
    /\ d = <<>> \/ Like(d, path[x])
    /\ Part(path[x], Len(d) + 1) \notin {<<>>, Nameless}

\* The WHERE clause of list_dir.
Listable(d, x) ==
    /\ Live(x) /\ x \in uploaded
    /\ d = <<>> \/ Like(d, path[x])
    /\ Part(path[x], Len(d) + 1) \notin {<<>>, Nameless}

\* An entry without size is an error of the whole request: SUM of no rows is NULL.
ListDir(d) ==
    LET Entry(x) ==
            LET part == Part(path[x], Len(d) + 1)
                is_file == path[x].dir = d /\ path[x].leaf = part
            IN  [name |-> part, is_file |-> is_file,
                 sized |-> is_file \/ Below(Append(d, part)) # {}]
    IN  {Entry(x) : x \in {y \in Rows : Listable(d, y)}}

-----------------------------------------------------------------------------
(***************************************************************************)
(* Safety.                                                                 *)
(***************************************************************************)

\* What a request that asks for a means: the file a, or all that is in the folder a.
Named(a, p) == IF IsFolder(a) THEN Inside(a.dir, p) ELSE p = a

\* No path has two rows, though every INSERT of a folder follows a check that is
\* stale by then, and though transactions roll back (delete, create_file_anyway).
OneRowPerPath ==
    \A x, y \in Rows : row[x] # "absent" /\ row[y] # "absent" /\ path[x] = path[y] => x = y

\* An answered delete left none of the rows its DELETE found, also those that
\* another transaction had deleted by then and perhaps gave back (delete).
DeletedIsGone ==
    \A r \in Requests : answer[r] = "ok" => \A x \in target[r] : row[x] = "absent"

\* No row is misread when the folder d is listed.
Literal(d) == \A x \in Rows : Live(x) => <<d, path[x]>> \notin Misread

\* Opening a folder that LIKE reads as it is written shows its uploaded files and the
\* folders that hold uploaded rows, each once unless it has no name; and the request
\* is an error only for a folder in it that LIKE misreads (list_dir against its
\* meaning).
ListingIsExact ==
    \A d \in {e \in Folders \cup {<<>>} : Literal(e)} :
        LET shown == {x \in Rows : Live(x) /\ x \in uploaded /\ Inside(d, path[x])}
            within == {x \in shown : Len(path[x].dir) > Len(d)}
            files == {x \in shown \ within : path[x].leaf \notin {<<>>, Nameless}}
            folders == {x \in within : path[x].dir[Len(d) + 1] # Nameless}
        IN  /\ {<<e.name, e.is_file>> : e \in ListDir(d)}
                   = {<<path[x].leaf, TRUE>> : x \in files}
                        \cup {<<path[x].dir[Len(d) + 1], FALSE>> : x \in folders}
            /\ \A e \in ListDir(d) : e.sized \/ ~Literal(Append(d, e.name))

Commits(r) == pc[r] = "commit" /\ answer[r] = "none" /\ answer'[r] = "ok"
FallsBack(r) == pc[r] = "undo" /\ answer'[r] = "failed"
Goes(x) == Live(x) /\ row'[x] = "absent"

\* A row goes only when a delete of its path or of a folder around it commits, or of a
\* folder that LIKE takes for a pattern of its path, or by the fallback of the upload
\* that inserted it (delete, delete_with_folders).
OnlyMatchedRowsGo ==
    [][\A x \in Rows : Goes(x) =>
          \/ x \in Requests /\ FallsBack(x)
          \/ \E r \in Requests :
                /\ Commits(r)
                /\ \/ Named(asked[r], path[x])
                   \/ IsFolder(asked[r]) /\ <<asked[r].dir, path[x]>> \in Misread]_vars

\* A folder disappears only when it or a folder around it is deleted, with the
\* last upload in it that fails, when a delete elsewhere takes its rows by a pattern,
\* or when every row that kept a delete from putting it back was not in it, or was
\* removed by others before that delete committed (delete, line 404).
FolderGoesByOverlap ==
    [][\A x \in Rows : \A n \in 1 .. Len(path[x].dir) :
          LET d == SubSeq(path[x].dir, 1, n) IN
          Live(x) /\ (\A y \in Rows : Inside(d, path[y]) => row'[y] # "live") =>
              \/ \E r \in Requests : FallsBack(r) /\ Inside(d, path[r])
              \/ \E r \in Requests :
                    /\ Commits(r)
                    /\ \/ IsFolder(asked[r]) /\ Inside(asked[r].dir, FolderPath(d))
                       \/ remover[x] = r /\ ~Named(asked[r], path[x])
                       \/ /\ seen[r] # {}
                          /\ \A y \in seen[r] :
                                row[y] = "absent" \/ ~Inside(path[r].dir, path[y])]_vars

\* upload_anyway is refused for its name only by a row that came after it had looked
\* for a free one (create_file_anyway).
RefusedByNewRow ==
    [][\A r \in Requests : pc[r] = "insert" /\ answer'[r] = "unknown" =>
          \E x \in Rows \ seen[r] : Live(x) /\ path[x] = path[r]]_vars

\* The open transactions whose rows or keys r waits for.
WaitsFor(r) ==
    LET Holders(X) == {remover[x] : x \in X} \ {None}
        waits == Unsettled(path[r])
    IN  CASE pc[r] = "lock" -> Holders(Left(r))
          [] pc[r] \in {"insert", "put"} ->
                (Holders(waits) \cup {x \in waits : row[x] = "inserted"}) \ {r}
          [] pc[r] \in {"transfer", "undo"} -> Holders({r})
          [] OTHER -> {}

\* Requests wait for each other in a circle, which PostgreSQL ends by failing one of
\* them, only when one is the delete of a folder that has found several rows and
\* another found one of them too: uploads, and deletes of single files, never
\* fail each other so (delete).
CircleSharesRows ==
    \A S \in SUBSET Requests :
        S # {} /\ (\A r \in S : WaitsFor(r) \cap S # {}) =>
            \E q, r \in S : \E x, y \in target[q] : q # r /\ x \in target[r] /\ x # y

-----------------------------------------------------------------------------
(***************************************************************************)
(* What the repository says and the code does not do.                      *)
(***************************************************************************)

\* A delete takes the path it names and what is in the folder it names ("a single
\* file, or all files under a folder path", repositories/files.rs:349-350).
OnlyNamedRowsGo ==
    [][\A x \in Rows : Goes(x) =>
          \/ x \in Requests /\ FallsBack(x)
          \/ \E r \in Requests : Commits(r) /\ Named(asked[r], path[x])]_vars

\* Every folder can be opened ("you can create files and folders, download files,
\* view file/folder info and delete them", README.md:163).
FoldersCanBeOpened ==
    \A d \in Folders \cup {<<>>} : \A e \in ListDir(d) : e.sized

\* create_file_anyway gives every upload a name ("Creates a file even if the given
\* path already exists", repositories/files.rs:68).
CreatesAnyway ==
    [][\A r \in Requests : pc[r] \in {"new", "insert"} => answer'[r] # "unknown"]_vars
=============================================================================
