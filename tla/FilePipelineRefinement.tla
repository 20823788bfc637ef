----------------------- MODULE FilePipelineRefinement -----------------------
(***************************************************************************)
(* FilePipeline implements FileStore, for every value of its constants and *)
(* with all its faults: each step of a handler, of the manager or of the   *)
(* environment is one step of the store, or none.                          *)
(***************************************************************************)
EXTENDS FilePipelineProofs

\* A path has at most one row: UNIQUE (path, storage_id) of the table files.
OneFilePerPath ==
    \A f, g \in Files : Live(f) /\ Live(g) /\ call[f].path = call[g].path => f = g

-----------------------------------------------------------------------------
(***************************************************************************)
(* The directory that the table files stands for.                          *)
(***************************************************************************)

LEMMA FileOfOne == TheFile({}) = None /\ \A f : TheFile({f}) = f
BY DEF TheFile

\* The row of a path is the file in the directory.
LEMMA DirectoryAt ==
    ASSUME OneFilePerPath, NEW p \in Paths, NEW f \in RowsAt({p})
    PROVE  RowsAt({p}) = {f} /\ Directory[p] = f
<1>1. ASSUME NEW g \in RowsAt({p}) PROVE g = f
  BY <1>1 DEF RowsAt, OneFilePerPath
<1>2. RowsAt({p}) = {f}
  BY <1>1
<1> QED
  BY <1>2, FileOfOne DEF Directory

\* The directory is a function of the rows, path by path.
LEMMA DirectoryKept ==
    ASSUME NEW p \in Paths, RowsAt({p})' = RowsAt({p})
    PROVE  Directory'[p] = Directory[p]
BY DEF Directory

LEMMA DirectoryTaken ==
    ASSUME NEW p \in Paths, NEW f, RowsAt({p})' = {f}
    PROVE  Directory'[p] = f
BY FileOfOne DEF Directory

LEMMA DirectoryFreed ==
    ASSUME NEW p \in Paths, RowsAt({p})' = {}
    PROVE  Directory'[p] = None
BY FileOfOne DEF Directory

\* Rows that stay where they are leave the whole directory as it is.
LEMMA DirectoryUnchanged ==
    ASSUME \A f \in Files : /\ Live(f)' <=> Live(f)
                            /\ Live(f) => call'[f].path = call[f].path
    PROVE  Directory' = Directory
<1>1. ASSUME NEW p \in Paths PROVE RowsAt({p})' = RowsAt({p})
  BY DEF RowsAt
<1> QED
  BY <1>1 DEF Directory

\* What downloads have served depends on the answered downloads alone.
LEMMA ServedUnchanged ==
    ASSUME \A r \in Requests :
              \/ call'[r] = call[r] /\ answer'[r] = answer[r]
              \/ /\ ~(call[r].kind = "download" /\ answer[r].status = "ok")
                 /\ ~(call'[r].kind = "download" /\ answer'[r].status = "ok")
    PROVE  Served' = Served
<1>1. ASSUME NEW r \in Requests, NEW f
      PROVE  (call'[r].kind = "download" /\ call'[r].file = f
                  /\ answer'[r].status = "ok" /\ answer'[r].body # {})
             <=> (call[r].kind = "download" /\ call[r].file = f
                  /\ answer[r].status = "ok" /\ answer[r].body # {})
  OBVIOUS
<1> QED
  BY <1>1 DEF Served

-----------------------------------------------------------------------------
(***************************************************************************)
(* One file per path.                                                      *)
(***************************************************************************)
LEMMA StepOneFilePerPath ==
    ASSUME IInv, Settled, OneFilePerPath, [Next]_vars
    PROVE  OneFilePerPath'
<1> USE DEF Files
<1>t. TypeOK /\ \A f \in Files : Live(f) => IsUpload(f)
  BY DEF IInv, DataInv, RowsInv
\* Rows that stay keep their path; nothing else may be there.
<1>q. ASSUME \A f \in Files : Live(f)' => Live(f)
      PROVE  OneFilePerPath'
  <2>1. \A f \in Files : Live(f) => call'[f] = call[f]
    BY <1>t, SavedForever
  <2> QED
    BY <1>q, <2>1 DEF OneFilePerPath
<1>1. ASSUME NEW r \in Requests, NEW p \in Paths, NEW size \in 0 .. MaxSize,
             CreateFile(r, p, size)
      PROVE  OneFilePerPath'
  <2>1. /\ RowsAt({p}) = {}
        /\ files' = [files EXCEPT ![r] = "pending"]
        /\ call' = [call EXCEPT ![r] = [kind |-> "upload", path |-> p, size |-> size]]
    BY <1>1 DEF CreateFile
  <2>2. /\ call'[r].path = p
        /\ \A f \in Files \ {r} : call'[f] = call[f] /\ (Live(f)' <=> Live(f))
    BY <1>t, <2>1 DEF TypeOK, Live
  <2>3. \A f \in Files : Live(f) => call[f].path # p
    BY <2>1 DEF RowsAt
  <2> QED
    BY <2>2, <2>3 DEF OneFilePerPath
<1>2. ASSUME NEW r \in Requests, SetAsUploaded(r) PROVE OneFilePerPath'
  BY <1>2, <1>q, <1>t DEF SetAsUploaded, TypeOK, Live
<1>3. ASSUME NEW r \in Requests, DeleteWithFolders(r) \/ DeleteRows(r) PROVE OneFilePerPath'
  BY <1>3, <1>q, <1>t DEF DeleteWithFolders, DeleteRows, DeleteFiles, tables, TypeOK, Live
<1>4. CASE UNCHANGED files
  BY <1>4, <1>q DEF Live
<1> QED
  BY <1>1, <1>2, <1>3, <1>4, FilesSteps

\* No two rows of the table files ever have the same path.
LEMMA PathsAreUnique == Spec => []OneFilePerPath
<1>1. Init => OneFilePerPath
  BY DEF Init, OneFilePerPath, Live
<1>2. IInv /\ OneFilePerPath /\ [Next]_vars => OneFilePerPath'
  <2>1. IInv /\ [Next]_vars => Settled
    BY StepSettles DEF IInv
  <2> QED
    BY <2>1, StepOneFilePerPath
<1> QED
  BY <1>1, <1>2, Invariance, PTL DEF Spec

-----------------------------------------------------------------------------
(***************************************************************************)
(* The steps.                                                              *)
(***************************************************************************)
UsedFiles == {f \in Files : IsUpload(f)}
StoredFiles == {f \in Files : Saved(f)}
ConfirmedFiles == {f \in Files : Acknowledged(f)}

\* The refinement mapping, under names of its own.
LEMMA Mapping ==
    /\ Store!storeVars = <<Directory, UsedFiles, StoredFiles, ConfirmedFiles, Served>>
    /\ Store!Next <=>
          \/ \E f \in Files : \/ Store!Reserve(f) \/ Store!Store(f)
                              \/ Store!Confirm(f) \/ Store!Serve(f)
          \/ \E p \in Paths : Store!Withdraw(p)
          \/ \E S \in Scopes : Store!Delete(S)
BY DEF Store!storeVars, Store!Next, UsedFiles, StoredFiles, ConfirmedFiles

\* A step that neither touches the table files nor settles anything for a client is no
\* step of the store.
LEMMA Stutters ==
    ASSUME \A f \in Files : /\ Live(f)' <=> Live(f)
                            /\ Live(f) => call'[f].path = call[f].path
                            /\ IsUpload(f)' <=> IsUpload(f)
                            /\ Saved(f)' <=> Saved(f)
                            /\ Acknowledged(f)' <=> Acknowledged(f),
           Served' = Served
    PROVE  UNCHANGED Store!storeVars
<1>1. Directory' = Directory
  BY DirectoryUnchanged
<1>2. UNCHANGED <<UsedFiles, StoredFiles, ConfirmedFiles>>
  BY DEF UsedFiles, StoredFiles, ConfirmedFiles
<1> QED
  BY <1>1, <1>2 DEF Store!storeVars, UsedFiles, StoredFiles, ConfirmedFiles

\* Only the answer of r changes, and it is no success of an upload or a download.
LEMMA AnswerStutters ==
    ASSUME TypeOK, NEW r \in Requests, UNCHANGED <<call, reply>>, answer[r].status = "none",
           \A f \in Files : Live(f)' <=> Live(f),
           \/ UNCHANGED answer
           \/ \E a : /\ answer' = [answer EXCEPT ![r] = a]
                     /\ a.status # "ok" \/ call[r].kind \notin {"upload", "download"}
    PROVE  UNCHANGED Store!storeVars
<1>1. \A f \in Files : /\ IsUpload(f)' <=> IsUpload(f)
                       /\ Saved(f)' <=> Saved(f)
                       /\ Acknowledged(f)' <=> Acknowledged(f)
  BY DEF IsUpload, Saved, Acknowledged, TypeOK, Files
<1>2. Served' = Served
  BY ServedUnchanged DEF TypeOK
<1> QED
  BY <1>1, <1>2, Stutters

\* An upload takes its path (create_file, create_file_anyway).
LEMMA CreateFileReserves ==
    ASSUME IInv, NEW r \in Requests, NEW p \in Paths, NEW size \in 0 .. MaxSize,
           CreateFile(r, p, size)
    PROVE  Store!Reserve(r)
<1> USE DEF Files
<1>1. /\ RowsAt({p}) = {}
      /\ files' = [files EXCEPT ![r] = "pending"]
      /\ call' = [call EXCEPT ![r] = [kind |-> "upload", path |-> p, size |-> size]]
      /\ UNCHANGED <<reply, answer>>
  BY DEF CreateFile, Goto
<1>2. TypeOK /\ call[r].kind = "none" /\ reply[r].status = "none" /\ answer[r].status = "none"
  BY DEF CreateFile, IInv, ProtocolInv, Protocol, TypeOK
<1>3. /\ call'[r].kind = "upload" /\ call'[r].path = p /\ Live(r)'
      /\ \A f \in Files \ {r} : call'[f] = call[f] /\ (Live(f)' <=> Live(f))
  BY <1>1, <1>2 DEF TypeOK, Live
<1>4. ~Live(r)
  BY <1>2 DEF IInv, DataInv, RowsInv, IsUpload
<1>5. Directory' = [Directory EXCEPT ![p] = r]
  <2>1. RowsAt({p})' = {r}
    BY <1>1, <1>3 DEF RowsAt
  <2>2. Directory'[p] = r
    BY <2>1, DirectoryTaken
  <2>3. ASSUME NEW q \in Paths \ {p} PROVE Directory'[q] = Directory[q]
    <3>1. RowsAt({q})' = RowsAt({q})
      BY <1>3, <1>4 DEF RowsAt
    <3> QED
      BY <3>1, DirectoryKept
  <2> QED
    BY <2>2, <2>3 DEF Directory
<1>6. Directory[p] = None
  BY <1>1, FileOfOne DEF Directory
<1>7. r \notin UsedFiles /\ UsedFiles' = UsedFiles \cup {r}
  BY <1>2, <1>3 DEF UsedFiles, IsUpload
<1>8. StoredFiles' = StoredFiles /\ ConfirmedFiles' = ConfirmedFiles
  BY <1>1, <1>2, <1>3 DEF StoredFiles, ConfirmedFiles, Saved, Acknowledged, IsUpload
<1>9. Served' = Served
  BY <1>1, <1>2, <1>3, ServedUnchanged
<1> QED
  BY <1>5, <1>6, <1>7, <1>8, <1>9
     DEF Store!Reserve, UsedFiles, StoredFiles, ConfirmedFiles

\* A request that inserts nothing promises nothing (download, delete, refusals).
LEMMA OtherArrivalsStutter ==
    ASSUME IInv, NEW r \in Requests,
           \/ \E p \in Paths : GetFileByPath(r, p)
           \/ \E S \in Scopes : ListMessageIds(r, S)
           \/ Refuse(r)
    PROVE  UNCHANGED Store!storeVars
<1> USE DEF Files
<1>1. pc[r] = "new" /\ UNCHANGED <<files, reply>>
  BY DEF GetFileByPath, ListMessageIds, Refuse, tables
<1>2. TypeOK /\ call[r].kind = "none" /\ answer[r].status = "none" /\ ~Live(r)
  BY <1>1 DEF IInv, ProtocolInv, Protocol, DataInv, RowsInv, IsUpload, TypeOK
<1>3. /\ \/ UNCHANGED call
         \/ \E a : a.kind # "upload" /\ call' = [call EXCEPT ![r] = a]
      /\ UNCHANGED answer \/ answer' = [answer EXCEPT ![r] = Err]
  BY DEF GetFileByPath, ListMessageIds, Refuse, Goto, Return
<1>4. /\ call'[r].kind # "upload" /\ answer'[r].status # "ok"
      /\ \A q \in Requests \ {r} : call'[q] = call[q] /\ answer'[q] = answer[q]
  BY <1>2, <1>3 DEF TypeOK, Err
<1>5. \A f \in Files : /\ Live(f)' <=> Live(f)
                       /\ Live(f) => call'[f].path = call[f].path
                       /\ IsUpload(f)' <=> IsUpload(f)
                       /\ Saved(f)' <=> Saved(f)
                       /\ Acknowledged(f)' <=> Acknowledged(f)
  BY <1>1, <1>2, <1>4 DEF Live, IsUpload, Saved, Acknowledged
<1>6. Served' = Served
  BY <1>2, <1>4, ServedUnchanged
<1> QED
  BY <1>5, <1>6, Stutters

\* Nothing is promised while a message is on its way and Bot API calls run.
LEMMA TransfersStutter ==
    ASSUME UNCHANGED <<files, call, answer>>,
           \A f \in Files : Saved(f)' <=> Saved(f)
    PROVE  UNCHANGED Store!storeVars
<1>1. \A f \in Files : /\ Live(f)' <=> Live(f)
                       /\ IsUpload(f)' <=> IsUpload(f)
                       /\ Acknowledged(f)' <=> Acknowledged(f)
  BY DEF Live, IsUpload, Acknowledged
<1>2. Served' = Served
  BY ServedUnchanged
<1> QED
  BY <1>1, <1>2, Stutters

\* The answer to a download, to a delete or to a failed upload saves no file.
LEMMA AnsweringSavesNothing ==
    ASSUME TypeOK, NEW s \in Requests, NEW a, UNCHANGED call,
           reply' = [reply EXCEPT ![s] = a], ~Saved(s), a.status # "ok" \/ ~IsUpload(s)
    PROVE  \A f \in Files : Saved(f)' <=> Saved(f)
BY DEF Files, Saved, IsUpload, TypeOK

LEMMA StartsStutter ==
    ASSUME IInv, StartUpload \/ StartDownload \/ StartDelete
    PROVE  UNCHANGED Store!storeVars
<1> DEFINE s == Head(queue)
<1>1. /\ queue # <<>> /\ queue' = Tail(queue) /\ UNCHANGED <<files, call, answer>>
      /\ UNCHANGED reply \/ reply' = [reply EXCEPT ![s] = Err]
  BY DEF StartUpload, StartDownload, StartDelete, Receive, Begin, GiveUp, tables, handlers
<1>2. TypeOK /\ Distinct
  BY DEF IInv, ProtocolInv
<1>3. s \in Requests /\ InQueue(s)
  BY <1>1, <1>2, Receiving
<1>4. ~Saved(s)
  BY <1>3 DEF IInv, ProtocolInv, Protocol, Saved
<1>5. \A f \in Files : Saved(f)' <=> Saved(f)
  <2>1. CASE UNCHANGED reply
    BY <1>1, <2>1 DEF Saved, IsUpload
  <2>2. CASE reply' = [reply EXCEPT ![s] = Err]
    BY <1>1, <1>2, <1>3, <1>4, <2>2, AnsweringSavesNothing DEF Err
  <2> QED
    BY <1>1, <2>1, <2>2
<1> QED
  BY <1>1, <1>5, TransfersStutter

\* The commit of create_chunks_batch makes the file readable, while it has its path.
LEMMA FinishUploadStores ==
    ASSUME IInv, OneFilePerPath, FinishUpload
    PROVE  Store!Store(job) \/ UNCHANGED Store!storeVars
<1> USE DEF Files
<1>1. /\ job \in Requests /\ IsUpload(job) /\ TypeOK
      /\ UNCHANGED <<files, call, answer>>
  BY DEF FinishUpload, Joined, handlers, IsUpload, IInv, TypeOK
<1>2. reply[job].status = "none" /\ ~Saved(job)
  BY <1>1 DEF IInv, ProtocolInv, Protocol, Saved
<1>3. CASE Live(job) /\ reply' = [reply EXCEPT ![job] = Ok({})]
  <2>1. StoredFiles' = StoredFiles \cup {job} /\ job \notin StoredFiles
    BY <1>1, <1>2, <1>3 DEF StoredFiles, Saved, IsUpload, Ok, TypeOK
  <2>2. call[job].path \in Paths /\ Directory[call[job].path] = job
    <3>1. call[job].path \in Paths /\ job \in RowsAt({call[job].path})
      BY <1>1, <1>3, CallTypes DEF RowsAt
    <3> QED
      BY <3>1, DirectoryAt
  <2>3. UNCHANGED <<Directory, UsedFiles, ConfirmedFiles>>
    <3>1. Directory' = Directory
      BY <1>1, DirectoryUnchanged DEF Live
    <3> QED
      BY <1>1, <3>1 DEF UsedFiles, ConfirmedFiles, Acknowledged, IsUpload
  <2>4. Served' = Served
    BY <1>1, ServedUnchanged
  <2> QED
    BY <1>1, <2>1, <2>2, <2>3, <2>4 DEF Store!Store, UsedFiles, StoredFiles, ConfirmedFiles
<1>4. CASE reply' = [reply EXCEPT ![job] = Err]
  <2>1. \A f \in Files : Saved(f)' <=> Saved(f)
    BY <1>1, <1>2, <1>4, AnsweringSavesNothing DEF Err
  <2> QED
    BY <1>1, <2>1, TransfersStutter
<1> QED
  BY <1>3, <1>4 DEF FinishUpload, Answering

LEMMA OtherFinishesStutter ==
    ASSUME IInv, FinishDownload \/ FinishDelete
    PROVE  UNCHANGED Store!storeVars
<1>1. PICK a : /\ job \in Requests /\ ~IsUpload(job) /\ TypeOK
               /\ UNCHANGED <<files, call, answer>>
               /\ reply' = [reply EXCEPT ![job] = a]
  BY DEF FinishDownload, FinishDelete, Joined, Answering, handlers, IsUpload, IInv, TypeOK
<1>2. ~Saved(job)
  BY <1>1 DEF Saved
<1>3. \A f \in Files : Saved(f)' <=> Saved(f)
  BY <1>1, <1>2, AnsweringSavesNothing
<1> QED
  BY <1>1, <1>3, TransfersStutter

\* A handler that has not returned has answered nothing.
LEMMA NotAnswered ==
    ASSUME IInv, NEW r \in Requests, pc[r] # "done"
    PROVE  TypeOK /\ answer[r].status = "none"
BY DEF IInv, ProtocolInv, Protocol, TypeOK

\* Success reaches the client after the rows are committed (_upload).
LEMMA SetAsUploadedConfirms ==
    ASSUME IInv, NEW r \in Requests, SetAsUploaded(r)
    PROVE  Store!Confirm(r) \/ UNCHANGED Store!storeVars
<1> USE DEF Files
<1>1. /\ pc[r] = "wait" /\ IsUpload(r) /\ UNCHANGED <<call, reply>>
      /\ \/ UNCHANGED files
         \/ files' = [files EXCEPT ![r] = IF Live(r) THEN "uploaded" ELSE "absent"]
      /\ \/ UNCHANGED answer
         \/ reply[r].status = "ok" /\ answer' = [answer EXCEPT ![r] = Ok({})]
  BY DEF SetAsUploaded, Replied, Return, Goto, IsUpload
<1>2. TypeOK /\ answer[r].status = "none"
  BY <1>1, NotAnswered
<1>3. \A f \in Files : Live(f)' <=> Live(f)
  BY <1>1, <1>2 DEF Live, TypeOK
<1>4. CASE UNCHANGED answer
  BY <1>1, <1>2, <1>3, <1>4, AnswerStutters
<1>5. CASE reply[r].status = "ok" /\ answer' = [answer EXCEPT ![r] = Ok({})]
  <2>1. r \in StoredFiles \ ConfirmedFiles
    BY <1>1, <1>2, <1>5 DEF StoredFiles, ConfirmedFiles, Saved, Acknowledged
  <2>2. ConfirmedFiles' = ConfirmedFiles \cup {r}
    BY <1>1, <1>2, <1>5 DEF ConfirmedFiles, Acknowledged, IsUpload, Ok, TypeOK
  <2>3. UNCHANGED <<Directory, UsedFiles, StoredFiles>>
    <3>1. Directory' = Directory
      BY <1>1, <1>3, DirectoryUnchanged
    <3> QED
      BY <1>1, <3>1 DEF UsedFiles, StoredFiles, Saved, IsUpload
  <2>4. Served' = Served
    BY <1>1, <1>2, <1>5, ServedUnchanged DEF IsUpload, TypeOK
  <2> QED
    BY <2>1, <2>2, <2>3, <2>4 DEF Store!Confirm, UsedFiles, StoredFiles, ConfirmedFiles
<1> QED
  BY <1>1, <1>4, <1>5

\* The table after a DELETE.
LEMMA RowsAfterDelete ==
    ASSUME TypeOK, NEW F \in SUBSET Files, DeleteFiles(F), UNCHANGED call,
           NEW p \in Paths
    PROVE  RowsAt({p})' = RowsAt({p}) \ F
BY DEF DeleteFiles, RowsAt, Live, TypeOK

\* The fallback gives the path of an unconfirmed upload back.
LEMMA DeleteWithFoldersWithdraws ==
    ASSUME IInv, OneFilePerPath, NEW r \in Requests, DeleteWithFolders(r)
    PROVE  (\E p \in Paths : Store!Withdraw(p)) \/ UNCHANGED Store!storeVars
<1> USE DEF Files
<1>1. /\ pc[r] = "undo" /\ UNCHANGED <<call, reply>>
      /\ answer' = [answer EXCEPT ![r] = Err]
      /\ DeleteFiles({r}) \/ UNCHANGED files
  BY DEF DeleteWithFolders, Return, tables
<1>2. TypeOK /\ answer[r].status = "none" /\ IsUpload(r)
  <2>1. Protocol(r)
    BY DEF IInv, ProtocolInv
  <2> QED
    BY <1>1, <2>1, NotAnswered DEF Protocol
<1>3. Err.status # "ok"
  BY DEF Err
<1>4. CASE DeleteFiles({r}) /\ Live(r)
  <2>0. PICK p \in Paths : p = call[r].path
    BY <1>2, CallTypes
  <2>1. r \in RowsAt({p})
    BY <1>4, <2>0 DEF RowsAt
  <2>2. RowsAt({p}) = {r} /\ Directory[p] = r
    BY <2>1, DirectoryAt
  <2>3. Directory[p] # None /\ Directory[p] \notin ConfirmedFiles
    BY <1>2, <2>2, Assumptions DEF AllAssumptions, ConfirmedFiles, Acknowledged
  <2>4. Directory' = [Directory EXCEPT ![p] = None]
    <3>1. Directory'[p] = None
      <4>1. RowsAt({p})' = {}
        BY <1>1, <1>2, <1>4, <2>1, <2>2, RowsAfterDelete
      <4> QED
        BY <2>1, <4>1, DirectoryFreed
    <3>2. ASSUME NEW q \in Paths \ {p} PROVE Directory'[q] = Directory[q]
      <4>1. r \notin RowsAt({q})
        BY <2>0, <3>2 DEF RowsAt
      <4>2. RowsAt({q})' = RowsAt({q})
        BY <1>1, <1>2, <1>4, <4>1, RowsAfterDelete
      <4> QED
        BY <4>2, DirectoryKept
    <3> QED
      BY <2>1, <3>1, <3>2 DEF Directory
  <2>5. UNCHANGED <<UsedFiles, StoredFiles, ConfirmedFiles>>
    BY <1>1, <1>2, <1>3 DEF UsedFiles, StoredFiles, ConfirmedFiles, IsUpload, Saved,
       Acknowledged, TypeOK
  <2>6. Served' = Served
    BY <1>1, <1>2, ServedUnchanged DEF IsUpload, TypeOK
  <2>7. Store!Withdraw(p)
    BY <2>3, <2>4, <2>5, <2>6 DEF Store!Withdraw, UsedFiles, StoredFiles, ConfirmedFiles
  <2> QED
    BY <2>7
<1>5. CASE UNCHANGED files \/ ~Live(r)
  <2>1. \A f \in Files : Live(f)' <=> Live(f)
    BY <1>1, <1>2, <1>5 DEF DeleteFiles, Live, TypeOK
  <2> QED
    BY <1>1, <1>2, <1>3, <2>1, AnswerStutters
<1> QED
  BY <1>1, <1>4, <1>5

\* A download returns nothing, or a file that was saved as a whole.
LEMMA ReturnDownloadServes ==
    ASSUME IInv, NEW r \in Requests, ReturnDownload(r)
    PROVE  (\E f \in Files : Store!Serve(f)) \/ UNCHANGED Store!storeVars
<1> USE DEF Files
<1> DEFINE f == call[r].file
<1>1. /\ pc[r] = "wait" /\ call[r].kind = "download"
      /\ UNCHANGED <<files, call, reply>>
      /\ answer' = [answer EXCEPT ![r] = reply[r]]
  BY DEF ReturnDownload, Replied, Return, tables
<1>2. TypeOK /\ answer[r].status = "none"
  BY <1>1, NotAnswered
<1>3. /\ \A g \in Files : /\ Live(g)' <=> Live(g)
                          /\ IsUpload(g)' <=> IsUpload(g)
                          /\ Saved(g)' <=> Saved(g)
                          /\ Acknowledged(g)' <=> Acknowledged(g)
      /\ f \in Files
  BY <1>1, <1>2, CallTypes DEF Live, IsUpload, Saved, Acknowledged, TypeOK
<1>4. CASE reply[r].status = "ok" /\ reply[r].body # {}
  <2>1. Saved(f)
    BY <1>1, <1>4 DEF IInv, DataInv, ReadsInv, Whole
  <2>2. Served' = Served \cup {f}
    BY <1>1, <1>2, <1>3, <1>4 DEF Served, TypeOK
  <2>3. CASE f \in Served
    BY <1>1, <1>3, <2>2, <2>3, Stutters
  <2>4. CASE f \notin Served
    <3>1. f \in StoredFiles
      BY <1>3, <2>1 DEF StoredFiles
    <3>2. Directory' = Directory
      BY <1>1, <1>3, DirectoryUnchanged
    <3>3. UNCHANGED <<UsedFiles, StoredFiles, ConfirmedFiles>>
      BY <1>3 DEF UsedFiles, StoredFiles, ConfirmedFiles
    <3>4. Store!Serve(f)
      BY <2>2, <2>4, <3>1, <3>2, <3>3
         DEF Store!Serve, UsedFiles, StoredFiles, ConfirmedFiles
    <3> QED
      BY <1>3, <3>4
  <2> QED
    BY <2>3, <2>4
<1>5. CASE reply[r].status # "ok"
  BY <1>1, <1>2, <1>3, <1>5, AnswerStutters
<1>6. CASE reply[r].body = {}
  <2>1. Served' = Served
    BY <1>1, <1>2, <1>6 DEF Served, TypeOK
  <2> QED
    BY <1>1, <1>3, <2>1, Stutters
<1> QED
  BY <1>4, <1>5, <1>6

\* The second half of a delete takes every file of its scope out of the directory.
LEMMA DeleteRowsDeletes ==
    ASSUME IInv, NEW r \in Requests, DeleteRows(r)
    PROVE  (\E S \in Scopes : Store!Delete(S)) \/ UNCHANGED Store!storeVars
<1> USE DEF Files
<1> DEFINE S == call[r].scope
<1>1. PICK a : /\ pc[r] = "rows" /\ UNCHANGED <<call, reply>>
               /\ answer' = [answer EXCEPT ![r] = a]
               /\ DeleteFiles(RowsAt(S)) \/ UNCHANGED files
  BY DEF DeleteRows, Return, tables
<1>2. TypeOK /\ answer[r].status = "none" /\ IsDelete(r) /\ ~IsUpload(r)
  <2>1. Protocol(r)
    BY DEF IInv, ProtocolInv
  <2> QED
    BY <1>1, <2>1, NotAnswered DEF Protocol, IsDelete, IsUpload
<1>3. CASE DeleteFiles(RowsAt(S))
  <2>1. S \in Scopes /\ RowsAt(S) \in SUBSET Files
    BY <1>2, CallTypes DEF RowsAt
  <2>2. ASSUME NEW p \in Paths
        PROVE  Directory'[p] = IF p \in S THEN None ELSE Directory[p]
    <3>1. RowsAt({p})' = RowsAt({p}) \ RowsAt(S)
      BY <1>1, <1>2, <1>3, <2>1, RowsAfterDelete
    <3>2. CASE p \in S
      <4>1. RowsAt({p})' = {}
        BY <3>1, <3>2 DEF RowsAt
      <4> QED
        BY <3>2, <4>1, DirectoryFreed
    <3>3. CASE p \notin S
      <4>1. RowsAt({p})' = RowsAt({p})
        BY <3>1, <3>3 DEF RowsAt
      <4> QED
        BY <3>3, <4>1, DirectoryKept
    <3> QED
      BY <3>2, <3>3
  <2>3. Directory' = [p \in Paths |-> IF p \in S THEN None ELSE Directory[p]]
    BY <2>2 DEF Directory
  <2>4. UNCHANGED <<UsedFiles, StoredFiles, ConfirmedFiles>>
    BY <1>1, <1>2 DEF UsedFiles, StoredFiles, ConfirmedFiles, IsUpload, Saved,
       Acknowledged, TypeOK
  <2>5. Served' = Served
    BY <1>1, <1>2, ServedUnchanged DEF IsDelete, TypeOK
  <2>6. Store!Delete(S)
    BY <2>3, <2>4, <2>5 DEF Store!Delete, UsedFiles, StoredFiles, ConfirmedFiles
  <2> QED
    BY <2>1, <2>6
<1>4. CASE UNCHANGED files
  <2>1. \A f \in Files : Live(f)' <=> Live(f)
    BY <1>4 DEF Live
  <2> QED
    BY <1>1, <1>2, <2>1, AnswerStutters DEF IsDelete
<1> QED
  BY <1>1, <1>3, <1>4

-----------------------------------------------------------------------------
\* The empty server is the empty store.
LEMMA InitImplements == Init => Store!Init
<1> SUFFICES ASSUME Init PROVE Store!Init
  OBVIOUS
<1>1. \A p \in Paths : RowsAt({p}) = {}
  BY DEF Init, RowsAt, Live
<1>2. Directory = [p \in Paths |-> None]
  BY <1>1, FileOfOne DEF Directory
<1>3. Served = {}
  BY DEF Init, Served, NoCall
<1> QED
  BY <1>2, <1>3 DEF Init, Store!Init, IsUpload, Saved, Acknowledged, NoCall, Files

\* Every step of the pipeline is a step of the store or leaves it as it is.
LEMMA StepImplements ==
    ASSUME IInv, OneFilePerPath, [Next]_vars
    PROVE  [Store!Next]_(Store!storeVars)
<1> USE Mapping DEF Files
<1>1. ASSUME NEW r \in Requests, Arrive(r) PROVE Store!Next \/ UNCHANGED Store!storeVars
  BY <1>1, CreateFileReserves, OtherArrivalsStutter DEF Arrive
<1>2. ASSUME NEW r \in Requests, Send(r) \/ HangUp(r) PROVE UNCHANGED Store!storeVars
  <2>1. UNCHANGED <<files, call, answer, reply>>
    BY <1>2 DEF Send, HangUp, Goto, tables
  <2> QED
    BY <2>1, TransfersStutter DEF Saved, IsUpload
<1>3. ASSUME NEW r \in Requests, Handle(r) PROVE Store!Next \/ UNCHANGED Store!storeVars
  <2>1. CASE TelegramDone(r)
    <3>1. UNCHANGED <<files, call, answer, reply>>
      BY <2>1 DEF TelegramDone, Replied, Goto, tables
    <3> QED
      BY <3>1, TransfersStutter DEF Saved, IsUpload
  <2> QED
    BY <1>3, <2>1, SetAsUploadedConfirms, DeleteWithFoldersWithdraws, ReturnDownloadServes,
       DeleteRowsDeletes DEF Handle
<1>4. ASSUME NEW c \in todo, UploadChunk(c) \/ DownloadChunk(c) \/ DeleteMessage(c)
      PROVE  UNCHANGED Store!storeVars
  <2>1. UNCHANGED <<files, call, answer, reply>>
    BY <1>4 DEF UploadChunk, DownloadChunk, DeleteMessage, TaskDone, tables, handlers
  <2> QED
    BY <2>1, TransfersStutter DEF Saved, IsUpload
<1>5. CASE FinishUpload
  <2>1. job \in Requests
    BY <1>5 DEF FinishUpload, Joined, IInv, TypeOK
  <2> QED
    BY <1>5, <2>1, FinishUploadStores
<1>6. CASE Crash
  <2>1. UNCHANGED <<files, call, answer, reply>>
    BY <1>6 DEF Crash, tables
  <2> QED
    BY <2>1, TransfersStutter DEF Saved, IsUpload
<1>7. CASE UNCHANGED vars
  <2>1. UNCHANGED <<files, call, answer, reply>>
    BY <1>7 DEF vars
  <2> QED
    BY <2>1, TransfersStutter DEF Saved, IsUpload
<1> QED
  BY <1>1, <1>2, <1>3, <1>4, <1>5, <1>6, <1>7, StartsStutter, OtherFinishesStutter
     DEF Next, Manage, Idle

\* The pipeline keeps the promise of FileStore through every interleaving, failure,
\* hang-up and crash: files become readable at once, are confirmed after that, and a
\* confirmed file leaves its path only by a delete that names it.
THEOREM PipelineImplementsFileStore == Spec => ImplementsFileStore
<1>1. IInv /\ OneFilePerPath /\ [Next]_vars => [Store!Next]_(Store!storeVars)
  BY StepImplements
<1> QED
  BY <1>1, InitImplements, Invariance, PathsAreUnique, PTL
     DEF Spec, ImplementsFileStore, Store!Spec
=============================================================================
