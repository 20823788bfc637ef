---------------------------- MODULE FilePipeline ----------------------------
(***************************************************************************)
(* The path of a file through XenovraDrive: the request handlers of        *)
(* services/files.rs, the bounded channel to the storage manager, the      *)
(* manager that serves one message at a time (storage_manager.rs,          *)
(* services/storage_manager.rs), the tables files and file_chunks, and the *)
(* Telegram chat that holds the bytes.  One storage; folder rows, rate     *)
(* limiting and access rights have modules of their own.                   *)
(*                                                                         *)
(* Every await point of a handler or of the manager is a step boundary:    *)
(* there the other tasks run, the client may hang up (axum then drops the  *)
(* handler) and the process may die.                                       *)
(***************************************************************************)
EXTENDS Integers, Sequences, FiniteSets

CONSTANTS
    Requests,    \* HTTP requests; an upload lends its identity to the row it inserts
    Paths,       \* paths of files in the storage
    Scopes,      \* what one delete may name: {p} for a file, all paths below a folder
    MaxSize,     \* chunks of the largest file
    Capacity,    \* CHANNEL_CAPACITY: slots of the channel to the manager
    Faults,      \* what may go wrong, a subset of FaultKinds
    MaxCrashes,  \* bound on the crashes of the process
    None         \* no request: the job of an idle manager

FaultKinds == {"telegram", "database", "fallback", "client"}

ASSUME ScopesAssumption == Scopes \subseteq SUBSET Paths
ASSUME MaxSizeAssumption == MaxSize \in Nat \ {0}
ASSUME CapacityAssumption == Capacity \in Nat \ {0}
ASSUME FaultsAssumption == Faults \subseteq FaultKinds
ASSUME MaxCrashesAssumption == MaxCrashes \in Nat
ASSUME NoneAssumption == None \notin Requests

(***************************************************************************)
(* A chunk is named by the row it belongs to and its position.  Each chunk *)
(* is posted at most once, so the Telegram message that carries it has the *)
(* same name.                                                              *)
(***************************************************************************)
Files == Requests
Chunks == Files \X (0 .. MaxSize - 1)

UploadCalls == [kind : {"upload"}, path : Paths, size : 0 .. MaxSize]
DownloadCalls == [kind : {"download"}, file : Files]
DeleteCalls == [kind : {"delete"}, scope : Scopes, listed : SUBSET Chunks]
NoCall == [kind |-> "none"]
Calls == UploadCalls \cup DownloadCalls \cup DeleteCalls \cup {NoCall}

NoReply == [status |-> "none", body |-> {}]
Replies == [status : {"none", "ok", "err"}, body : SUBSET Chunks]
Ok(body) == [status |-> "ok", body |-> body]
Err == [status |-> "err", body |-> {}]

VARIABLES
    files,      \* table files: "absent", "pending" (is_uploaded = false) or "uploaded"
    chunks,     \* table file_chunks
    messages,   \* messages present in the Telegram chat
    call,       \* what a request asks for, and what its handler keeps across awaits
    pc,         \* where the handler is
    answer,     \* what the handler returned to the client
    queue,      \* the channel: the requests whose message waits for the manager
    reply,      \* what the manager sent on the oneshot channel of a request
    job,        \* the request the manager serves, or None
    work,       \* the chunks of that job
    todo,       \* those whose Bot API call is still running
    failed,     \* some Bot API call of the job returned Err
    crashes     \* how often the process died

tables == <<files, chunks>>
handlers == <<call, pc, answer>>
manager == <<job, work, todo, failed>>
vars == <<files, chunks, messages, call, pc, answer, queue, reply,
          job, work, todo, failed, crashes>>

PCs == {"new", "send", "wait", "undo", "rows", "done", "gone"}
Active == {"send", "wait", "undo", "rows"}

TypeOK ==
    /\ files \in [Files -> {"absent", "pending", "uploaded"}]
    /\ chunks \subseteq Chunks
    /\ messages \subseteq Chunks
    /\ call \in [Requests -> Calls]
    /\ pc \in [Requests -> PCs]
    /\ answer \in [Requests -> Replies]
    /\ queue \in Seq(Requests)
    /\ reply \in [Requests -> Replies]
    /\ job \in Requests \cup {None}
    /\ work \subseteq Chunks
    /\ todo \subseteq work
    /\ failed \in BOOLEAN
    /\ crashes \in 0 .. MaxCrashes

Init ==
    /\ files = [f \in Files |-> "absent"]
    /\ chunks = {}
    /\ messages = {}
    /\ call = [r \in Requests |-> NoCall]
    /\ pc = [r \in Requests |-> "new"]
    /\ answer = [r \in Requests |-> NoReply]
    /\ queue = <<>>
    /\ reply = [r \in Requests |-> NoReply]
    /\ job = None
    /\ work = {}
    /\ todo = {}
    /\ failed = FALSE
    /\ crashes = 0

-----------------------------------------------------------------------------
(***************************************************************************)
(* The database.                                                           *)
(***************************************************************************)
DatabaseMayFail == "database" \in Faults   \* a query, other than the one of the fallback
FallbackMayFail == "fallback" \in Faults
TelegramMayFail == "telegram" \in Faults
BotCallMayFail == TelegramMayFail \/ DatabaseMayFail   \* a call first takes a token from the database

ChunksOf(f) == {f} \X (0 .. call[f].size - 1)

Live(f) == files[f] # "absent"

\* The row of path p; UNIQUE (path, storage_id) leaves at most one.
RowsAt(S) == {f \in Files : Live(f) /\ call[f].path \in S}

\* DELETE FROM files, with the cascade to file_chunks.
DeleteFiles(F) ==
    /\ files' = [f \in Files |-> IF f \in F THEN "absent" ELSE files[f]]
    /\ chunks' = {c \in chunks : c[1] \notin F}

\* The handler of r returns a to its client.
Return(r, a) ==
    /\ pc' = [pc EXCEPT ![r] = "done"]
    /\ answer' = [answer EXCEPT ![r] = a]

Goto(r, where) ==
    /\ pc' = [pc EXCEPT ![r] = where]
    /\ UNCHANGED answer

-----------------------------------------------------------------------------
(***************************************************************************)
(* Handlers up to the channel.                                             *)
(***************************************************************************)

\* Mutant of CreateFile: the table has no UNIQUE (path, storage_id).
CreateFileUnchecked(r, p, size) ==
    /\ pc[r] = "new"
    /\ files' = [files EXCEPT ![r] = "pending"]
    /\ call' = [call EXCEPT ![r] = [kind |-> "upload", path |-> p, size |-> size]]
    /\ Goto(r, "send")
    /\ UNCHANGED <<chunks, messages, queue, reply, manager, crashes>>

\* upload_to and upload_anyway: the row is inserted with is_uploaded = false.
\* create_file_anyway only changes which free path p the row gets.
CreateFile(r, p, size) ==
    /\ pc[r] = "new"
    /\ RowsAt({p}) = {}
    /\ files' = [files EXCEPT ![r] = "pending"]
    /\ call' = [call EXCEPT ![r] = [kind |-> "upload", path |-> p, size |-> size]]
    /\ Goto(r, "send")
    /\ UNCHANGED <<chunks, messages, queue, reply, manager, crashes>>

\* download: get_file_by_path, which does not look at is_uploaded.
GetFileByPath(r, p) ==
    /\ pc[r] = "new"
    /\ \E f \in RowsAt({p}) :
          call' = [call EXCEPT ![r] = [kind |-> "download", file |-> f]]
    /\ Goto(r, "send")
    /\ UNCHANGED <<tables, messages, queue, reply, manager, crashes>>

\* Mutant of ListMessageIds: the query forgets the path.
ListAllMessageIds(r, S) ==
    /\ pc[r] = "new"
    /\ call' = [call EXCEPT ![r] = [kind |-> "delete", scope |-> S, listed |-> chunks]]
    /\ Goto(r, IF chunks = {} THEN "rows" ELSE "send")
    /\ UNCHANGED <<tables, messages, queue, reply, manager, crashes>>

\* delete: list_message_ids_by_path; with no ids the manager is not asked.
ListMessageIds(r, S) ==
    /\ pc[r] = "new"
    /\ LET listed == {c \in chunks : c[1] \in RowsAt(S)}
       IN  /\ call' = [call EXCEPT ![r] =
                          [kind |-> "delete", scope |-> S, listed |-> listed]]
           /\ Goto(r, IF listed = {} THEN "rows" ELSE "send")
    /\ UNCHANGED <<tables, messages, queue, reply, manager, crashes>>

\* Any request may be refused before it changes anything: no access, a storage
\* without workers, an invalid path, a taken path, a missing file, a failed query.
Refuse(r) ==
    /\ pc[r] = "new"
    /\ Return(r, Err)
    /\ UNCHANGED <<tables, messages, call, queue, reply, manager, crashes>>

\* self.tx.send(message).await: waits for a slot of the channel.
Send(r) ==
    /\ pc[r] = "send"
    /\ Len(queue) < Capacity
    /\ queue' = Append(queue, r)
    /\ Goto(r, "wait")
    /\ UNCHANGED <<tables, messages, call, reply, manager, crashes>>

-----------------------------------------------------------------------------
(***************************************************************************)
(* The storage manager.  A Start step receives the next message and runs   *)
(* the first query of its service; a Finish step runs from the return of   *)
(* join_all to the send on the oneshot channel.                            *)
(***************************************************************************)
Answering(a) ==
    /\ reply' = [reply EXCEPT ![job] = a]
    /\ job' = None
    /\ work' = {}
    /\ todo' = {}
    /\ failed' = FALSE

Receive(kind) ==
    /\ job = None
    /\ queue # <<>>
    /\ call[Head(queue)].kind = kind
    /\ queue' = Tail(queue)
    /\ UNCHANGED <<tables, messages, handlers, crashes>>

\* The first query gave the chunks to work on.
Begin(r, cs) ==
    /\ job' = r
    /\ work' = cs
    /\ todo' = cs
    /\ failed' = FALSE
    /\ UNCHANGED reply

\* Mutants of GiveUp: an early return skips the answer; the answer has no payload.
GiveUpSilently(r) == UNCHANGED <<reply, manager>>
GiveUpBare(r) ==
    /\ reply' = [reply EXCEPT ![r] = [status |-> "err"]]
    /\ UNCHANGED manager

\* The first query failed: the error goes straight back.
GiveUp(r) ==
    /\ reply' = [reply EXCEPT ![r] = Err]
    /\ UNCHANGED manager

\* Mutant of StartUpload: the manager waits for a row that is gone.
StartUploadOfLive ==
    /\ Receive("upload")
    /\ Live(Head(queue))
    /\ Begin(Head(queue), ChunksOf(Head(queue)))

\* get_by_file_id joins files and storages: it fails when the row is gone.
StartUpload ==
    LET r == Head(queue) IN
    /\ Receive("upload")
    /\ \/ Live(r) /\ Begin(r, ChunksOf(r))
       \/ (~Live(r) \/ DatabaseMayFail) /\ GiveUp(r)

\* list_chunks_of_file: what file_chunks holds now, which may be nothing.
StartDownload ==
    LET r == Head(queue) IN
    /\ Receive("download")
    /\ \/ Begin(r, {c \in chunks : c[1] = call[r].file})
       \/ DatabaseMayFail /\ GiveUp(r)

\* The ids the handler listed, however stale they are by now.
StartDelete ==
    LET r == Head(queue) IN
    /\ Receive("delete")
    /\ \/ Begin(r, call[r].listed)
       \/ DatabaseMayFail /\ GiveUp(r)

TaskDone(c, error) ==
    /\ job # None
    /\ c \in todo
    /\ todo' = todo \ {c}
    /\ failed' = (failed \/ error)
    /\ UNCHANGED <<tables, handlers, queue, reply, job, work, crashes>>

\* sendDocument.  An error may reach the manager though Telegram stored the message.
UploadChunk(c) ==
    /\ job # None /\ call[job].kind = "upload"
    /\ \/ messages' = messages \cup {c} /\ TaskDone(c, FALSE)
       \/ TelegramMayFail /\ messages' = messages \cup {c} /\ TaskDone(c, TRUE)
       \/ BotCallMayFail /\ UNCHANGED messages /\ TaskDone(c, TRUE)

\* getFile and the file itself.  The content of a deleted message may still be
\* served, and the status of the second answer is not looked at: whatever its body
\* is counts as the chunk.
DownloadChunk(c) ==
    /\ job # None /\ call[job].kind = "download"
    /\ UNCHANGED messages
    /\ \/ TaskDone(c, FALSE)
       \/ (BotCallMayFail \/ c \notin messages) /\ TaskDone(c, TRUE)

\* deleteMessage.  A message that is already gone, or that "can't be deleted" and
\* stays, counts as deleted; any error is only logged.
DeleteMessage(c) ==
    /\ job # None /\ call[job].kind = "delete"
    /\ \/ messages' = messages \ {c} /\ TaskDone(c, FALSE)
       \/ TelegramMayFail /\ UNCHANGED messages /\ TaskDone(c, FALSE)
       \/ BotCallMayFail /\ UNCHANGED messages /\ TaskDone(c, TRUE)

Joined(kind) ==
    /\ job # None
    /\ call[job].kind = kind
    /\ todo = {}
    /\ UNCHANGED <<files, messages, handlers, queue, crashes>>

\* Mutant of FinishUpload: the chunks that failed are dropped (filter_map for collect).
FinishUploadPartly ==
    /\ Joined("upload")
    /\ \/ /\ work # {} /\ Live(job)
          /\ chunks' = chunks \cup (work \cap messages)
          /\ Answering(Ok({}))
       \/ /\ work = {} \/ ~Live(job)
          /\ UNCHANGED chunks
          /\ Answering(Err)

\* create_chunks_batch is one INSERT.  It fails without rows to insert (an empty
\* file) and when the file row is gone (foreign key).
FinishUpload ==
    /\ Joined("upload")
    /\ \/ /\ ~failed /\ work # {} /\ Live(job)
          /\ chunks' = chunks \cup work
          /\ Answering(Ok({}))
       \/ /\ failed \/ work = {} \/ ~Live(job) \/ DatabaseMayFail
          /\ UNCHANGED chunks
          /\ Answering(Err)

\* Mutant of FinishDownload: the same for a download.
FinishDownloadPartly ==
    /\ Joined("download")
    /\ UNCHANGED chunks
    /\ Answering(Ok(work \cap messages))

FinishDownload ==
    /\ Joined("download")
    /\ UNCHANGED chunks
    /\ Answering(IF failed THEN Err ELSE Ok(work))

FinishDelete ==
    /\ Joined("delete")
    /\ UNCHANGED chunks
    /\ Answering(Ok({}))

-----------------------------------------------------------------------------
(***************************************************************************)
(* Handlers after the manager's reply.                                     *)
(***************************************************************************)
Replied(r, kind) ==
    /\ pc[r] = "wait"
    /\ call[r].kind = kind
    /\ reply[r].status # "none"
    /\ UNCHANGED <<messages, call, queue, reply, manager, crashes>>

\* Mutant of SetAsUploaded: the result of the manager is forgotten.
SetAsUploadedAnyway(r) ==
    /\ Replied(r, "upload")
    /\ UNCHANGED chunks
    /\ files' = [files EXCEPT ![r] = IF Live(r) THEN "uploaded" ELSE "absent"]
    /\ Return(r, Ok({}))

\* The argument of message_back.and(...) runs whatever message_back is: the row is
\* marked after a failed upload too.
SetAsUploaded(r) ==
    /\ Replied(r, "upload")
    /\ UNCHANGED chunks
    /\ \/ /\ files' = [files EXCEPT ![r] = IF Live(r) THEN "uploaded" ELSE "absent"]
          /\ IF reply[r].status = "ok" THEN Return(r, Ok({})) ELSE Goto(r, "undo")
       \/ /\ DatabaseMayFail
          /\ UNCHANGED files
          /\ Goto(r, "undo")

\* Mutants of DeleteWithFolders: the row is found by path, or only while it is not
\* marked as uploaded.
DeleteByPath(r) ==
    /\ pc[r] = "undo"
    /\ DeleteFiles(RowsAt({call[r].path}))
    /\ Return(r, Err)
    /\ UNCHANGED <<messages, call, queue, reply, manager, crashes>>
DeletePending(r) ==
    /\ pc[r] = "undo"
    /\ DeleteFiles({f \in {r} : files[f] = "pending"})
    /\ Return(r, Err)
    /\ UNCHANGED <<messages, call, queue, reply, manager, crashes>>

\* The fallback of _upload: delete_with_folders, its own failure ignored.
DeleteWithFolders(r) ==
    /\ pc[r] = "undo"
    /\ \/ DeleteFiles({r})
       \/ FallbackMayFail /\ UNCHANGED tables
    /\ Return(r, Err)
    /\ UNCHANGED <<messages, call, queue, reply, manager, crashes>>

ReturnDownload(r) ==
    /\ Replied(r, "download")
    /\ UNCHANGED tables
    /\ Return(r, reply[r])

\* delete_from_telegram ignores what the manager says.
TelegramDone(r) ==
    /\ Replied(r, "delete")
    /\ UNCHANGED tables
    /\ Goto(r, "rows")

\* FilesRepository::delete: one transaction over every row of the scope as it is now.
DeleteRows(r) ==
    /\ pc[r] = "rows"
    /\ \/ DeleteFiles(RowsAt(call[r].scope)) /\ Return(r, Ok({}))
       \/ DatabaseMayFail /\ UNCHANGED tables /\ Return(r, Err)
    /\ UNCHANGED <<messages, call, queue, reply, manager, crashes>>

-----------------------------------------------------------------------------
(***************************************************************************)
(* What the environment may do to the process.                             *)
(***************************************************************************)

\* The client hangs up: axum drops the handler at its await point.  A message it
\* has sent stays in the channel; one it has not sent is never sent.
HangUp(r) ==
    /\ "client" \in Faults
    /\ pc[r] \in Active
    /\ Goto(r, "gone")
    /\ UNCHANGED <<tables, messages, call, queue, reply, manager, crashes>>

\* The process dies and is started again: handlers, channel and manager start empty,
\* the database and Telegram stay, and no code looks for what was under way.
Crash ==
    /\ crashes < MaxCrashes
    /\ crashes' = crashes + 1
    /\ pc' = [r \in Requests |-> IF pc[r] \in Active THEN "gone" ELSE pc[r]]
    /\ queue' = <<>>
    /\ job' = None
    /\ work' = {}
    /\ todo' = {}
    /\ failed' = FALSE
    /\ UNCHANGED <<tables, messages, call, answer, reply>>

\* Every request is finished: the server waits for more.
Finished ==
    /\ \A r \in Requests : pc[r] \in {"done", "gone"}
    /\ job = None
    /\ queue = <<>>

Idle == Finished /\ UNCHANGED vars

Arrive(r) ==
    \/ \E p \in Paths, size \in 0 .. MaxSize : CreateFile(r, p, size)
    \/ \E p \in Paths : GetFileByPath(r, p)
    \/ \E S \in Scopes : ListMessageIds(r, S)
    \/ Refuse(r)

Handle(r) ==
    \/ SetAsUploaded(r)
    \/ DeleteWithFolders(r)
    \/ ReturnDownload(r)
    \/ TelegramDone(r)
    \/ DeleteRows(r)

Manage ==
    \/ StartUpload
    \/ StartDownload
    \/ StartDelete
    \/ \E c \in todo : UploadChunk(c) \/ DownloadChunk(c) \/ DeleteMessage(c)
    \/ FinishUpload
    \/ FinishDownload
    \/ FinishDelete

Next ==
    \/ \E r \in Requests : Arrive(r) \/ Send(r) \/ Handle(r) \/ HangUp(r)
    \/ Manage
    \/ Crash
    \/ Idle

Spec == Init /\ [][Next]_vars

\* tokio polls every ready task, its channel serves waiting senders in the order
\* they came, and each query and Bot API call is assumed to end in some way.
Fairness ==
    /\ \A r \in Requests : WF_vars(Handle(r)) /\ SF_vars(Send(r))
    /\ WF_vars(Manage)

FairSpec == Spec /\ Fairness

-----------------------------------------------------------------------------
(***************************************************************************)
(* Safety.                                                                 *)
(***************************************************************************)
IsUpload(r) == call[r].kind = "upload"
IsDelete(r) == call[r].kind = "delete"

RowsOf(f) == {c \in chunks : c[1] = f}

\* create_chunks_batch committed for f: the manager sent Ok, received or not.
Saved(f) == IsUpload(f) /\ reply[f].status = "ok"

\* The client of upload f got its success.
Acknowledged(f) == IsUpload(f) /\ answer[f].status = "ok"

\* The rows of a file in file_chunks are none or all of its chunks, whatever
\* Bot API calls, queries, hang-ups and crashes did to its upload: a reader can
\* see an empty file but never a truncated one (create_chunks_batch).
ChunksAllOrNothing ==
    \A f \in Files : RowsOf(f) # {} => IsUpload(f) /\ RowsOf(f) = ChunksOf(f)

\* A delete that names the path of upload f was answered with success.
Deleted(f) ==
    \E d \in Requests :
        IsDelete(d) /\ call[f].path \in call[d].scope /\ answer[d].status = "ok"

\* A file whose upload was answered with success is listed and has every chunk, through
\* any crash, or a delete of its path took the row: also when that came between the
\* insert of the chunks and the answer, which says 201 all the same (_upload, lines
\* 154-168).
AcknowledgedIsStored ==
    \A f \in Files : Acknowledged(f) =>
        IF Live(f)
        THEN files[f] = "uploaded" /\ ChunksOf(f) # {} /\ ChunksOf(f) \subseteq chunks
        ELSE Deleted(f)

\* A chunk row whose message is gone was listed by a delete that did not succeed
\* (it failed, was dropped, or is on its way to the rows): a delete answered with
\* success leaves no row pointing to a message it removed, and nothing else
\* removes messages (delete, lines 281-289).
LostDataIsExplained ==
    \A c \in chunks \ messages :
        \E d \in Requests : /\ IsDelete(d)
                            /\ c \in call[d].listed
                            /\ answer[d].status # "ok"

\* A download answered with success returned nothing or a whole file that was
\* saved: never some of the chunks, even when it ran during the upload or the
\* deletion of that file (StorageManagerService::download).
DownloadIsWhole ==
    \A r \in Requests : call[r].kind = "download" /\ answer[r].status = "ok" =>
        LET f == call[r].file IN
            answer[r].body # {} => Saved(f) /\ answer[r].body = ChunksOf(f)

\* A handler that waits on its oneshot channel has its message in exactly one
\* place: in the channel, in the hands of the manager, or already answered.  So
\* resp_rx.await.unwrap() never meets a dropped sender (lines 150 and 219).
InQueue(r) == \E i \in DOMAIN queue : queue[i] = r

Holds(where, r) ==
    \/ where = "channel" /\ InQueue(r)
    \/ where = "manager" /\ job = r
    \/ where = "answer" /\ reply[r].status # "none"

Holders == {"channel", "manager", "answer"}

NoReplyIsLost ==
    /\ \A i, j \in DOMAIN queue : queue[i] = queue[j] => i = j
    /\ \A r \in Requests : pc[r] = "wait" =>
          \E h \in Holders : \A k \in Holders : Holds(k, r) <=> k = h

\* While the query of the fallback succeeds, an upload answered with an error keeps no
\* row: its path is free again and nothing half-made is listed (_upload).
FailedUploadLeavesNoRow ==
    \A f \in Files : IsUpload(f) /\ answer[f].status = "err" => ~Live(f)

\* A row leaves the table only by the fallback of its own upload, which is answered
\* with an error then, or in the step in which a delete that names its path commits.
\* No fallback takes the row of another upload of the same path, no restart takes
\* any, and the row of an upload that was cut off stays until a delete names it
\* (delete_with_folders, delete).
RowsGoByDelete ==
    [][\A f \in Files : Live(f) /\ files'[f] = "absent" =>
          \/ pc[f] = "undo" /\ answer'[f].status = "err"
          \/ \E d \in Requests : /\ IsDelete(d) /\ call[f].path \in call[d].scope
                                 /\ pc[d] = "rows" /\ answer'[d].status = "ok"]_vars

(***************************************************************************)
(* What the repository says and the code does not do.                      *)
(***************************************************************************)

\* When everything is finished, an acknowledged file that a successful delete took
\* out of the table has no message left in Telegram ("so nothing is left behind").
NothingLeftBehind ==
    Finished => \A f \in Files :
        Acknowledged(f) /\ ~Live(f) => messages \cap ChunksOf(f) = {}

-----------------------------------------------------------------------------
(***************************************************************************)
(* Liveness.                                                               *)
(***************************************************************************)

\* Every request the server took up ends: no handler waits for ever on the channel,
\* on the manager or on the manager's answer.
EveryRequestEnds ==
    \A r \in Requests : pc[r] \in Active ~> pc[r] \in {"done", "gone"}

\* While the query of the fallback succeeds, a reserved path does not stay reserved: the
\* upload is acknowledged or its row is gone, unless the client left or the process died.
ReservationsEnd ==
    \A f \in Files : files[f] = "pending" ~> (Acknowledged(f) \/ ~Live(f) \/ pc[f] = "gone")

-----------------------------------------------------------------------------
(***************************************************************************)
(* The promise this pipeline implements.  A row is the file at its path; a *)
(* file is stored from the commit of its chunk rows on; it is confirmed    *)
(* and served when the handler returns.                                    *)
(***************************************************************************)
TheFile(F) == IF F = {} THEN None ELSE CHOOSE f \in F : TRUE

Directory == [p \in Paths |-> TheFile(RowsAt({p}))]

Served ==
    {f \in Files : \E r \in Requests : /\ call[r].kind = "download"
                                       /\ call[r].file = f
                                       /\ answer[r].status = "ok"
                                       /\ answer[r].body # {}}

Store == INSTANCE FileStore WITH
    directory <- Directory,
    used <- {f \in Files : IsUpload(f)},
    stored <- {f \in Files : Saved(f)},
    confirmed <- {f \in Files : Acknowledged(f)},
    served <- Served

\* Every behaviour of the pipeline, with its faults, is one of FileStore.
ImplementsFileStore == Store!Spec
=============================================================================
