# XenovraDrive, verified

XenovraDrive stores files in Telegram: an HTTP server (axum) cuts an uploaded
file into chunks, bots post each chunk as a document to a Telegram chat, and
PostgreSQL remembers which message carries which chunk of which file.  This
directory holds TLA+ models of that server, the TLC configurations that check
them on small instances, and theorems that TLAPS proves for all instances.

Source paths below are relative to `src/xenovradrive/src/` unless they start
with `src/`.

## The system

| component | source | state it keeps | operations |
|---|---|---|---|
| File service | `services/files.rs`, `repositories/files.rs`, `routers/files.rs` | tables `files`, `file_chunks` | `upload_to`, `upload_anyway`, `download`, `delete`, `list_dir`, `search`, `create_folder` |
| Storage manager | `storage_manager.rs`, `services/storage_manager.rs`, `common/channels.rs` | the bounded `mpsc` channel, the job at hand, a oneshot channel per request | `upload`, `download`, `delete` |
| Scheduler of storage workers | `services/storage_workers_scheduler.rs`, `repositories/storage_workers.rs` | table `storage_workers_usages` | `get_token` |
| Bot API client | `common/telegram_api/bot_api.rs` | none; the chat holds the messages | `upload`, `download`, `delete_message`, `normalize_chat_id` |
| Storages and access | `services/storages.rs`, `repositories/{storages,access}.rs`, `common/access.rs` | tables `storages`, `access` | `create`, `delete`, `grant_access`, `restrict_access`, `check_access` |
| Storage workers | `services/storage_workers.rs` | table `storage_workers` | `create`, `list`, `has_storage_workers` |
| Users, authentication | `services/{users,auth}.rs`, `common/{jwt_manager,password_manager}.rs` | table `users` | `create`, `login`, token check |
| Start-up | `main.rs`, `startup.rs`, `config.rs`, `common/db/pool.rs` | the database and its schema, the superuser | read the environment, create database, tables and superuser, start manager and server |
| HTTP | `server.rs`, `routers/` | none | routing, forms, paths |
| Errors, schemas, models | `errors.rs`, `schemas/`, `models/`, `common/types.rs` | none | data types, status codes |
| Web UI | `src/ui` | in the browser | a client of the API |

How they interact.  A handler runs in a tokio task of its own.  Upload,
download and delete write or read rows, send one message over the channel
(`tx.send(..).await` waits for a slot) and wait for the answer on a oneshot
channel (`resp_rx.await.unwrap()`).  One manager task serves all messages, one
after the other; the Bot API calls of one message run together (`join_all`),
and each first takes a token from the scheduler, whose loop runs a transaction
per attempt on a pool of its own.  Handlers and manager share the database and
nothing else.

What is hard about it, and what makes each part correct:

* *File pipeline.*  A file is spread over three stores without a common
  transaction.  Any await point may be the last of a handler (axum drops it
  when the client hangs up) or of the process, and no code runs at start-up to
  repair what was under way.  Correct means: readers never see part of a file;
  a file whose upload was answered with success stays whole until a delete of
  its path; a failed upload frees its path; every request is answered.
* *Manager.*  One sequential task behind a bounded channel serves everybody.
  Correct means: every message is answered once, and it never stops.
* *Scheduler.*  Concurrent transactions at READ COMMITTED count and insert.
  Correct means: a bot is not used too often, no use is forgotten too early,
  and every call gets its token.
* *Access.*  Every handler checks with one statement and acts with another.
  Correct means: rights belong to storages that exist, and administrators lose
  their rights only to other administrators.
* *Folder tree.*  Folder rows come and go with the files below them in
  statements that read what others are changing; names of copies are computed
  from what was read; a path is matched as a pattern.  Correct means: no two
  rows have one path, a delete takes what it names and all of it, a folder does
  not vanish with its last file, and opening a folder shows what is in it.
* *Start-up.*  Every failure is a panic and Docker restarts the process, so what
  one start leaves behind is what the next finds.  The manager connects on its
  own after the server has begun to listen.  Correct means: the server never
  runs on half a schema, restarts come to an end, accounts keep their password.
* *Conversions.*  Paths, chunk positions and chat ids change their form on the
  way.  Correct means: what is stored under a path can be reached by it, a file
  comes back as it went in, and an id keeps naming its chat.

The hazards, each at its line and with the properties that would catch it, are
in `PROJECT.json`.

## Modules

| module | models | kind |
|---|---|---|
| `FilePipeline` | handlers of upload, download and delete, channel, manager, `files`, `file_chunks`, chat | specification |
| `FileStore` | what the pipeline promises: a directory of files that become readable at once | abstract specification |
| `FilePipelineProofs` | theorems about `FilePipeline` | proofs |
| `FilePipelineRefinement` | the theorem that `FilePipeline` implements `FileStore` | proofs |
| `FileTree` | files and folders of a storage, statement by statement under row and key locks | specification |
| `FileTreeProofs` | theorems about it | proofs |
| `StorageWorkersScheduler` | `get_token`, statement by statement, and the calls that need it | specification |
| `StorageWorkersSchedulerProofs` | theorems about it | proofs |
| `Access` | storages, rights and workers: each handler statement by statement | specification |
| `AccessProofs` | theorems about it | proofs |
| `StartUp` | the process from its environment to its requests, over restarts | specification |
| `StartUpProofs` | theorems about it | proofs |
| `Conversions` | paths, forms, chunks and chat ids as functions | specification |
| `ConversionsProofs` | theorems about it | proofs |
| `NumberLemmas` | least and greatest numbers, induction; for `FileTreeProofs` and `ConversionsProofs` | proofs |
| `MCFilePipeline`, `MCFileTree`, `MCStorageWorkersScheduler`, `MCAccess`, `MCStartUp`, `MCConversions` | small sets for TLC | model checking |

How they fit together.  `FilePipeline` is the path of a file's content;
`FileTree` takes the content as "a transfer that takes time and succeeds or
fails" and has the rows of files and folders in its place.  `FilePipeline`
takes a Bot API call as one step; `StorageWorkersScheduler` is the transactions
with which such a call begins.  `StartUp` takes the manager's work as one step
and has its birth and loss instead.  `Access` is what a request must pass first;
in the other modules such a refusal is a request that does nothing.

Operators named `..Unchecked`, `..Partly`, `..Anyway` and the like, introduced
by a comment "Mutant of", are no part of a specification: each is a plausible
bug in place of the definition it follows, and makes TLC violate a property.

### FilePipeline

State: `files` is the column `is_uploaded` of a row (or `absent`), `chunks` the
rows of `file_chunks`, `messages` the chat; `call`, `pc`, `answer` are what a
handler keeps across its awaits, where it waits and what it returned; `queue`
is the channel, `reply` the oneshot channels, and `job`, `work`, `todo`,
`failed` the manager.

| action | code |
|---|---|
| `CreateFile` | `upload_to`/`upload_anyway` up to `create_file`/`create_file_anyway` |
| `GetFileByPath` | `download`, first query; it does not look at `is_uploaded` |
| `ListMessageIds` | `delete`, `list_message_ids_by_path` |
| `Refuse` | any error before the first write |
| `Send` | `tx.send(..).await` |
| `StartUpload`, `StartDownload`, `StartDelete` | `rx.recv()` and the first query of the service |
| `UploadChunk`, `DownloadChunk`, `DeleteMessage` | one Bot API call under `join_all` |
| `FinishUpload`, `FinishDownload`, `FinishDelete` | return of `join_all`, `create_chunks_batch`, send on the oneshot channel |
| `SetAsUploaded` | `message_back.and(..)` in `_upload`: its argument, `set_as_uploaded`, runs whatever the manager said |
| `DeleteWithFolders` | the fallback of `_upload` |
| `ReturnDownload`, `TelegramDone`, `DeleteRows` | the rest of `download` and `delete` |
| `HangUp`, `Crash` | the client goes; the process dies and starts again |

What is abstracted:

* One storage.  A row is named by the request that inserted it, a chunk and its
  message by row and position (each chunk is posted at most once).
* `create_file_anyway` differs from `create_file` only in the free path it
  takes, so both are `CreateFile`; rows of folders are left out.  `FileTree` has
  both.
* A scope is the set of paths a delete's pattern matches.  Both statements of
  `delete` use the same pattern, so the set does not change in between.
* The query of the fallback of `_upload` is a kind of fault of its own
  (`FallbackMayFail`): two properties hold exactly while it succeeds.
* A query that fails has no effect.  (A commit whose answer is lost is modelled
  in the scheduler.)  A Bot API call whose answer is lost is modelled:
  `UploadChunk` may store a message and report an error.
* A `recv` and the query after it are one step, as are the end of `join_all`,
  the insert and the answer: nobody else can see the moment in between.  The
  three kinds of step are kept apart from Bot API calls, during which other
  handlers run.
* Bytes are left out.  The content of a deleted message may still be served,
  and `download` does not look at the status of the file's own request: a call
  that "succeeds" counts as the chunk, whatever its body.

### FileTree

A path is a directory, a sequence of names, and a leaf; a name carries the
number of its copy (`"f (2)"` is `<<f, 2>>`), and the row of a folder has no
leaf.  `path`, `row`, `uploaded` are the table `files`, where a row may be
inserted by a transaction that is still open; `remover` is the open transaction
that deleted a row; `target` and `seen` are what statements found.

| action | code |
|---|---|
| `CreateFolder`, `UploadTo` | `_create_file`: one INSERT |
| `ReadCopies`, `InsertCopy` | the SELECT and the INSERT of `create_file_anyway` |
| `SetAsUploaded`, `DeleteWithFolders` | the end of `_upload` and its fallback |
| `AskDelete` | `delete` up to `FilesRepository::delete` |
| `FindRows`, `RemoveRow`, `Removed` | its DELETE: the rows of its snapshot, then their locks one by one |
| `CheckParent`, `PutFolder` | its second statement: NOT EXISTS, then the INSERT of the parent folder |
| `Commit`, `Fail`, `HangUp` | the end of the transaction |
| `ListDir` | `list_dir`, a function of the state |

An INSERT waits until no open transaction holds its path (`Settled`) and then
succeeds or meets the UNIQUE key.  A row deleted by another open transaction is
waited for.  Circles of waiting are possible; PostgreSQL ends them by failing a
transaction, which is `Fail`.  `SetAsUploaded` and the fallback wait for nobody
but the holder of their row.

Names are model values.  Two facts about their letters matter and are constants.
`Misread` holds the pairs of a folder and a path about which `LIKE` errs when it
reads the folder's path as a pattern: it matches a path outside the folder, for
an underscore or a percent sign in a name (`a_b` and `axb`; `%` stands for
slashes too), or does not match one inside, for a backslash, which quotes the
sign that follows it.  Any set of such pairs is allowed, as long as the root has
no pattern and a path has at least the slashes of the pattern
(`MisreadAssumption`), so everything said of `FileTree` holds whatever the names
are.  `Wide` are the names with more bytes than characters.
`CopyNumbers` is the CASE expression of `create_file_anyway`; its cut of the
number out of a wide name is modelled by its outcome, a failing cast, for
numbers of one digit.  Sizes are left out of `ListDir` but for the question
whether there is one: a SUM over no rows is NULL, which fails the request.

### FileStore

`directory` maps a path to the file that has it; `stored`, `confirmed` and
`served` are sets of files.  `Reserve` takes a free path; `Store` makes a whole
file readable in one step and only while it has its path; `Withdraw` takes a path only from a file that
was not confirmed; `Serve` serves stored files only.  The mapping: a row is the
file at its path, a file is stored when its rows are committed (the manager
sent Ok), confirmed when the handler returned success, and served when a
download returned it.

### StorageWorkersScheduler

One statement of `get_token` is one step: `Begin` (waits for a connection),
`DeleteOld` (waits for the row locks of others), `Take` (the count and the
insert, over what is committed now), `Commit`.  `Use` is the HTTP request with
the token; a download takes two.  `Fail`, `FailAfterCommit` and `Crash` end a
transaction with rollback, with a commit nobody learns of, and for everybody.

Time is kept as the age of usages and of open transactions, which need only be
told apart up to `Window + TxTime + 1`, so that the state space is finite
without a last moment.  `NOW()` and the column `dt` are the start of the
transaction.  `Tick` is at most the one second that a call without token
sleeps.  Limits: `UsagesBounded` speaks of rows of
`storage_workers_usages` (an HTTP request may start long after its token);
`TxTime` bounds how long a transaction stays open, and no theorem depends on
its value.

### Access

`state`, `name`, `right` and `workers` are the tables; a handler has a `pc` and
a `request`.  `CheckName`, `InsertStorage`, `SetAdmin`, `UndoStorage` are the
statements of `create`; `CheckAdmin` is `check_access` and the refusal to manage
oneself; `GrantAccess`, `RestrictAccess`, `DeleteStorage` act on what it said.
`HangUp` stops a handler between two statements; a crash is every handler
hanging up.  `InsertStorage` may always fail: the chat may belong to another
storage.  Reading requests (`get`, `list`, `list_users_with_access`) change
nothing and are left out, as is what else hangs on a storage row (files).

### StartUp

`main` is where the process is, from `channel` to `serve`, or `dead`; `config`
is the environment it has read, `env` the one the next process will read.
`database`, `schema` and `users` are what is committed, `draft` the transaction
of `init_db`: each statement makes its object unless it is there.  `manager` is
the spawned task: it connects, runs or is lost; `queue` the channel.

| action | code |
|---|---|
| `Start` | `Config::new().unwrap()`: every variable must parse, one has a default |
| `OpenChannel` | `mpsc::channel`, which panics on a capacity of zero |
| `CreateDb`, `Connect` | `create_db`, `get_pool` with its 30 seconds |
| `Begin`, `Execute`, `Commit`, `LoseTransaction` | `init_db` |
| `CreateSuperuser` | `create_superuser`, which passes over `AlreadyExists` |
| `Spawn`, `ManagerConnects`, `ManagerAnswers` | `tokio::spawn` and the task in it |
| `Register`, `Login` | `UsersService::create`, `AuthService::login` |
| `Arrive`, `Send`, `Unanswered` | `tx.send` and `resp_rx` of the handlers |
| `Outage`, `Edit`, `Kill` | PostgreSQL goes and comes, the operator edits `.env`, the process dies |

A schema is a set of objects; the column `telegram_message_id`, which an earlier
version of `file_chunks` lacks, is one.  Passwords are compared, not hashed.
What a token allows afterwards is left out: it is checked without state.

### Conversions

A string is the sequence of what its slashes separate.  What is stored under a
path is found again by it if `list_dir` shows it (`Listed`), if a GET of it
reaches `download` and passes its checks (`Downloadable`) and a DELETE of it those
of `delete` (`Deletable`).  The routes that answer POST only (`PostOnly`) come
before the wildcard: `Wildcard` is what they leave to it.  The chunks of a file
are rows of one INSERT, which may have `MaxBinds` parameters, five for a row
(`CreatesChunks`); `Transfer` is an upload and a download of it.

A behaviour takes one input of any kind and converts it in one step: a form with its fields in any
order (`Upload`, `UploadTo`), a folder to create, a file whose chunks are stored
and come back in any order of rows (`Chunks`, `Position`, `SortByPosition`,
`Join`), a stored chat id (`NormalizeChatId`).  Numbers keep their width by
`Wrap`; the widths, the size of a chunk and the digits of an id are constants.
`BoundsAssumption` says of the widths what i64 meets: its numbers have at most
`IdDigits` digits (2^63 <= 10^19).  `ChannelsAssumption` says which ids of
channels the code can normalize: those that have fewer digits than a full id,
and as many as one with the prefix taken off (10 to 12 in the code).
`FieldOrderIsFree` speaks of forms in which no field comes twice, and of every
order of their fields.

## Runs

| run | instance | states | what it shows |
|---|---|---|---|
| `durability` | 3 requests, 2 paths, files of 0 to 2 chunks, channel of 1, all faults, 1 crash | 2.2 million | `ChunksAllOrNothing`, `AcknowledgedIsStored`, `LostDataIsExplained`, `DownloadIsWhole`, `NoReplyIsLost`, `RowsGoByDelete`, `ImplementsFileStore` |
| `progress` | 3 requests, 1 path, channel of 1, all faults but the fallback's, 1 crash, fair | 244 thousand | `EveryRequestEnds`, `ReservationsEnd`, `FailedUploadLeavesNoRow` |
| `tree` | 3 requests, 2 rows at the start, folders `a` and `a/b`, files `f` with copies and `g`, one wide name, a folder that LIKE misreads | 2.2 million | `OneRowPerPath`, `DeletedIsGone`, `ListingIsExact`, `CircleSharesRows`, `OnlyMatchedRowsGo`, `FolderGoesByOverlap`, `RefusedByNewRow` |
| `tokens` | 3 calls, 2 bots, limit 1, 2 connections, failing queries, crashes | 228 thousand | `UsagesBounded`, `ForgottenOnlyWhenOld` |
| `tokens_progress` | 3 calls, 1 bot, limit 1, 2 connections, fair | 16 thousand | `EveryCallEnds` |
| `rights` | 3 handlers at a time, 3 users, 1 storage, failing queries, hang-ups | 111 thousand | `RightsNeedStorage`, `WorkersHoldStorage`, `LastAdminFallsToStaleCheck`, `AbandonedForGood` |
| `start_up` | 3 requests, the superuser's email, 2 passwords, 5 environments, 3 versions of the schema, outages, channel of 1, 1 kill, fair | 281 thousand | `ServesOnlyComplete`, `SchemaIsWhole`, `OnePasswordPerAccount`, `PanicsWithoutManager`, `EventuallyServes`, `TransfersEnd` |
| `conversions` | strings of up to 3 parts, forms of up to 3 fields, files of up to 6 chunks with 4 positions and an INSERT of 4, channels of 2 to 4 digits | 2.1 million | `StoredIsReachable`, `FieldOrderIsFree`, `DownloadIsTheFile`, `OneChatPerChannel` |
| `left_behind` | 2 requests, no fault | violated | `NothingLeftBehind`: a delete leaves messages behind |
| `neighbours` | 2 requests, folders `a_b` and `axb` | violated | `OnlyNamedRowsGo`: a delete takes another folder's files |
| `listings` | 2 requests, a folder whose name ends with a backslash | violated | `FoldersCanBeOpened`: the folder around it cannot be opened |
| `copies` | 2 requests, a name that is not ASCII with a copy | violated | `CreatesAnyway`: an upload that takes any name is refused |

Five runs check the type invariant of their module too.

Why the bounds are enough.

* `FilePipeline`: three requests are the smallest number in which an upload, a
  delete of its file and a third that uses the freed path or reads meet; two
  paths tell a file from a folder; two chunks tell "some" from "all"; files
  without chunks are included because the batch insert fails on them; a channel
  with one slot makes senders wait.  One crash can fall on any combination of
  steps; a second finds nothing new to interrupt with three requests.
* `FileTree`: two deletes and an upload in one folder, or three deletes, are what
  the overlap of `FolderGoesByOverlap` and a circle of waiting take; two rows at
  the start and three inserted ones make a gap in the numbers of copies and two
  rows for one DELETE; a folder in a folder, and a file in each, tell a delete
  around a folder from one beside it.  The folder that LIKE
  misreads in `tree` is named `_\`: as a pattern it matches what is in every folder
  with a name of one sign, and not what is in itself, so both errors meet every
  other request.
* `StartUp`: two passwords tell who created an account; a request that creates, a
  second that opens and a third in the channel meet in three; a channel of one
  makes a sender wait.  The panics of the process itself are not bounded, only
  the kills, and one can fall between any two steps.  The environments have one
  of each kind of value that matters.  One account is enough, because
  `OnePasswordPerAccount` speaks of one at a time.
* `Conversions`: three parts have a first, an inner and a last; three fields have
  one of each name and a name twice; two words, one of them a route; an INSERT of
  four rows (22 parameters, too few for a fifth) and files of up to
  six chunks hit its edge from both sides; four positions are as few as such a
  file needs (`BoundsAssumption`; the code has 32768 for 13107 chunks); the ids
  scale the code's 13 digits to 5 and 63 bits to 23, and hold every channel of
  two to four digits, those around the prefix's own length included.
* Scheduler: the limit 1 with two connections reaches the bound
  (`Rate - 1 + Connections` = 2 usages in a minute, and one less is violated).
  Six ids never run out: at most two bots with two recent usages, and two
  usages under way; TLC stays the same with more.
* `Access`: three users and three requests are what it takes for two
  administrators to act on each other while a third request manages, creates or
  deletes.  The properties speak of one storage at a time, so one is enough;
  ids are not used again.

Deadlock is checked in every run.  `FilePipeline` and `FileTree` have the step
`Idle` for a server that waits for more requests when the finitely many of the
instance are through, and `Conversions` rests when its input is converted; the
others go on for ever.

### Fairness

`FilePipeline`: weak fairness of each handler and of the manager, because tokio
polls every task that is ready; strong fairness of `Send`, because the tokio
channel serves waiting senders in the order they came.  It assumes that every
query and every Bot API call ends in some way.  The code sets no timeout on the
client (`bot_api.rs`), so this is an assumption about the network; that a call
also ends when it has to share its bots is what `tokens_progress` shows.  The
arrival of requests, hang-ups and crashes are never fair.

Scheduler: strong fairness of `Begin` (sqlx's pool serves in order), `DeleteOld`
(PostgreSQL queues for row locks) and `Tick` (time passes); weak fairness of the
rest.  Failures are not needed for progress and are left out of that run.  The
limit is at least one there: with `TELEGRAM_RATE_LIMIT=0` no call ever ends.

`StartUp`: weak fairness of `main`, of the manager and of each handler, because
tokio polls what is ready, and of `Start`, because `docker-compose.yml` says
`restart: unless-stopped`.  Nothing is assumed of the database, the operator and
the clients; instead `EventuallyServes` says what follows when the database in
the end stays and the environment in the end is usable.

`FileTree`, `Access` and `Conversions` state safety only and need no fairness.

### What the violated runs show

* `left_behind`: `delete` lists message ids, waits for the manager, then
  deletes rows.  An upload that saves its chunks in between is acknowledged,
  loses its rows, and its messages stay, against the README's "nothing is left
  behind".  No fault is needed.
* `neighbours`: `LIKE $2 || '%'` reads the folder's own name as a pattern.
  Deleting the folder `a_b/` deletes the files of `axb/` with it, against the
  comment "all files under a folder path".
* `listings`: the same pattern takes a backslash for a quote.  A folder `_\` does
  not match itself, so the sum of its sizes is over no rows, NULL, which fails
  the whole listing: the root with such a folder in it cannot be opened.
* `copies`: the place at which `create_file_anyway` cuts the number out of an
  existing copy is counted in bytes and used in characters.  With `f` and
  `f (1)` there, the upload of a name that is not ASCII fails, although the
  function "creates a file even if the given path already exists".

The models show more of the kind, which the properties describe.  `message_back.and(..)` in `_upload`
runs `set_as_uploaded` before it looks at the manager's answer, so a failed
upload is listed until the fallback removes it, for good when the handler is
dropped before.  Two transactions of `get_token` count before either commits,
so that a bot may exceed its limit by one use for each further connection
(`UsagesBounded` is the exact bound).  A storage may lose its last administrator
to two stale checks.  A process whose manager has failed to connect serves on,
and every upload panics.  `upload_anyway` acknowledges paths that no later
request accepts, and `/upload`, `/upload_to` and `/create_folder`, which answer POST
only, come before `/*path`, so that a file in the root with one of these names is
stored and downloaded while its DELETE is answered with 405: `StoredIsReachable`
says which stored paths can be listed, downloaded and deleted, and no others.  All
chunks of a file are rows of one INSERT with five parameters each, of which
PostgreSQL allows 65535: a file of more than 13107 chunks is sent to Telegram and
then refused (`DownloadIsTheFile`), so that the "effectively unlimited file sizes"
of `src/README.md` end there.  (A position is an i16, but no file gets far enough
for it to wrap.)

## Proofs

All theorems hold for any values of the constants that meet the named
assumptions, and rest on nothing else.

**FilePipelineProofs.**  The properties are not inductive.  `IInv` is the
conjunction of

* `TypeOK`;
* `ProtocolInv`: a request's message is in at most one place, the one that its
  `pc` calls for, and the queue has no duplicates;
* `RowsInv`: `file_chunks` holds the chunks of the live files whose manager
  sent Ok and no others, and a row that was acknowledged is not pending;
* `ReadsInv`: what a download works on, or has received, is nothing or all
  chunks of a saved file, which needs `SavedForever`: what is saved stays saved;
* `MessagesInv`: during an upload without error the chunks that are no longer
  in `todo` have their messages; what a delete has listed are chunks of saved
  files of its scope, and after its success none of them has a row;
* `LostDataIsExplained`.

There is one lemma for each part (`StepProtocol`, `StepRows`, `StepReads`,
`StepMessages`), each with one step per action.  The theorems: `TypeCorrect`,
`NoReplyIsLostAlways`, `ChunksAreAllOrNothing`, `AcknowledgedStaysStored`,
`DownloadsAreWhole`, `LostDataIsAlwaysExplained`.  From `IInv` and the four
steps that touch the table `files` (`FilesSteps`) follow which two of them take a
row (`RowsGoFor`), the action property `RowsGoOnlyByDelete` and, while the query of
the fallback succeeds, `FailedUploadsLeaveNoRow`.  `AcknowledgedStaysStored` also
says why an acknowledged file may be missing: by `GoneInv`, inductive with `IInv`,
an upload without row was answered with an error or its path was deleted.

**FilePipelineRefinement.**  `PipelineImplementsFileStore`: every behaviour of
the pipeline is one of `FileStore`.  The mapping is a function of paths, so the
file at a path must be unique: `PathsAreUnique`, inductive with `IInv`, since
only `CreateFile` adds a row and the UNIQUE key is part of its step.
Then a lemma for each group of actions: `CreateFileReserves`,
`FinishUploadStores` (the rows of a file that is still there are committed, and
it becomes readable as a whole), `SetAsUploadedConfirms`,
`DeleteWithFoldersWithdraws` (the row of the fallback is still that of its own
unconfirmed upload, or gone), `DeleteRowsDeletes` (every path of the scope in
one step), `ReturnDownloadServes` (which needs `ReadsInv`), and stutters for every other
action, hang-ups and crashes included.  The lemmas `DirectoryTaken`,
`DirectoryFreed` and `DirectoryKept` are what the mapping does when the table
changes.  `StepImplements` collects them, and `IInv` of `FilePipelineProofs`
says what a file has when it is stored, confirmed or served.

**FileTreeProofs.**  `TypeCorrect` needs that a copy's number is a natural one
(`NumbersType`, `CopyType`) and a parent folder a path (`ParentType`).  The other
theorems rest on `Inv`, which adds

* `Phases`, `SeedsStay`: what the row of a request may be where the request is; a
  request inserts one row in its life (`Spent`);
* `OneRowPerPath`: every INSERT comes after `Settled` and not `Taken`, and a
  rollback gives back rows whose path nobody could take meanwhile;
* `Found`: what a DELETE found was there and matches what was asked; `Removers`:
  whoever deleted a row is in its transaction and found the row; `Deleted`: past
  the DELETE nothing it found is left, but what goes with its commit;
* `Checked`: what the check of the parent folder saw still explains its decision
  when the transaction commits;
* `Chosen`: the name of a copy is none of those it was chosen from
  (`CopyNumberIsFree`).

There is one lemma for each part.  From it follow `NoPathTwice`,
`WhatIsDeletedIsGone` and `RefusedByStaleRead`, and, from `HowRowsGo` (a row goes
by a fallback or by a commit), `RowsGoByMatch` and `FolderGoesOnlyByOverlap`.
They hold for any `Misread`: what LIKE matches is inside the folder or is misread
(`LikeIsInside`), and has at least the depth of the pattern (`LikeDepth`).

`ListingsAreExact` speaks of folders about which nothing is misread.  There a row
that LIKE matches is inside the folder, and SPLIT_PART of it is the next component of its path
(`InsideOfSameLength`, `InsideOneDeeper`); that no entry comes twice is the set
that DISTINCT makes, and that an entry of a folder has a size is that the row
which shows it is one of those whose sizes are summed, unless that folder is
misread itself.

`CirclesShareRows` assumes nothing.  Suppose a circle in which no delete of two
rows shares one with another.  A member that waits at its DELETE waits for a
row of its own that another member has deleted, and a member that is waited for
and has found rows already holds one; so a waited-for delete that itself waits
at its DELETE would share (`WaitingForADelete`).  Hence everybody is at the
second statement, the INSERT of a parent folder, and waits for a delete that has
removed that folder's row.  That delete was of the folder or of one around it,
so what it was asked for is nearer to the root (`ParentOfFolder`): the member
whose folder is nearest to the root (`LeastNumber`) has nobody to wait for,
unless that folder is in the root itself, where two members would have deleted
rows of one path, against `OneRowPerPath`.

**StartUpProofs.**  `Inv` adds to `TypeOK` and `SchemaIsWhole` that the statements
run so far have left their objects in the transaction's schema (`Ran`), that a
process past `init_db` has the complete schema, and past `create_superuser` a
superuser (`Passed`), that whoever created or opened an account named its
password (`Kept`), and that a handler without an answer has its message in the
channel or no manager (`Waits`).  `StatementsSuffice` is where the list of
statements meets what the queries use.  The theorems: `TypeCorrect`,
`ServesOnCompleteSchema`, `UpgradeIsWhole`, `AccountsHaveOnePassword` and
`PanicsNeedLostManager`.  `CreateDb` never resets what is there, so none of them
assumes anything of the database's availability.

**ConversionsProofs.**  Every property of `Conversions` for inputs of any size.

* `StoredPathsAreReachable`, with both sides of its two equivalences:
  `ConstructPathIsString` gives the shape of a joined path, `NoWordIsEmpty` what
  `ValidatePath` leaves of it, `RouteKeepsPath` that the first word of a route comes
  off again, `DownloadableIsValid` what a path that is served has passed, and
  `FoundIsDeletable` that the POST routes are then all that a DELETE can meet;
  `FileIsFound` and `FolderIsFound` put them together.
* `FieldsInAnyOrder`: in a form without a field twice, the last field of a name
  is the only one, and shuffling moves it (`ShuffledFields`).
* `DownloadsAreTheFile`, for files that are stored and files that are refused.
  `ChunksFit` turns the limit of parameters into one of bytes, from both sides.
  Below it the chunks have positions (`BoundsAssumption`), so `ChunksComeInOrder`
  sorts them, because the place of a row among the sorted is the number of its
  chunk (`PlaceOfChunk`, with a bijection that counts the rows before it), and
  `ChunksInOrderJoin` joins them byte by byte (`Flattened`, `ChunkBytes`).
* `OneChatForAChannel`: a number has the digits that two powers of ten enclose
  (`DigitsAre`), powers grow (`PowersGrow`), so the full form of an id has its
  digits and three more, begins with 100 and fits into an id (`FullIds`).
  `ChannelsStayApart` adds that two channels never become one chat.

Three of these are about recursive functions, `PowerOfTen` and the one inside
`FlattenSeq`, and two about numbers without a bound.  `Powers` and `Flattened`
show that a function with the recursive equation exists, one step after the
other, so that the equation may be used.

**NumberLemmas.**  A set of numbers that has a member has a least one, and, if
bounded, a greatest one; a set that has 0 and with each number the next has all
of them up to a bound (`InductionUpTo`).  They follow from the theorem on
well-founded orders that speaks of sets, where those that speak of a predicate
cannot be used by the provers.

**StorageWorkersSchedulerProofs.**  `Bounded` says that the recent usages of a
bot and those its open transactions have taken are together at most
`Rate - 1 + Connections`.  `Take` preserves it because the taker saw fewer than
`Rate` committed usages and at most `Connections - 1` other transactions are
open; that it saw all recent ones is `RecentIsSeen`, for which a transaction
deletes only what was old when it began.  `IInv` adds that open transactions
have distinct new ids (`NewIds`) and disjoint locks (`RowLocks`), and that the
table is finite.  The theorems: `TypeCorrect`, `UsagesAreBounded`,
`OneConnectionIsWithinRate` (with one connection the limit itself holds) and
`ForgottenUsagesAreOld`.

**AccessProofs.**  `IInv` adds to `TypeOK` and `RightsNeedStorage` that a grant
or restriction under way is of somebody else (`NotOneself`), from which
`LastAdminNeedsStaleCheck` follows: the administrator who asked is still there.
`AbandonedStaysAbandoned` splits a step into arrivals, which do not get past
the check (`NobodyPassesTheCheck`), and handlers under way, which are about
other storages (`OthersAreManaged`).  Also `TypeCorrect`,
`RightsNeedTheirStorage` and `WorkersHoldTheirStorage`.

Every safety property that a passing run checks is stated by a theorem, and so
is the refinement.  Only model-checked: the liveness properties
`EveryRequestEnds`, `ReservationsEnd`, `EveryCallEnds`, `EventuallyServes` and
`TransfersEnd`, for liveness under fairness is out of the prover's reach, as is
`ENABLED`; and the violations, which are counterexamples.

## Not modelled, and why

* `search` only reads.  `rename` and `update_path` have no route and no caller.
* Hashing, tokens and their expiry: library cryptography without state.  A
  request they refuse does nothing in the models.
* The sizes that `list_dir` sums.  They add up the files of every storage that
  have the same prefix (`repositories/files.rs:217`), which a model of one
  storage does not see.
* A URL in which a letter of a POST route is percent-encoded: whether the router
  then takes the wildcard is the library's, and no client of the repository
  sends it.
* A transaction whose COMMIT succeeds while its answer is lost, but in the
  scheduler: in `FileTree`, `FilePipeline` and `Access` a failed statement changes
  nothing.
* Which worker belongs to whom, its name and its token: a registration is refused
  or refers to a storage.
* What Telegram answers: texts, and the body of the file's own GET, whose status
  the code does not look at.
* A rate limit of zero, with which `get_token` never ends.
* The concurrency limit of `server.rs` (`WORKERS` requests at a time): it delays
  the start of a request, which then holds nothing yet, so a server with it has
  fewer interleavings than the models.
* Status codes, texts, logging, the web UI: no state that anything depends on.

## Plan

Done: `FilePipeline` with `FileStore`, `StorageWorkersScheduler`, `Access`,
`FileTree`, `Conversions` and `StartUp`, each with its runs and its proofs.  Left,
in this order:

1. `FileTree` without folder rows as an implementation of the `files` of
   `FilePipeline`.
2. Deletion of a storage while its files are in the pipeline, which joins
   `Access` with `FilePipeline`.
3. The steps of the liveness arguments that are safety: which measure each
   request's step decreases.
