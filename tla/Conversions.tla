----------------------------- MODULE Conversions -----------------------------
(***************************************************************************)
(* What a request and a file go through on their way, as functions: the    *)
(* path a request names (routers/files.rs and the validation of            *)
(* services/files.rs), the chunks of a file and their positions            *)
(* (services/storage_manager.rs), and the id of a chat                     *)
(* (common/telegram_api/bot_api.rs).  A behaviour takes one input and      *)
(* converts it; the properties compare the result with what it stands for. *)
(***************************************************************************)
EXTENDS Integers, FiniteSets, SequencesExt

CONSTANTS
    Words,         \* what may stand between two slashes
    Empty,         \* nothing between two slashes
    PostOnly,      \* words that are routes of their own, which answer POST only
    MaxWords,      \* bound: words of a string
    MaxFields,     \* bound: fields of a form
    ChunkSize,     \* bytes of a chunk
    MaxBytes,      \* bound: bytes of a file
    MaxBinds,      \* parameters of a statement at most; 65535 in PostgreSQL
    Positions,     \* the numbers from 0 of the type Position; 2^15 of i16 in the code
    Ids,           \* the numbers from 0 of the type ChatId; 2^63 of i64 in the code
    IdDigits,      \* their digits; 19 in the code
    FullDigits,    \* digits of an id that carries the prefix; 13 in the code
    Channels       \* channels, by the digits of their ids

(***************************************************************************)
(* A string is the sequence of what its slashes separate: "" is <<Empty>>, *)
(* "a/f" is <<a, f>>, "a/" is <<a, Empty>> and "/" is <<Empty, Empty>>.    *)
(***************************************************************************)
Text == UNION {[1 .. n -> Words \cup {Empty}] : n \in 1 .. MaxWords}
NoText == <<Empty>>

\* 10 to the power of d.
PowerOfTen[d \in 0 .. IdDigits] == IF d = 0 THEN 1 ELSE 10 * PowerOfTen[d - 1]

\* id, file_id, telegram_file_id, telegram_message_id and position of a chunk.
BindsPerChunk == 5

ASSUME WordsAssumption == Empty \notin Words /\ PostOnly \subseteq Words
ASSUME BoundsAssumption ==
    /\ MaxWords \in Nat \ {0} /\ MaxFields \in Nat /\ MaxBytes \in Nat
    /\ ChunkSize \in Nat \ {0}
    /\ MaxBinds \in Nat /\ Positions \in Nat \ {0} /\ MaxBinds \div BindsPerChunk <= Positions
    /\ Ids \in Nat \ {0}
    /\ IdDigits \in Nat \ {0} /\ FullDigits \in Nat
    /\ Ids <= PowerOfTen[IdDigits]

\* n in a signed type with half numbers from 0 and half below (as, wrapping arithmetic).
Wrap(n, half) ==
    LET low == n % (2 * half)
    IN  IF low < half THEN low ELSE low - 2 * half

-----------------------------------------------------------------------------
(***************************************************************************)
(* Paths.                                                                  *)
(***************************************************************************)
StartsWithSlash(s) == Len(s) > 1 /\ s[1] = Empty
EndsWithSlash(s) == Len(s) > 1 /\ s[Len(s)] = Empty

HasDoubleSlash(s) == \E i \in 2 .. Len(s) - 1 : s[i] = Empty

ValidatePath(s) == ~StartsWithSlash(s) /\ ~HasDoubleSlash(s)

\* Mutant of ValidateFilepath: it is validate_path.
ValidateFilepathLoosely(s) == ValidatePath(s)

ValidateFilepath(s) == ValidatePath(s) /\ ~EndsWithSlash(s)

\* Path::join: an absolute name replaces the path.
ConstructPath(path, filename) ==
    IF StartsWithSlash(filename) \/ path = NoText THEN filename
    ELSE (IF EndsWithSlash(path) THEN SubSeq(path, 1, Len(path) - 1) ELSE path) \o filename

\* split_once("/"): what dynamic_get takes for the operation, and the rest.
SplitOnce(s) == <<s[1], IF Len(s) = 1 THEN NoText ELSE Tail(s)>>

\* A URL, after that of the storage's files, that the routes leave to the wildcard.
Wildcard(url) == url # NoText /\ url \notin {<<w>> : w \in PostOnly}

\* GET "download/" and the path, and DELETE and the path: the handler is reached, gets
\* the path as it was stored, and does not refuse it.
Downloadable(p) ==
    LET url == <<"download">> \o p
    IN  Wildcard(url) /\ SplitOnce(url) = <<"download", p>> /\ ValidatePath(p)
Deletable(p) == Wildcard(p) /\ ValidatePath(p)

\* Opening one folder after the other from the root leads to p: list_dir shows no
\* entries without name.
Listed(p) == \A i \in DOMAIN p : p[i] = Empty => 1 < i /\ i = Len(p)

\* The path of create_folder.
FolderPath(parent, name) ==
    IF parent = NoText THEN <<name[1], Empty>> ELSE parent \o <<name[1], Empty>>

(***************************************************************************)
(* Forms: the fields a client sends, in its order.  A path may fail to be  *)
(* UTF-8; a file has the name "unnamed" when the client gives none.        *)
(***************************************************************************)
Fields ==
    [name : {"file"}, text : Text] \cup [name : {"path"}, text : Text]
        \cup {[name |-> "path", text |-> <<>>], [name |-> "other", text |-> <<>>]}

Named(form, name) == {i \in DOMAIN form : form[i].name = name}
Latest(form, name) ==
    form[CHOOSE i \in Named(form, name) : \A j \in Named(form, name) : j <= i].text
Utf8(text) == text # <<>>

Stored(v) == [answer |-> "stored", value |-> v]
Refused == [answer |-> "refused", value |-> <<>>]
Panicked == [answer |-> "panicked", value |-> <<>>]

\* Mutant of Upload: it takes the path when it meets the file.
UploadInOrder(form) ==
    IF Named(form, "file") = {} \/ Named(form, "path") = {} THEN Refused
    ELSE LET file == CHOOSE i \in Named(form, "file") : \A j \in Named(form, "file") : j <= i
             before == {i \in Named(form, "path") : i < file /\ Utf8(form[i].text)}
         IN  IF before = {} THEN Refused
             ELSE Stored(ConstructPath(form[CHOOSE i \in before : TRUE].text, form[file].text))

\* FilesRouter::upload and upload_anyway, which does not look at the path.
Upload(form) ==
    IF \E i \in Named(form, "path") : ~Utf8(form[i].text) THEN Panicked
    ELSE IF Named(form, "file") = {} \/ Named(form, "path") = {} THEN Refused
    ELSE Stored(ConstructPath(Latest(form, "path"), Latest(form, "file")))

\* FilesRouter::upload_to and FilesService::upload_to.
UploadTo(form) ==
    IF Named(form, "path") # {} /\ Utf8(Latest(form, "path")) /\ Named(form, "file") # {}
           /\ ValidateFilepath(Latest(form, "path"))
    THEN Stored(Latest(form, "path"))
    ELSE Refused

CreateFolder(parent, name) ==
    IF ValidateFilepath(parent) /\ Len(name) = 1 THEN Stored(FolderPath(parent, name)) ELSE Refused

-----------------------------------------------------------------------------
(***************************************************************************)
(* The chunks of a file.                                                   *)
(***************************************************************************)

\* chunks(chunk_size)
Chunks(file) ==
    LET upto(k) == IF k * ChunkSize <= Len(file) THEN k * ChunkSize ELSE Len(file)
    IN  [k \in 1 .. (Len(file) + ChunkSize - 1) \div ChunkSize |->
            SubSeq(file, (k - 1) * ChunkSize + 1, upto(k))]

\* Mutant of Position: a type of half the numbers.
PositionNarrow(n) == Wrap(n, Positions \div 2)

\* position as i16, of the n-th chunk from 0.
Position(n) == Wrap(n, Positions)

\* The place of the i-th row after sort_by_key, which keeps equal keys in their order.
Place(positions, i) ==
    Cardinality({j \in DOMAIN positions :
        positions[j] < positions[i] \/ (positions[j] = positions[i] /\ j <= i)})

\* The rows of a file as the database returns them, in any order: order[i] is the
\* chunk of row i, from 0.  The chunks in the order of sort_by_key (download).
SortByPosition(order) ==
    LET positions == [i \in DOMAIN order |-> Position(order[i])]
    IN  [k \in DOMAIN order |-> order[CHOOSE i \in DOMAIN order : Place(positions, i) = k]]

\* flat_map
Join(file, order) ==
    LET chunks == Chunks(file)
        sorted == SortByPosition(order)
    IN  FlattenSeq([k \in DOMAIN sorted |-> chunks[sorted[k] + 1]])

\* Mutant of CreatesChunks: a parameter is forgotten in the count.
CreatesMoreChunks(n) == n > 0 /\ (BindsPerChunk - 1) * n <= MaxBinds

\* create_chunks_batch is one INSERT of n rows, each with its own parameters: it fails
\* without rows, and with more parameters than a statement may have.
CreatesChunks(n) == n > 0 /\ BindsPerChunk * n <= MaxBinds

\* An upload, and a download of it.
Transfer(file, order) ==
    IF CreatesChunks(Len(Chunks(file))) THEN Stored(Join(file, order)) ELSE Refused

-----------------------------------------------------------------------------
(***************************************************************************)
(* The id of a chat.                                                       *)
(***************************************************************************)
Abs(n) == IF n < 0 THEN -n ELSE n
Digits(n) ==
    CHOOSE d \in 1 .. IdDigits : n < PowerOfTen[d] /\ (d = 1 \/ PowerOfTen[d - 1] <= n)

\* Mutant of AlreadyPrefixed: the shortest id with a prefix is taken for one without.
AlreadyPrefixedLong(id) ==
    LET d == Digits(Abs(id)) IN id < 0 /\ d > FullDigits /\ Abs(id) \div PowerOfTen[d - 3] = 100

AlreadyPrefixed(id) ==
    LET d == Digits(Abs(id)) IN id < 0 /\ d >= FullDigits /\ Abs(id) \div PowerOfTen[d - 3] = 100

NormalizeChatId(id) ==
    IF AlreadyPrefixed(id) THEN id ELSE Wrap(id - 100 * PowerOfTen[Digits(Abs(id))], Ids)

\* The two forms in which the id of a channel is stored: without and with the prefix.
Short(c) == -c
Full(c) == -(100 * PowerOfTen[Digits(c)] + c)

ASSUME ChannelsAssumption ==
    \A c \in Channels :
        /\ c \in 0 .. Ids - 1 /\ -Full(c) < Ids
        /\ Digits(c) + 3 >= FullDigits /\ Digits(c) < FullDigits

-----------------------------------------------------------------------------
VARIABLES
    given,   \* the input
    done,    \* it has been converted
    result   \* what became of it

vars == <<given, done, result>>

Forms == UNION {[1 .. n -> Fields] : n \in 0 .. MaxFields}
Orders(n) == Bijection(1 .. n, 0 .. n - 1)

Transfers(n) ==
    [operation : {"transfer"}, bytes : {n}, order : Orders((n + ChunkSize - 1) \div ChunkSize)]
Normalizations(c) ==
    [operation : {"normalize"}, channel : {c}, id : {Short(c), Full(c)}]

Inputs ==
    [operation : {"upload", "upload_to"}, form : Forms]
        \cup [operation : {"create_folder"}, parent : Text, name : Text]
        \cup (UNION {Transfers(n) : n \in 0 .. MaxBytes})
        \cup (UNION {Normalizations(c) : c \in Channels})

Init == given \in Inputs /\ done = FALSE /\ result = <<>>

Answer(operation, value) ==
    /\ given.operation = operation
    /\ ~done
    /\ done' = TRUE
    /\ result' = value
    /\ UNCHANGED given

File(n) == [i \in 1 .. n |-> i]

Next ==
    \/ Answer("upload", Upload(given.form))
    \/ Answer("upload_to", UploadTo(given.form))
    \/ Answer("create_folder", CreateFolder(given.parent, given.name))
    \/ Answer("transfer", Transfer(File(given.bytes), given.order))
    \/ Answer("normalize", NormalizeChatId(given.id))
    \/ done /\ UNCHANGED vars

Spec == Init /\ [][Next]_vars

-----------------------------------------------------------------------------
(***************************************************************************)
(* Properties.                                                             *)
(***************************************************************************)
Done(operations) == done /\ given.operation \in operations

\* What is stored can be listed and downloaded by its path, and is a folder's if and
\* only if it is one, unless its name is empty, or upload, which checks no path, was
\* sent one that upload_to refuses.  It can then also be deleted, unless it is a file
\* in the root with the name of a route that answers POST only (get_router,
\* dynamic_get, delete).
StoredIsReachable ==
    Done({"upload", "upload_to", "create_folder"}) /\ result.answer = "stored" =>
        LET p == result.value
            isFolder == given.operation = "create_folder"
            sound == /\ p # NoText /\ (isFolder => given.name # NoText)
                     /\ given.operation = "upload" => ValidateFilepath(p)
            found == Listed(p) /\ Downloadable(p) /\ (EndsWithSlash(p) <=> isFolder)
        IN  /\ found <=> sound
            /\ found => (Deletable(p) <=> p \notin {<<w>> : w \in PostOnly})

\* The fields of a form, each sent once, may come in any order (upload, upload_to).
FieldOrderIsFree ==
    Done({"upload", "upload_to"})
        /\ (\A i, j \in DOMAIN given.form : given.form[i].name = given.form[j].name => i = j) =>
            \A order \in Bijection(DOMAIN given.form, DOMAIN given.form) :
                LET form == [i \in DOMAIN given.form |-> given.form[order[i]]]
                IN  result = IF given.operation = "upload" THEN Upload(form) ELSE UploadTo(form)

\* A file comes back byte for byte, in whatever order the database lists its chunks,
\* or its upload is refused: when it has no bytes, or more than fit into the chunks of
\* one INSERT (create_chunks_batch, upload, download; "effectively unlimited file
\* sizes", README.md:170, end at 13107 chunks).
DownloadIsTheFile ==
    Done({"transfer"}) =>
        result = IF given.bytes \in 1 .. ChunkSize * (MaxBinds \div BindsPerChunk)
                 THEN Stored(File(given.bytes))
                 ELSE Refused

\* Both forms of a channel's id become the same chat, and it is not the chat of
\* another channel (normalize_chat_id, "we never double-prefix").
OneChatPerChannel ==
    Done({"normalize"}) => result = Full(given.channel) /\ NormalizeChatId(result) = result
=============================================================================
