------------------------- MODULE ConversionsProofs -------------------------
(***************************************************************************)
(* Theorems about Conversions, for inputs of any size and any widths of    *)
(* the types.  A behaviour has one step, so each theorem rests on what the *)
(* conversions do: sort_by_key and the join of the chunks, the checks of   *)
(* paths, the fields of forms, and the digits of ids.                      *)
(***************************************************************************)
EXTENDS Conversions, FiniteSetTheorems, NumberLemmas, TLAPS

\* A chunk whose number is a position keeps it.
LEMMA PositionFits ==
    ASSUME NEW n \in Nat, n < Positions
    PROVE  Position(n) = n
BY BoundsAssumption DEF Position, Wrap

\* As many rows hold the chunks up to that of row i as its number says.
LEMMA RowsUpTo ==
    ASSUME NEW n \in Nat, NEW order \in Orders(n), NEW i \in 1 .. n
    PROVE  Cardinality({j \in 1 .. n : order[j] <= order[i]}) = order[i] + 1
<1> DEFINE T == {j \in 1 .. n : order[j] <= order[i]}
           m == order[i]
           f == [j \in T |-> order[j]]
<1>1. order \in [1 .. n -> 0 .. n - 1] /\ m \in 0 .. n - 1
  BY DEF Orders, Bijection, Injection
<1>2. f \in [T -> 0 .. m]
  BY <1>1
<1>3. \A x, y \in T : f[x] = f[y] => x = y
  BY DEF Orders, Bijection, Injection, IsInjective
<1>4. \A k \in 0 .. m : \E x \in T : f[x] = k
  <2> TAKE k \in 0 .. m
  <2>1. k \in 0 .. n - 1
    BY <1>1
  <2>2. PICK x \in 1 .. n : order[x] = k
    BY <2>1 DEF Orders, Bijection, Surjection
  <2>3. x \in T
    BY <2>2, <1>1
  <2> QED
    BY <2>2, <2>3
<1>5. f \in Bijection(T, 0 .. m)
  BY <1>2, <1>3, <1>4 DEF Bijection, Injection, IsInjective, Surjection
<1>6. IsFiniteSet(T)
  BY FS_Interval, FS_Subset
<1>7. Cardinality(T) = Cardinality(0 .. m)
  BY <1>5, <1>6, FS_Bijection DEF ExistsBijection
<1>8. Cardinality(0 .. m) = m + 1
  BY <1>1, FS_Interval
<1> QED
  BY <1>7, <1>8

\* sort_by_key puts every chunk in its place.
LEMMA PlaceOfChunk ==
    ASSUME NEW n \in Nat, n <= Positions, NEW order \in Orders(n), NEW i \in 1 .. n
    PROVE  Place([j \in DOMAIN order |-> Position(order[j])], i) = order[i] + 1
<1> DEFINE P == [j \in DOMAIN order |-> Position(order[j])]
<1>1. order \in [1 .. n -> 0 .. n - 1]
  BY DEF Orders, Bijection, Injection
<1>2. \A j \in 1 .. n : P[j] = order[j]
  <2> TAKE j \in 1 .. n
  <2>1. order[j] \in Nat /\ order[j] < Positions
    BY <1>1, BoundsAssumption
  <2> QED
    BY <1>1, <2>1, PositionFits
<1>3. \A j \in 1 .. n : order[j] = order[i] => j = i
  BY DEF Orders, Bijection, Injection, IsInjective
<1>4. {j \in DOMAIN P : P[j] < P[i] \/ (P[j] = P[i] /\ j <= i)}
        = {j \in 1 .. n : order[j] <= order[i]}
  BY <1>1, <1>2, <1>3
<1> QED
  BY <1>4, RowsUpTo DEF Place

\* A download joins the chunks in the order of the file, in whatever order the
\* database lists its rows, as long as there are no more chunks than positions
\* (StorageManagerService::download, position as i16).
THEOREM ChunksComeInOrder ==
    ASSUME NEW n \in Nat, n <= Positions, NEW order \in Orders(n)
    PROVE  SortByPosition(order) = [k \in 1 .. n |-> k - 1]
<1> DEFINE P == [j \in DOMAIN order |-> Position(order[j])]
<1>1. order \in [1 .. n -> 0 .. n - 1] /\ DOMAIN order = 1 .. n
  BY DEF Orders, Bijection, Injection
<1>2. ASSUME NEW k \in 1 .. n
      PROVE  order[CHOOSE i \in DOMAIN order : Place(P, i) = k] = k - 1
  <2>1. k - 1 \in 0 .. n - 1
    OBVIOUS
  <2>2. PICK i \in 1 .. n : order[i] = k - 1
    BY <2>1 DEF Orders, Bijection, Surjection
  <2>3. Place(P, i) = k
    BY <2>2, PlaceOfChunk
  <2> DEFINE c == CHOOSE x \in DOMAIN order : Place(P, x) = k
  <2>4. c \in 1 .. n /\ Place(P, c) = k
    BY <1>1, <2>3
  <2>5. order[c] + 1 = k
    BY <2>4, PlaceOfChunk
  <2> QED
    BY <2>4, <2>5, <1>1
<1> QED
  BY <1>1, <1>2 DEF SortByPosition

-----------------------------------------------------------------------------
(***************************************************************************)
(* What a behaviour ends with, and what its inputs are.                    *)
(***************************************************************************)

\* The result, once there is one, is that of the conversion asked for.
Converted ==
    /\ given \in Inputs
    /\ done => \/ given.operation = "upload" /\ result = Upload(given.form)
               \/ given.operation = "upload_to" /\ result = UploadTo(given.form)
               \/ given.operation = "create_folder" /\ result = CreateFolder(given.parent, given.name)
               \/ given.operation = "transfer" /\ result = Transfer(File(given.bytes), given.order)
               \/ given.operation = "normalize" /\ result = NormalizeChatId(given.id)

LEMMA ConvertedAlways == Spec => []Converted
<1>1. Init => Converted
  BY DEF Init, Converted
<1>2. Converted /\ [Next]_vars => Converted'
  BY DEF Converted, Next, vars, Answer
<1> QED
  BY <1>1, <1>2, PTL DEF Spec

LEMMA TextType == \A s \in Text : s \in Seq(Words \cup {Empty}) /\ Len(s) \in Nat /\ Len(s) >= 1
BY BoundsAssumption DEF Text

\* The inputs of each operation.
LEMMA InputTypes ==
    ASSUME given \in Inputs
    PROVE  /\ given.operation \in {"upload", "upload_to"} => given.form \in Forms
           /\ given.operation = "create_folder" => given.parent \in Text /\ given.name \in Text
           /\ given.operation = "transfer" =>
                 /\ given.bytes \in Nat
                 /\ given.order \in Orders((given.bytes + ChunkSize - 1) \div ChunkSize)
           /\ given.operation = "normalize" =>
                 /\ given.channel \in Channels
                 /\ given.id \in {Short(given.channel), Full(given.channel)}
<1>1. CASE given \in [operation : {"upload", "upload_to"}, form : Forms]
  BY <1>1
<1>2. CASE given \in [operation : {"create_folder"}, parent : Text, name : Text]
  BY <1>2
<1>3. ASSUME NEW n \in 0 .. MaxBytes, given \in Transfers(n)
      PROVE  /\ given.operation = "transfer" /\ given.bytes \in Nat
             /\ given.order \in Orders((given.bytes + ChunkSize - 1) \div ChunkSize)
  BY <1>3 DEF Transfers
<1>4. ASSUME NEW c \in Channels, given \in Normalizations(c)
      PROVE  /\ given.operation = "normalize" /\ given.channel \in Channels
             /\ given.id \in {Short(given.channel), Full(given.channel)}
  BY <1>4 DEF Normalizations
<1> QED
  BY <1>1, <1>2, <1>3, <1>4 DEF Inputs

-----------------------------------------------------------------------------
(***************************************************************************)
(* Paths.                                                                  *)
(***************************************************************************)
Strings == Seq(Words \cup {Empty}) \ {<<>>}

LEMMA TextIsString == Text \subseteq Strings
BY TextType DEF Strings

\* The latest field with a name that the form has is a field of the form.
LEMMA LatestIsField ==
    ASSUME NEW form \in Forms, NEW name, Named(form, name) # {}
    PROVE  \E i \in Named(form, name) : form[i] \in Fields /\ Latest(form, name) = form[i].text
<1>1. PICK n \in 0 .. MaxFields : form \in [1 .. n -> Fields]
  BY DEF Forms
<1>2. \A i \in Named(form, name) : i \in 1 .. n /\ form[i] \in Fields
  BY <1>1 DEF Named
<1>3. \E i \in Named(form, name) : \A j \in Named(form, name) : j <= i
  <2>1. Named(form, name) \in SUBSET (0 .. n) /\ n \in Nat
    BY <1>2, BoundsAssumption
  <2> QED
    BY <2>1, GreatestNumber
<1> QED
  BY <1>2, <1>3 DEF Latest

\* It is a string, unless it is a path that is not UTF-8.
LEMMA LatestIsString ==
    ASSUME NEW form \in Forms, NEW name \in {"file", "path"}, Named(form, name) # {}
    PROVE  /\ name = "file" => Latest(form, name) \in Strings
           /\ Utf8(Latest(form, name)) => Latest(form, name) \in Strings
           /\ (\A i \in Named(form, name) : Utf8(form[i].text)) => Latest(form, name) \in Strings
<1>1. PICK i \in Named(form, name) : form[i] \in Fields /\ Latest(form, name) = form[i].text
  BY LatestIsField
<1>2. form[i].name = name
  BY DEF Named
<1>3. form[i].text \in Text \/ (name = "path" /\ form[i].text = <<>>)
  BY <1>1, <1>2 DEF Fields
<1> QED
  BY <1>1, <1>3, TextIsString DEF Utf8

\* What a filename is joined to is a string again, and so is the rest of a route.
LEMMA ConstructPathIsString ==
    ASSUME NEW path \in Strings, NEW filename \in Strings
    PROVE  ConstructPath(path, filename) \in Strings
<1>1. SubSeq(path, 1, Len(path) - 1) \in Seq(Words \cup {Empty})
  BY DEF Strings
<1>2. \A s \in Seq(Words \cup {Empty}) : s \o filename \in Strings
  BY DEF Strings
<1> QED
  BY <1>1, <1>2 DEF ConstructPath, Strings

\* The words of a path of a file that passes the checks are not empty.
LEMMA NoWordIsEmpty ==
    ASSUME NEW p \in Strings, ValidateFilepath(p), p # NoText
    PROVE  \A i \in 1 .. Len(p) : p[i] # Empty
<1>1. p \in Seq(Words \cup {Empty}) /\ Len(p) \in Nat /\ Len(p) >= 1
  BY DEF Strings
<1>2. CASE Len(p) = 1
  <2>1. p = << p[1] >>
    BY <1>1, <1>2
  <2> QED
    BY <1>2, <2>1 DEF NoText
<1>3. CASE Len(p) # 1
  <2>1. Len(p) > 1
    <3>1. \A n \in Nat : n >= 1 /\ n # 1 => n > 1
      OBVIOUS
    <3> QED
      BY <1>1, <1>3, <3>1
  <2> QED
    BY <1>1, <2>1
       DEF ValidateFilepath, ValidatePath, StartsWithSlash, EndsWithSlash, HasDoubleSlash
<1> QED
  BY <1>2, <1>3

\* dynamic_get takes the operation off and leaves the path.
LEMMA RouteKeepsPath ==
    ASSUME NEW p \in Strings, NEW op
    PROVE  SplitOnce(<<op>> \o p) = <<op, p>>
<1> DEFINE S == Words \cup {Empty, op}
           s == <<op>> \o p
<1>1. p \in Seq(S) /\ <<op>> \in Seq(S) /\ Len(p) \in Nat /\ Len(p) >= 1
  BY DEF Strings
<1>2. s \in Seq(S) /\ Len(s) = Len(p) + 1 /\ s[1] = op
  BY <1>1
<1>3. Tail(s) = p
  BY <1>1
<1> HIDE DEF s
<1> QED
  BY <1>1, <1>2, <1>3 DEF SplitOnce, s

\* The route of a download is never one of the fixed ones, and is left with the path.
LEMMA DownloadableIsValid ==
    ASSUME NEW p \in Strings
    PROVE  Downloadable(p) <=> ValidatePath(p)
<1> DEFINE W == Words \cup {Empty, "download"}
           url == <<"download">> \o p
<1>1. p \in Seq(W) /\ <<"download">> \in Seq(W) /\ Len(p) \in Nat /\ Len(p) >= 1
  BY DEF Strings
<1>2. Len(url) = Len(p) + 1
  BY <1>1
<1>3. Len(url) # 1
  BY <1>1, <1>2
<1>4. SplitOnce(url) = <<"download", p>>
  BY RouteKeepsPath
<1> HIDE DEF url
<1>5. Wildcard(url)
  <2>1. Len(NoText) = 1 /\ \A w \in PostOnly : Len(<<w>>) = 1
    BY DEF NoText
  <2> QED
    BY <1>3, <2>1 DEF Wildcard
<1> QED
  BY <1>4, <1>5 DEF Downloadable, url

\* What is listed has a name, so that only the fixed routes keep it from being deleted.
LEMMA FoundIsDeletable ==
    ASSUME NEW p \in Strings, Listed(p), Downloadable(p)
    PROVE  p # NoText /\ (Deletable(p) <=> p \notin {<<w>> : w \in PostOnly})
<1>1. p # NoText
  <2> SUFFICES ASSUME p = NoText
               PROVE  FALSE
    OBVIOUS
  <2>1. 1 \in DOMAIN p /\ p[1] = Empty
    BY DEF NoText
  <2> QED
    BY <2>1 DEF Listed
<1> QED
  BY <1>1, DownloadableIsValid DEF Deletable, Wildcard

\* A file is found by its path if and only if that has a name and passes the checks.
LEMMA FileIsFound ==
    ASSUME NEW p \in Strings
    PROVE  Listed(p) /\ Downloadable(p) /\ ~EndsWithSlash(p) <=> p # NoText /\ ValidateFilepath(p)
<1>1. Len(p) \in Nat /\ Len(p) >= 1 /\ DOMAIN p = 1 .. Len(p)
  BY DEF Strings
<1>2. ASSUME p # NoText, ValidateFilepath(p)
      PROVE  Listed(p) /\ Downloadable(p) /\ ~EndsWithSlash(p)
  <2>1. \A i \in 1 .. Len(p) : p[i] # Empty
    BY <1>2, NoWordIsEmpty
  <2> QED
    BY <1>1, <1>2, <2>1, DownloadableIsValid DEF Listed, ValidateFilepath
<1>3. ASSUME Listed(p), Downloadable(p), ~EndsWithSlash(p)
      PROVE  p # NoText /\ ValidateFilepath(p)
  BY <1>3, FoundIsDeletable, DownloadableIsValid DEF ValidateFilepath
<1> QED
  BY <1>2, <1>3

\* A folder in a path that passes the checks is found if and only if it has a name.
LEMMA FolderIsFound ==
    ASSUME NEW parent \in Strings, ValidateFilepath(parent), NEW name \in Strings, Len(name) = 1
    PROVE  LET p == FolderPath(parent, name)
           IN  /\ p \in Strings /\ p # NoText /\ EndsWithSlash(p)
               /\ Listed(p) /\ Downloadable(p) <=> name # NoText
<1> DEFINE W == Words \cup {Empty}
           p == FolderPath(parent, name)
           before == IF parent = NoText THEN <<>> ELSE parent
<1>1. name \in Seq(W) /\ name[1] \in W /\ (name = NoText <=> name[1] = Empty)
  <2>1. name \in Seq(W) /\ name[1] \in W
    BY DEF Strings
  <2>2. name = << name[1] >>
    BY <2>1
  <2> HIDE DEF W
  <2> QED
    BY <2>1, <2>2 DEF NoText
<1>2. before \in Seq(W) /\ \A i \in 1 .. Len(before) : before[i] # Empty
  <2>1. <<>> \in Seq(W)
    OBVIOUS
  <2> QED
    BY <2>1, NoWordIsEmpty DEF Strings
<1>3. p = before \o <<name[1], Empty>>
  <2>1. <<>> \o <<name[1], Empty>> = <<name[1], Empty>>
    OBVIOUS
  <2> QED
    BY <2>1 DEF FolderPath
<1> HIDE DEF before, p
<1>4. /\ p \in Seq(W) /\ Len(p) = Len(before) + 2 /\ Len(before) \in Nat
      /\ \A i \in 1 .. Len(before) : p[i] = before[i]
      /\ p[Len(before) + 1] = name[1] /\ p[Len(before) + 2] = Empty
  <2>1. <<name[1], Empty>> \in Seq(W)
    BY <1>1
  <2> QED
    BY <1>2, <1>3, <2>1
<1>5. p \in Strings /\ p # NoText /\ EndsWithSlash(p)
  <2>1. Len(p) > 1 /\ Len(p) # 1
    BY <1>4
  <2>2. p[Len(p)] = Empty
    BY <1>4
  <2>3. p \in Strings /\ p # NoText
    BY <1>4, <2>1 DEF Strings, NoText
  <2> QED
    BY <2>1, <2>2, <2>3 DEF EndsWithSlash
<1>6. ASSUME name # NoText
      PROVE  Listed(p) /\ Downloadable(p)
  <2>1. \A i \in 1 .. Len(p) - 1 : p[i] # Empty
    <3> TAKE i \in 1 .. Len(p) - 1
    <3>1. i \in 1 .. Len(before) \/ i = Len(before) + 1
      BY <1>4
    <3> QED
      BY <1>1, <1>2, <1>4, <1>6, <3>1
  <2>2. ValidatePath(p)
    BY <1>4, <2>1 DEF ValidatePath, StartsWithSlash, HasDoubleSlash
  <2>3. \A i \in DOMAIN p : i \in 1 .. Len(p) - 1 \/ (i = Len(p) /\ 1 < i)
    BY <1>4
  <2> QED
    BY <1>5, <2>1, <2>2, <2>3, DownloadableIsValid DEF Listed
<1>7. ASSUME name = NoText
      PROVE  ~Listed(p)
  <2>1. Len(before) + 1 \in DOMAIN p /\ Len(before) + 1 # Len(p)
    BY <1>4
  <2>2. p[Len(before) + 1] = Empty
    BY <1>1, <1>4, <1>7
  <2> QED
    BY <2>1, <2>2 DEF Listed
<1> QED
  BY <1>5, <1>6, <1>7 DEF p

\* Whatever a client sends in its forms, what is stored can be listed, downloaded and
\* deleted by its path, with the exceptions the property names and no others (upload,
\* upload_to, create_folder, dynamic_get, delete).
THEOREM StoredPathsAreReachable == Spec => []StoredIsReachable
<1> DEFINE IsFolder == given.operation = "create_folder"
           Sound(p) == /\ p # NoText /\ (IsFolder => given.name # NoText)
                       /\ given.operation = "upload" => ValidateFilepath(p)
           Found(p) == Listed(p) /\ Downloadable(p) /\ (EndsWithSlash(p) <=> IsFolder)
<1>1. ASSUME Converted, Done({"upload", "upload_to", "create_folder"}), result.answer = "stored"
      PROVE  /\ Found(result.value) <=> Sound(result.value)
             /\ Found(result.value) =>
                   (Deletable(result.value) <=> result.value \notin {<<w>> : w \in PostOnly})
  <2>1. given \in Inputs /\ done
    BY <1>1 DEF Converted, Done
  <2>2. ASSUME NEW p, given.operation \in {"upload", "upload_to"}, result = Stored(p), p \in Strings,
               given.operation # "upload" => ValidateFilepath(p)
        PROVE  result.value = p /\ p \in Strings /\ (Found(p) <=> Sound(p))
    <3>1. result.value = p
      BY <2>2 DEF Stored
    <3> QED
      BY <2>2, <3>1, FileIsFound
  <2>3. Refused.answer # "stored" /\ Panicked.answer # "stored"
    BY DEF Refused, Panicked
  <2>4. CASE given.operation = "upload"
    <3> DEFINE form == given.form
               path == Latest(form, "path")
               filename == Latest(form, "file")
    <3>1. result = Upload(form) /\ form \in Forms
      BY <1>1, <2>1, <2>4, InputTypes DEF Converted
    <3>2. /\ \A i \in Named(form, "path") : Utf8(form[i].text)
          /\ Named(form, "file") # {} /\ Named(form, "path") # {}
          /\ result = Stored(ConstructPath(path, filename))
      BY <1>1, <2>3, <3>1 DEF Upload
    <3>4. path \in Strings /\ filename \in Strings
      BY <3>1, <3>2, LatestIsString
    <3>5. ConstructPath(path, filename) \in Strings
      BY <3>4, ConstructPathIsString
    <3> HIDE DEF Found, Sound
    <3> QED
      BY <2>2, <2>4, <3>2, <3>5, FoundIsDeletable DEF Found
  <2>5. CASE given.operation = "upload_to"
    <3> DEFINE form == given.form
               path == Latest(form, "path")
    <3>1. result = UploadTo(form) /\ form \in Forms
      BY <1>1, <2>1, <2>5, InputTypes DEF Converted
    <3>2. Named(form, "path") # {} /\ Utf8(path) /\ ValidateFilepath(path) /\ result = Stored(path)
      BY <1>1, <2>3, <3>1 DEF UploadTo
    <3>3. path \in Strings
      BY <3>1, <3>2, LatestIsString
    <3> HIDE DEF Found, Sound
    <3> QED
      BY <2>2, <2>5, <3>2, <3>3, FoundIsDeletable DEF Found
  <2>6. CASE given.operation = "create_folder"
    <3>1. /\ result = CreateFolder(given.parent, given.name)
          /\ given.parent \in Strings /\ given.name \in Strings
      BY <1>1, <2>1, <2>6, InputTypes, TextIsString DEF Converted
    <3>2. /\ ValidateFilepath(given.parent) /\ Len(given.name) = 1
          /\ result = Stored(FolderPath(given.parent, given.name))
      BY <1>1, <2>3, <3>1 DEF CreateFolder
    <3> DEFINE p == FolderPath(given.parent, given.name)
    <3>3. result.value = p
      BY <3>2 DEF Stored
    <3>4. /\ p \in Strings /\ p # NoText /\ EndsWithSlash(p)
          /\ Listed(p) /\ Downloadable(p) <=> given.name # NoText
      BY <3>1, <3>2, FolderIsFound
    <3> HIDE DEF p
    <3> QED
      BY <2>6, <3>3, <3>4, FoundIsDeletable
  <2> QED
    BY <1>1, <2>4, <2>5, <2>6 DEF Done
<1>2. Converted => StoredIsReachable
  BY <1>1 DEF StoredIsReachable
<1> QED
  BY <1>2, ConvertedAlways, PTL

-----------------------------------------------------------------------------
(***************************************************************************)
(* Forms.                                                                  *)
(***************************************************************************)

\* A form with at most one field of each name, and its fields in another order.
LEMMA ShuffledFields ==
    ASSUME NEW form \in Forms, NEW order \in Bijection(DOMAIN form, DOMAIN form), NEW name,
           \A i, j \in DOMAIN form : form[i].name = form[j].name => i = j
    PROVE  LET shuffled == [i \in DOMAIN form |-> form[order[i]]]
           IN  /\ Named(shuffled, name) = {} <=> Named(form, name) = {}
               /\ \A i \in Named(form, name) : /\ Latest(form, name) = form[i].text
                                               /\ Latest(shuffled, name) = form[i].text
               /\ (\E i \in Named(shuffled, name) : ~Utf8(shuffled[i].text))
                     <=> \E i \in Named(form, name) : ~Utf8(form[i].text)
<1> DEFINE D == DOMAIN form
           shuffled == [i \in DOMAIN form |-> form[order[i]]]
<1>1. PICK n \in Nat : D = 1 .. n
  BY DEF Forms
<1>2. /\ order \in [D -> D]
      /\ \A i, j \in D : order[i] = order[j] => i = j
      /\ \A i \in D : \E j \in D : order[j] = i
  BY DEF Bijection, Injection, IsInjective, Surjection
<1>3. DOMAIN shuffled = D /\ \A i \in D : shuffled[i] = form[order[i]]
  OBVIOUS
<1> HIDE DEF shuffled
<1>4. /\ \A i \in D : i \in Named(shuffled, name) <=> order[i] \in Named(form, name)
      /\ Named(shuffled, name) \subseteq D /\ Named(form, name) \subseteq D
  BY <1>2, <1>3 DEF Named
<1>5. \A i, j \in Named(form, name) : i = j
  BY DEF Named
<1>6. \A i, j \in Named(shuffled, name) : i = j
  BY <1>2, <1>4, <1>5
<1>7. ASSUME NEW i \in Named(form, name)
      PROVE  Latest(form, name) = form[i].text
  BY <1>1, <1>4, <1>5 DEF Latest
<1>8. ASSUME NEW i \in Named(form, name)
      PROVE  Latest(shuffled, name) = form[i].text
  <2>1. PICK k \in D : order[k] = i /\ k \in Named(shuffled, name)
    BY <1>2, <1>4
  <2>2. Latest(shuffled, name) = shuffled[k].text
    BY <1>1, <1>4, <1>6, <2>1 DEF Latest
  <2> QED
    BY <1>3, <2>1, <2>2
<1>9. Named(shuffled, name) = {} <=> Named(form, name) = {}
  BY <1>2, <1>4
<1>10. (\E i \in Named(shuffled, name) : ~Utf8(shuffled[i].text))
          <=> \E i \in Named(form, name) : ~Utf8(form[i].text)
  BY <1>2, <1>3, <1>4
<1> QED
  BY <1>7, <1>8, <1>9, <1>10 DEF shuffled

\* The handlers of the two kinds of upload read a form whole before they look at its
\* fields: with each field sent once, any order of them gives the same answer (upload,
\* upload_to).
THEOREM FieldsInAnyOrder == Spec => []FieldOrderIsFree
<1>1. ASSUME NEW form \in Forms, NEW order \in Bijection(DOMAIN form, DOMAIN form),
             \A i, j \in DOMAIN form : form[i].name = form[j].name => i = j
      PROVE  LET shuffled == [i \in DOMAIN form |-> form[order[i]]]
             IN  Upload(form) = Upload(shuffled) /\ UploadTo(form) = UploadTo(shuffled)
  <2> DEFINE shuffled == [i \in DOMAIN form |-> form[order[i]]]
  <2>1. ASSUME NEW name
        PROVE  /\ Named(shuffled, name) = {} <=> Named(form, name) = {}
               /\ Named(form, name) # {} => Latest(shuffled, name) = Latest(form, name)
               /\ (\E i \in Named(shuffled, name) : ~Utf8(shuffled[i].text))
                     <=> \E i \in Named(form, name) : ~Utf8(form[i].text)
    <3>1. /\ Named(shuffled, name) = {} <=> Named(form, name) = {}
          /\ \A i \in Named(form, name) : /\ Latest(form, name) = form[i].text
                                          /\ Latest(shuffled, name) = form[i].text
          /\ (\E i \in Named(shuffled, name) : ~Utf8(shuffled[i].text))
                <=> \E i \in Named(form, name) : ~Utf8(form[i].text)
      BY <1>1, ShuffledFields
    <3> HIDE DEF shuffled
    <3> QED
      BY <3>1
  <2> HIDE DEF shuffled
  <2>2. Upload(form) = Upload(shuffled)
    BY <2>1 DEF Upload
  <2>3. UploadTo(form) = UploadTo(shuffled)
    BY <2>1 DEF UploadTo
  <2> QED
    BY <2>2, <2>3 DEF shuffled
<1>2. ASSUME Converted, Done({"upload", "upload_to"}),
             \A i, j \in DOMAIN given.form : given.form[i].name = given.form[j].name => i = j,
             NEW order \in Bijection(DOMAIN given.form, DOMAIN given.form)
      PROVE  LET form == [i \in DOMAIN given.form |-> given.form[order[i]]]
             IN  result = IF given.operation = "upload" THEN Upload(form) ELSE UploadTo(form)
  <2>1. /\ given.form \in Forms /\ given.operation \in {"upload", "upload_to"}
        /\ given.operation = "upload" => result = Upload(given.form)
        /\ given.operation = "upload_to" => result = UploadTo(given.form)
    BY <1>2, InputTypes DEF Converted, Done
  <2> QED
    BY <1>1, <1>2, <2>1
<1>3. Converted => FieldOrderIsFree
  BY <1>2 DEF FieldOrderIsFree
<1> QED
  BY <1>3, ConvertedAlways, PTL

-----------------------------------------------------------------------------
(***************************************************************************)
(* The id of a chat.                                                       *)
(***************************************************************************)

\* The recursive definition of the powers of ten has a solution.
LEMMA Powers ==
    PowerOfTen = [d \in 0 .. IdDigits |-> IF d = 0 THEN 1 ELSE 10 * PowerOfTen[d - 1]]
<1> DEFINE Solves(f, n) == f = [d \in 0 .. n |-> IF d = 0 THEN 1 ELSE 10 * f[d - 1]]
           T == {n \in 0 .. IdDigits : \E f : Solves(f, n)}
<1>1. IdDigits \in Nat
  BY BoundsAssumption
<1>2. 0 \in T
  <2> DEFINE f == [d \in 0 .. 0 |-> 1]
  <2>1. Solves(f, 0)
    OBVIOUS
  <2> HIDE DEF f
  <2> QED
    BY <1>1, <2>1
<1>3. ASSUME NEW n \in 0 .. IdDigits - 1, n \in T
      PROVE  n + 1 \in T
  <2>1. PICK f : Solves(f, n)
    BY <1>3
  <2> DEFINE g == [d \in 0 .. n + 1 |-> IF d = 0 THEN 1 ELSE 10 * f[d - 1]]
  <2>2. \A d \in 0 .. n : g[d] = f[d]
    BY <2>1
  <2>4. \A d \in 0 .. n + 1 : g[d] = IF d = 0 THEN 1 ELSE 10 * g[d - 1]
    <3> TAKE d \in 0 .. n + 1
    <3>1. d # 0 => d - 1 \in 0 .. n
      OBVIOUS
    <3>2. d # 0 => g[d - 1] = f[d - 1]
      BY <2>2, <3>1
    <3> QED
      BY <3>2
  <2>5. g = [d \in 0 .. n + 1 |-> g[d]]
    OBVIOUS
  <2>6. Solves(g, n + 1)
    <3> HIDE DEF g
    <3> QED
      BY <2>4, <2>5
  <2> HIDE DEF g
  <2> QED
    BY <1>1, <2>6
<1>4. \E f : Solves(f, IdDigits)
  <2> HIDE DEF T
  <2>1. 0 .. IdDigits \subseteq T
    BY <1>1, <1>2, <1>3, InductionUpTo
  <2> QED
    BY <1>1, <2>1 DEF T
<1> QED
  BY <1>4 DEF PowerOfTen

LEMMA PowerSteps ==
    /\ PowerOfTen[0] = 1
    /\ \A d \in 1 .. IdDigits : PowerOfTen[d] = 10 * PowerOfTen[d - 1]
<1>1. IdDigits \in Nat
  BY BoundsAssumption
<1> DEFINE P == PowerOfTen
<1>2. P = [d \in 0 .. IdDigits |-> IF d = 0 THEN 1 ELSE 10 * P[d - 1]]
  BY Powers
<1> HIDE DEF P
<1>3. \A d \in 0 .. IdDigits : P[d] = IF d = 0 THEN 1 ELSE 10 * P[d - 1]
  BY <1>2
<1> QED
  BY <1>1, <1>3 DEF P

LEMMA PowerType == \A d \in 0 .. IdDigits : PowerOfTen[d] \in Nat \ {0}
<1> DEFINE T == {d \in 0 .. IdDigits : PowerOfTen[d] \in Nat \ {0}}
<1>1. IdDigits \in Nat
  BY BoundsAssumption
<1>2. 0 \in T
  BY <1>1, PowerSteps
<1>3. ASSUME NEW n \in 0 .. IdDigits - 1, n \in T
      PROVE  n + 1 \in T
  <2>1. n + 1 \in 1 .. IdDigits /\ (n + 1) - 1 = n
    BY <1>1
  <2>2. PowerOfTen[n + 1] = 10 * PowerOfTen[n]
    BY <2>1, PowerSteps
  <2> QED
    BY <1>1, <1>3, <2>1, <2>2
<1> HIDE DEF T
<1>4. 0 .. IdDigits \subseteq T
  BY <1>1, <1>2, <1>3, InductionUpTo
<1> QED
  BY <1>4 DEF T

LEMMA PowersGrow ==
    ASSUME NEW a \in 0 .. IdDigits, NEW b \in a .. IdDigits
    PROVE  PowerOfTen[a] <= PowerOfTen[b]
<1> DEFINE T == {k \in 0 .. IdDigits - a : PowerOfTen[a] <= PowerOfTen[a + k]}
<1>1. IdDigits \in Nat /\ IdDigits - a \in Nat
  BY BoundsAssumption
<1>2. 0 \in T
  BY <1>1, PowerType
<1>3. ASSUME NEW n \in 0 .. (IdDigits - a) - 1, n \in T
      PROVE  n + 1 \in T
  <2>1. a + (n + 1) \in 1 .. IdDigits /\ (a + (n + 1)) - 1 = a + n /\ a + n \in 0 .. IdDigits
    BY <1>1
  <2>2. PowerOfTen[a + (n + 1)] = 10 * PowerOfTen[a + n]
    BY <2>1, PowerSteps
  <2>3. PowerOfTen[a] \in Nat /\ PowerOfTen[a + n] \in Nat
    BY <2>1, PowerType
  <2> QED
    BY <1>1, <1>3, <2>2, <2>3
<1> HIDE DEF T
<1>4. 0 .. IdDigits - a \subseteq T
  BY <1>1, <1>2, <1>3, InductionUpTo
<1>5. b - a \in 0 .. IdDigits - a /\ a + (b - a) = b
  BY <1>1
<1> QED
  BY <1>4, <1>5 DEF T

\* A number lies between two powers for one number of digits.
LEMMA DigitsAre ==
    ASSUME NEW n \in Nat, NEW d \in 1 .. IdDigits, n < PowerOfTen[d], d = 1 \/ PowerOfTen[d - 1] <= n
    PROVE  Digits(n) = d
<1> DEFINE Fits(e) == n < PowerOfTen[e] /\ (e = 1 \/ PowerOfTen[e - 1] <= n)
<1>1. IdDigits \in Nat
  BY BoundsAssumption
<1>2. ASSUME NEW e \in 1 .. IdDigits, NEW f \in 1 .. IdDigits, Fits(e), Fits(f)
      PROVE  ~(e < f)
  <2> SUFFICES ASSUME e < f
               PROVE  FALSE
    OBVIOUS
  <2>1. e \in 0 .. IdDigits /\ f - 1 \in e .. IdDigits /\ f # 1
    BY <1>1
  <2>2. PowerOfTen[e] <= PowerOfTen[f - 1]
    BY <2>1, PowersGrow
  <2>3. PowerOfTen[e] \in Nat /\ PowerOfTen[f - 1] \in Nat
    BY <1>1, <2>1, PowerType
  <2> QED
    BY <1>2, <2>1, <2>2, <2>3
<1>3. \A e \in 1 .. IdDigits : Fits(e) => e = d
  BY <1>1, <1>2
<1>4. Fits(d)
  OBVIOUS
<1>5. Digits(n) = CHOOSE e \in 1 .. IdDigits : Fits(e)
  BY DEF Digits
<1> HIDE DEF Fits
<1> QED
  BY <1>3, <1>4, <1>5

LEMMA DigitsFit ==
    ASSUME NEW n \in 0 .. Ids - 1
    PROVE  /\ Digits(n) \in 1 .. IdDigits
           /\ n < PowerOfTen[Digits(n)]
           /\ Digits(n) = 1 \/ PowerOfTen[Digits(n) - 1] <= n
<1>1. IdDigits \in Nat \ {0} /\ Ids \in Nat /\ Ids <= PowerOfTen[IdDigits]
  BY BoundsAssumption
<1> DEFINE T == {d \in 1 .. IdDigits : n < PowerOfTen[d]}
<1>2. T \in SUBSET Nat /\ IdDigits \in T
  BY <1>1, PowerType
<1>3. PICK d \in T : \A e \in T : d <= e
  <2> HIDE DEF T
  <2> QED
    BY <1>2, LeastNumber
<1>4. d = 1 \/ PowerOfTen[d - 1] <= n
  <2>1. d # 1 => d - 1 \in 1 .. IdDigits /\ d - 1 \notin T
    BY <1>1, <1>3
  <2>2. d # 1 => PowerOfTen[d - 1] \in Nat
    BY <1>1, <2>1, PowerType
  <2> QED
    BY <1>1, <2>1, <2>2
<1> QED
  BY <1>1, <1>3, <1>4, DigitsAre

\* An id that fits its type is not changed by a conversion to that type.
LEMMA WrapFits ==
    ASSUME NEW half \in Nat \ {0}, NEW n \in Int, -half <= n, n < half
    PROVE  Wrap(n, half) = n
<1>1. n >= 0 => n % (2 * half) = n
  OBVIOUS
<1>2. n < 0 => n % (2 * half) = n + 2 * half
  OBVIOUS
<1> QED
  BY <1>1, <1>2 DEF Wrap

\* The id with the prefix has three digits more, and the prefix is its first three.
LEMMA FullIds ==
    ASSUME NEW c \in Channels
    PROVE  /\ c \in 0 .. Ids - 1
           /\ Digits(c) \in 1 .. IdDigits /\ PowerOfTen[Digits(c)] \in Nat \ {0}
           /\ c < PowerOfTen[Digits(c)]
           /\ Full(c) = -(100 * PowerOfTen[Digits(c)] + c)
           /\ Digits(-Full(c)) = Digits(c) + 3
<1> DEFINE d == Digits(c)
           P == PowerOfTen[d]
           x == 100 * P + c
<1>1. c \in 0 .. Ids - 1 /\ -Full(c) < Ids /\ Ids \in Nat /\ IdDigits \in Nat
      /\ Ids <= PowerOfTen[IdDigits] /\ PowerOfTen[IdDigits] \in Nat
  BY ChannelsAssumption, BoundsAssumption, PowerType
<1>2. d \in 1 .. IdDigits /\ c < P /\ P \in Nat \ {0}
  BY <1>1, DigitsFit, PowerType
<1>3. Full(c) = -x /\ x \in Nat /\ x < PowerOfTen[IdDigits]
  BY <1>1, <1>2 DEF Full
<1>4. d + 3 \in 1 .. IdDigits
  <2>1. PowerOfTen[IdDigits] > 100 * P
    BY <1>1, <1>2, <1>3
  <2>2. d + 1 \in 1 .. IdDigits => PowerOfTen[d + 1] = 10 * P
    BY <1>2, PowerSteps
  <2>3. d + 2 \in 1 .. IdDigits => PowerOfTen[d + 2] = 10 * PowerOfTen[d + 1]
    BY <1>2, PowerSteps
  <2> HIDE DEF d, P, x
  <2>4. d # IdDigits
    <3>1. d = IdDigits => PowerOfTen[IdDigits] = P
      BY DEF P
    <3> QED
      BY <1>2, <2>1, <3>1
  <2>5. d + 1 # IdDigits
    BY <1>1, <1>2, <2>1, <2>2
  <2>6. d + 2 # IdDigits
    <3>1. d + 2 = IdDigits => d + 1 \in 1 .. IdDigits /\ d + 2 \in 1 .. IdDigits
      BY <1>1, <1>2
    <3> QED
      BY <1>2, <2>1, <2>2, <2>3, <3>1
  <2> QED
    BY <1>1, <1>2, <2>4, <2>5, <2>6
<1>5. PowerOfTen[d + 1] = 10 * P /\ PowerOfTen[d + 2] = 100 * P /\ PowerOfTen[d + 3] = 1000 * P
  <2>1. d + 1 \in 1 .. IdDigits /\ d + 2 \in 1 .. IdDigits
    BY <1>1, <1>2, <1>4
  <2>2. PowerOfTen[d + 1] = 10 * P
    BY <1>2, <2>1, PowerSteps
  <2>3. PowerOfTen[d + 2] = 10 * PowerOfTen[d + 1]
    BY <1>2, <2>1, PowerSteps
  <2>4. PowerOfTen[d + 3] = 10 * PowerOfTen[d + 2]
    BY <1>2, <1>4, PowerSteps
  <2> QED
    BY <1>2, <2>2, <2>3, <2>4
<1>6. Digits(x) = d + 3
  <2>1. x < PowerOfTen[d + 3] /\ PowerOfTen[(d + 3) - 1] <= x
    BY <1>1, <1>2, <1>5
  <2> QED
    BY <1>3, <1>4, <2>1, DigitsAre
<1> QED
  BY <1>1, <1>2, <1>3, <1>6

\* Both forms of the id of a channel become the form with the prefix.
LEMMA OneChatOf ==
    ASSUME NEW c \in Channels
    PROVE  NormalizeChatId(Short(c)) = Full(c) /\ NormalizeChatId(Full(c)) = Full(c)
<1> DEFINE d == Digits(c)
           P == PowerOfTen[d]
           x == 100 * P + c
<1>1. /\ c \in Nat /\ c < P /\ P \in Nat \ {0} /\ d \in Nat
      /\ Full(c) = -x /\ x \in Nat \ {0} /\ x < Ids /\ Digits(x) = d + 3
      /\ d + 3 >= FullDigits /\ d < FullDigits /\ FullDigits \in Nat /\ Ids \in Nat \ {0}
  BY FullIds, ChannelsAssumption, BoundsAssumption
<1> HIDE DEF d, P
<1>2. Abs(-c) = c /\ Abs(-x) = x
  BY <1>1 DEF Abs
<1>3. NormalizeChatId(Short(c)) = Full(c)
  <2>1. ~AlreadyPrefixed(-c)
    BY <1>1, <1>2 DEF AlreadyPrefixed, d
  <2>2. NormalizeChatId(-c) = Wrap(-c - 100 * P, Ids)
    BY <1>2, <2>1 DEF NormalizeChatId, d, P
  <2>3. Wrap(-x, Ids) = -x
    BY <1>1, WrapFits
  <2>4. -c - 100 * P = -x
    BY <1>1
  <2> QED
    BY <1>1, <2>2, <2>3, <2>4 DEF Short
<1>4. NormalizeChatId(Full(c)) = Full(c)
  <2>1. x \div P = 100
    BY <1>1
  <2>2. PowerOfTen[(d + 3) - 3] = P
    <3>1. (d + 3) - 3 = d
      BY <1>1
    <3> QED
      BY <3>1 DEF P
  <2> HIDE DEF x
  <2>3. -x < 0
    BY <1>1
  <2>4. AlreadyPrefixed(-x)
    BY <1>1, <1>2, <2>1, <2>2, <2>3 DEF AlreadyPrefixed
  <2> QED
    BY <1>1, <2>4 DEF NormalizeChatId
<1> QED
  BY <1>3, <1>4

\* Both forms of the id of a channel become the form with the prefix, which stays as it
\* is, for channels whose ids have fewer digits than an id with the prefix, and no
\* more than three fewer (normalize_chat_id).
THEOREM OneChatForAChannel == Spec => []OneChatPerChannel
<1>1. Converted => OneChatPerChannel
  BY OneChatOf, InputTypes DEF Converted, Done, OneChatPerChannel
<1> QED
  BY <1>1, ConvertedAlways, PTL

\* The chats of two channels are two.
THEOREM ChannelsStayApart ==
    ASSUME NEW b \in Channels, NEW c \in Channels, NormalizeChatId(Short(b)) = NormalizeChatId(Full(c))
    PROVE  b = c
<1>1. Full(b) = Full(c)
  BY OneChatOf
<1>2. Digits(b) \in Int /\ Digits(c) \in Int /\ Digits(b) + 3 = Digits(c) + 3
  BY <1>1, FullIds
<1>3. Digits(b) = Digits(c)
  BY <1>2
<1>4. b \in Int /\ c \in Int /\ PowerOfTen[Digits(c)] \in Int
  BY FullIds
<1>5. -(100 * PowerOfTen[Digits(c)] + b) = -(100 * PowerOfTen[Digits(c)] + c)
  BY <1>1, <1>3, FullIds
<1> QED
  BY <1>4, <1>5

-----------------------------------------------------------------------------
(***************************************************************************)
(* A download joins chunks: FlattenSeq of the community modules.           *)
(***************************************************************************)

\* f[i] is the join of the first i sequences of s, for n sequences over S.
Joins(f, n, s, S) ==
    /\ f \in [1 .. n -> Seq(S)]
    /\ f[1] = s[1]
    /\ \A i \in 2 .. n : f[i] = f[i - 1] \o s[i]

\* The recursive definition of FlattenSeq has a solution, of which it is the last value.
LEMMA Flattened ==
    ASSUME NEW S, NEW n \in Nat \ {0}, NEW s \in [1 .. n -> Seq(S)]
    PROVE  \E f : Joins(f, n, s, S) /\ FlattenSeq(s) = f[n]
<1> DEFINE cat(a, b) == a \o b
           Solves(f, m) == f = [i \in 1 .. m |-> IF i = 1 THEN s[i] ELSE cat(f[i - 1], s[i])]
           T == {m \in 0 .. n : \E f : Solves(f, m)}
<1> HIDE DEF cat
<1>1. 0 \in T
  <2> DEFINE f == [i \in 1 .. 0 |-> s[i]]
  <2>1. Solves(f, 0)
    OBVIOUS
  <2> HIDE DEF f, Solves
  <2> QED
    BY <2>1
<1>2. ASSUME NEW m \in 0 .. n - 1, m \in T
      PROVE  m + 1 \in T
  <2>1. PICK f : Solves(f, m)
    BY <1>2
  <2> DEFINE g == [i \in 1 .. m + 1 |-> IF i = 1 THEN s[i] ELSE cat(f[i - 1], s[i])]
  <2>2. \A i \in 1 .. m : g[i] = f[i]
    BY <2>1
  <2>3. \A i \in 1 .. m + 1 : g[i] = IF i = 1 THEN s[i] ELSE cat(g[i - 1], s[i])
    <3> TAKE i \in 1 .. m + 1
    <3>1. i # 1 => i - 1 \in 1 .. m
      OBVIOUS
    <3>2. i # 1 => g[i - 1] = f[i - 1]
      BY <2>2, <3>1
    <3> QED
      BY <3>2
  <2>4. g = [i \in 1 .. m + 1 |-> g[i]]
    OBVIOUS
  <2>5. Solves(g, m + 1)
    <3> HIDE DEF g
    <3> QED
      BY <2>3, <2>4
  <2> HIDE DEF g, Solves
  <2> QED
    BY <2>5
<1>3. \E f : Solves(f, n)
  <2> HIDE DEF T
  <2>1. 0 .. n \subseteq T
    BY <1>1, <1>2, InductionUpTo
  <2> HIDE DEF Solves
  <2> QED
    BY <2>1 DEF T
<1> DEFINE f == CHOOSE g : Solves(g, n)
<1>4. Solves(f, n)
  BY <1>3
<1>5. Len(s) = n
  OBVIOUS
<1>6. FlattenSeq(s) = f[n]
  BY <1>5 DEF FlattenSeq, cat
<1> HIDE DEF f
<1>7. f[1] = s[1] /\ \A i \in 2 .. n : f[i] = cat(f[i - 1], s[i])
  <2>1. \A i \in 1 .. n : f[i] = IF i = 1 THEN s[i] ELSE cat(f[i - 1], s[i])
    BY <1>4
  <2> QED
    BY <2>1
<1> DEFINE U == {m \in 0 .. n - 1 : f[m + 1] \in Seq(S)}
<1>8. 0 \in U
  BY <1>7
<1>9. ASSUME NEW m \in 0 .. (n - 1) - 1, m \in U
      PROVE  m + 1 \in U
  <2>1. (m + 1) + 1 \in 2 .. n /\ ((m + 1) + 1) - 1 = m + 1 /\ m + 1 \in 0 .. n - 1
    OBVIOUS
  <2>2. f[(m + 1) + 1] = cat(f[m + 1], s[(m + 1) + 1])
    BY <1>7, <2>1
  <2>3. s[(m + 1) + 1] \in Seq(S)
    BY <2>1
  <2>4. cat(f[m + 1], s[(m + 1) + 1]) \in Seq(S)
    BY <1>9, <2>3 DEF cat
  <2> QED
    BY <2>1, <2>2, <2>4
<1>10. 0 .. n - 1 \subseteq U
  <2>1. n - 1 \in Nat
    OBVIOUS
  <2> HIDE DEF U
  <2> QED
    BY <1>8, <1>9, <2>1, InductionUpTo
<1>11. f \in [1 .. n -> Seq(S)]
  <2>1. \A i \in 1 .. n : f[i] \in Seq(S)
    <3> TAKE i \in 1 .. n
    <3>1. i - 1 \in 0 .. n - 1 /\ (i - 1) + 1 = i
      OBVIOUS
    <3> QED
      BY <1>10, <3>1
  <2>2. f = [i \in 1 .. n |-> f[i]]
    BY <1>4
  <2> QED
    BY <2>1, <2>2
<1> QED
  BY <1>6, <1>7, <1>11 DEF cat, Joins

-----------------------------------------------------------------------------
(***************************************************************************)
(* The chunks of a file of b bytes, and how many there are.                *)
(***************************************************************************)
ChunkCount(b) == (b + ChunkSize - 1) \div ChunkSize

\* Every chunk begins in the file, and the last one reaches its end.
LEMMA ChunksCover ==
    ASSUME NEW b \in Nat
    PROVE  /\ ChunkCount(b) \in Nat
           /\ \A k \in 1 .. ChunkCount(b) : (k - 1) * ChunkSize \in Nat /\ (k - 1) * ChunkSize < b
           /\ b <= ChunkCount(b) * ChunkSize
<1> DEFINE C == ChunkSize
           N == ChunkCount(b)
<1>1. C \in Nat /\ C >= 1
  BY BoundsAssumption
<1>2. N \in Nat /\ C * N <= b + C - 1 /\ b + C - 1 < C * N + C
  BY <1>1 DEF ChunkCount
<1> HIDE DEF C, N
<1>3. C * N = N * C /\ N * C \in Nat
  BY <1>1, <1>2
<1>4. ASSUME NEW k \in 1 .. N
      PROVE  (k - 1) * C \in Nat /\ (k - 1) * C < b
  <2>1. (k - 1) * C <= (N - 1) * C
    BY <1>1, <1>2
  <2>2. (N - 1) * C = N * C - C
    BY <1>1, <1>2
  <2>3. k - 1 \in Nat /\ (k - 1) * C \in Nat
    BY <1>1
  <2> QED
    BY <1>1, <1>2, <1>3, <2>1, <2>2, <2>3
<1> QED
  BY <1>1, <1>2, <1>3, <1>4 DEF C, N

\* Where a chunk ends.
UpTo(k, b) == IF k * ChunkSize <= b THEN k * ChunkSize ELSE b

\* A chunk holds the bytes from its place on.
LEMMA ChunkBytes ==
    ASSUME NEW b \in Nat, NEW k \in 1 .. ChunkCount(b)
    PROVE  /\ DOMAIN Chunks(File(b)) = 1 .. ChunkCount(b)
           /\ UpTo(k, b) \in 1 .. b /\ (k - 1) * ChunkSize < UpTo(k, b)
           /\ Chunks(File(b))[k] = SubSeq(File(b), (k - 1) * ChunkSize + 1, UpTo(k, b))
           /\ Chunks(File(b))[k] \in Seq(Nat)
           /\ Len(Chunks(File(b))[k]) = UpTo(k, b) - (k - 1) * ChunkSize
           /\ \A i \in 1 .. UpTo(k, b) - (k - 1) * ChunkSize :
                 Chunks(File(b))[k][i] = (k - 1) * ChunkSize + i
<1> DEFINE lo == (k - 1) * ChunkSize
           hi == UpTo(k, b)
           c == Chunks(File(b))[k]
<1>1. File(b) \in Seq(Nat) /\ Len(File(b)) = b /\ \A i \in 1 .. b : File(b)[i] = i
  BY DEF File
<1>2. Chunks(File(b)) = [j \in 1 .. ChunkCount(b) |->
                           SubSeq(File(b), (j - 1) * ChunkSize + 1, UpTo(j, b))]
  BY <1>1 DEF Chunks, ChunkCount, UpTo
<1>3. c = SubSeq(File(b), lo + 1, hi)
  BY <1>2
<1>4. lo \in Nat /\ lo < b /\ ChunkSize \in Nat /\ ChunkSize >= 1
  BY ChunksCover, BoundsAssumption
<1>5. k * ChunkSize = lo + ChunkSize
  BY <1>4
<1>6. hi \in 1 .. b /\ lo < hi
  BY <1>4, <1>5 DEF UpTo
<1> HIDE DEF lo, hi, c
<1>7. /\ c \in Seq(Nat) /\ Len(c) = hi - lo
      /\ \A i \in 1 .. hi - lo : c[i] = lo + i
  <2> DEFINE file == File(b)
  <2> HIDE DEF file
  <2>1. file \in Seq(Nat) /\ Len(file) = b /\ \A i \in 1 .. b : file[i] = i
    BY <1>1 DEF file
  <2>2. c = SubSeq(file, lo + 1, hi)
    BY <1>3 DEF file
  <2>3. c \in Seq(Nat) /\ Len(c) = hi - lo
    BY <1>4, <1>6, <2>1, <2>2
  <2>4. \A i \in 1 .. hi - lo : c[i] = file[lo + i]
    BY <1>4, <1>6, <2>1, <2>2
  <2>5. \A i \in 1 .. hi - lo : lo + i \in 1 .. b
    BY <1>4, <1>6
  <2> QED
    BY <2>1, <2>3, <2>4, <2>5
<1> QED
  BY <1>2, <1>3, <1>6, <1>7 DEF lo, hi, c

\* The first m bytes of a file.
Starts(q, m) == q \in Seq(Nat) /\ Len(q) = m /\ \A i \in 1 .. m : q[i] = i

LEMMA ConcatLength ==
    ASSUME NEW S, NEW q \in Seq(S), NEW r \in Seq(S)
    PROVE  q \o r \in Seq(S) /\ Len(q \o r) = Len(q) + Len(r)
OBVIOUS

LEMMA ConcatRight ==
    ASSUME NEW S, NEW q \in Seq(S), NEW r \in Seq(S), NEW j \in 1 .. Len(r)
    PROVE  (q \o r)[Len(q) + j] = r[j]
OBVIOUS

LEMMA StartsLonger ==
    ASSUME NEW lo \in Nat, NEW hi \in Nat, lo < hi, NEW q, Starts(q, lo),
           NEW r \in Seq(Nat), Len(r) = hi - lo, \A i \in 1 .. hi - lo : r[i] = lo + i
    PROVE  Starts(q \o r, hi)
<1>1. q \in Seq(Nat) /\ Len(q) = lo /\ \A i \in 1 .. lo : q[i] = i
  BY DEF Starts
<1>2. q \o r \in Seq(Nat) /\ Len(q \o r) = hi
  <2>1. q \o r \in Seq(Nat) /\ Len(q \o r) = Len(q) + Len(r)
    BY <1>1, ConcatLength
  <2>2. lo + (hi - lo) = hi
    OBVIOUS
  <2> QED
    BY <1>1, <2>1, <2>2
<1>3. ASSUME NEW i \in 1 .. hi
      PROVE  (q \o r)[i] = i
  <2>1. CASE i <= lo
    BY <1>1, <2>1
  <2>2. CASE ~(i <= lo)
    <3>1. i - lo \in 1 .. hi - lo /\ lo + (i - lo) = i
      BY <2>2
    <3>2. (q \o r)[lo + (i - lo)] = r[i - lo]
      BY <1>1, <3>1, ConcatRight
    <3> QED
      BY <3>1, <3>2
  <2> QED
    BY <2>1, <2>2
<1> QED
  BY <1>2, <1>3 DEF Starts

LEMMA StartsWhole ==
    ASSUME NEW b \in Nat, NEW q, Starts(q, b)
    PROVE  q = File(b)
<1>1. q \in [1 .. b -> Nat] /\ \A i \in 1 .. b : q[i] = i
  BY DEF Starts
<1> QED
  BY <1>1 DEF File

\* The chunks in the order of their places, joined, are the file.
LEMMA ChunksInOrderJoin ==
    ASSUME NEW b \in Nat, NEW s, DOMAIN s = 1 .. ChunkCount(b), s = [k \in DOMAIN s |-> s[k]],
           \A k \in 1 .. ChunkCount(b) : s[k] = Chunks(File(b))[k]
    PROVE  FlattenSeq(s) = File(b)
<1> DEFINE N == ChunkCount(b)
           file == File(b)
           Lo(k) == (k - 1) * ChunkSize
           Hi(k) == UpTo(k, b)
<1>1. N \in Nat /\ b <= N * ChunkSize /\ ChunkSize \in Nat /\ ChunkSize >= 1
  BY ChunksCover, BoundsAssumption
<1>2. file \in Seq(Nat) /\ Len(file) = b /\ \A i \in 1 .. b : file[i] = i
  BY DEF File
<1>3. CASE N = 0
  <2>1. b = 0
    BY <1>1, <1>3
  <2>2. Len(s) = 0 /\ s = <<>>
    BY <1>3
  <2>3. file = <<>>
    BY <1>2, <2>1
  <2> QED
    BY <2>2, <2>3 DEF FlattenSeq
<1>4. CASE N # 0
  <2>1. N \in Nat \ {0}
    BY <1>1, <1>4
  <2>2. /\ \A k \in 1 .. N : /\ Hi(k) \in 1 .. b /\ Lo(k) < Hi(k) /\ Lo(k) \in Nat
                              /\ s[k] \in Seq(Nat) /\ Len(s[k]) = Hi(k) - Lo(k)
                              /\ \A i \in 1 .. Hi(k) - Lo(k) : s[k][i] = Lo(k) + i
    BY ChunkBytes, ChunksCover
  <2>3. \A k \in 2 .. N : Lo(k) = Hi(k - 1) /\ k - 1 \in 1 .. N
    <3> TAKE k \in 2 .. N
    <3>1. k \in 1 .. N /\ k - 1 \in 1 .. N
      BY <2>1
    <3>2. Lo(k) \in Nat /\ Lo(k) < b
      BY <3>1, ChunksCover
    <3> QED
      BY <3>1, <3>2 DEF UpTo
  <2>4. Lo(1) = 0 /\ Hi(N) = b
    <3>1. (1 - 1) * ChunkSize = 0
      BY <1>1
    <3>2. N * ChunkSize <= b => N * ChunkSize = b
      BY <1>1
    <3> QED
      BY <3>1, <3>2 DEF UpTo
  <2> HIDE DEF N, file, Lo, Hi
  <2>5. s \in [1 .. N -> Seq(Nat)]
    BY <2>2 DEF N
  <2>6. PICK f : Joins(f, N, s, Nat) /\ FlattenSeq(s) = f[N]
    BY <2>1, <2>5, Flattened
  <2> DEFINE T == {m \in 0 .. N - 1 : Starts(f[m + 1], Hi(m + 1))}
  <2>7. 0 \in T
    <3>1. 1 \in 1 .. N
      BY <2>1
    <3>2. Starts(s[1], Hi(1))
      BY <2>2, <2>4, <3>1 DEF Starts
    <3> QED
      BY <2>1, <2>6, <3>2 DEF Joins
  <2>8. ASSUME NEW m \in 0 .. (N - 1) - 1, m \in T
        PROVE  m + 1 \in T
    <3>1. (m + 1) + 1 \in 2 .. N /\ ((m + 1) + 1) - 1 = m + 1 /\ m + 1 \in 1 .. N
          /\ (m + 1) + 1 \in 1 .. N /\ m + 1 \in 0 .. N - 1
      BY <2>1
    <3> DEFINE k == (m + 1) + 1
               q == f[m + 1]
               r == s[k]
    <3>2. f[k] = q \o r
      BY <2>6, <3>1 DEF Joins
    <3>3. /\ Hi(k) \in Nat /\ Lo(k) < Hi(k) /\ Lo(k) \in Nat /\ Lo(k) = Hi(m + 1)
          /\ r \in Seq(Nat) /\ Len(r) = Hi(k) - Lo(k)
          /\ \A i \in 1 .. Hi(k) - Lo(k) : r[i] = Lo(k) + i
      BY <2>2, <2>3, <3>1
    <3>4. Starts(q, Lo(k))
      BY <2>8, <3>3
    <3> HIDE DEF k, q, r
    <3>5. Starts(q \o r, Hi(k))
      BY <3>3, <3>4, StartsLonger
    <3> QED
      BY <3>1, <3>2, <3>5 DEF k
  <2>9. 0 .. N - 1 \subseteq T
    <3>1. N - 1 \in Nat
      BY <2>1
    <3> HIDE DEF T
    <3> QED
      BY <2>7, <2>8, <3>1, InductionUpTo
  <2>10. Starts(f[N], b)
    <3>1. N - 1 \in 0 .. N - 1 /\ (N - 1) + 1 = N
      BY <2>1
    <3> QED
      BY <2>4, <2>9, <3>1
  <2>11. f[N] = file
    BY <2>10, StartsWhole DEF file
  <2> QED
    BY <2>6, <2>11 DEF file
<1> QED
  BY <1>3, <1>4

-----------------------------------------------------------------------------
(***************************************************************************)
(* The limit of one INSERT, and what is stored within it.                  *)
(***************************************************************************)

\* The chunks of a file fit into one INSERT if and only if its bytes fit into as many
\* chunks as one INSERT takes.
LEMMA ChunksFit ==
    ASSUME NEW b \in Nat
    PROVE  /\ CreatesChunks(ChunkCount(b)) <=> b \in 1 .. ChunkSize * (MaxBinds \div BindsPerChunk)
           /\ CreatesChunks(ChunkCount(b)) => ChunkCount(b) <= Positions
<1> DEFINE C == ChunkSize
           N == ChunkCount(b)
           M == MaxBinds \div BindsPerChunk
<1>1. C \in Nat /\ C >= 1
  BY BoundsAssumption
<1>2. N \in Nat /\ C * N <= b + C - 1 /\ b + C - 1 < C * N + C /\ b <= N * C
  BY <1>1, ChunksCover DEF ChunkCount
<1>3. /\ M \in Nat /\ 5 * M <= MaxBinds /\ MaxBinds < 5 * M + 5 /\ M <= Positions
      /\ MaxBinds \in Nat /\ Positions \in Nat
  BY BoundsAssumption DEF BindsPerChunk
<1>4. CreatesChunks(N) <=> N > 0 /\ 5 * N <= MaxBinds
  BY DEF CreatesChunks, BindsPerChunk
<1> HIDE DEF C, N, M
<1>5. CreatesChunks(N) <=> N > 0 /\ N <= M
  BY <1>2, <1>3, <1>4
<1>6. N > 0 <=> b > 0
  <2>1. ASSUME N > 0
        PROVE  b > 0
    <3>1. C * N >= C
      BY <1>1, <1>2, <2>1
    <3> QED
      BY <1>1, <1>2, <3>1
  <2>2. ASSUME N = 0
        PROVE  b = 0
    <3>1. C * N = 0
      BY <1>1, <2>2
    <3> QED
      BY <1>1, <1>2, <3>1
  <2> QED
    BY <1>2, <2>1, <2>2
<1>7. N <= M <=> b <= C * M
  <2>1. C * M \in Nat /\ C * N \in Nat /\ C * N = N * C
    BY <1>1, <1>2, <1>3
  <2>2. ASSUME N <= M
        PROVE  b <= C * M
    <3>1. C * N <= C * M
      BY <1>1, <1>2, <1>3, <2>2
    <3> QED
      BY <1>2, <2>1, <3>1
  <2>3. ASSUME N >= M + 1
        PROVE  b > C * M
    <3>1. C * N >= C * (M + 1)
      BY <1>1, <1>2, <1>3, <2>3
    <3>2. C * (M + 1) = C * M + C
      BY <1>1, <1>3
    <3> QED
      BY <1>1, <1>2, <2>1, <3>1, <3>2
  <2>4. N <= M \/ N >= M + 1
    BY <1>2, <1>3
  <2> QED
    BY <2>1, <2>2, <2>3, <2>4, <1>2, <1>3
<1>8. CreatesChunks(N) => N <= Positions
  BY <1>2, <1>3, <1>5
<1>9. C * M \in Nat
  BY <1>1, <1>3
<1> QED
  BY <1>5, <1>6, <1>7, <1>8, <1>9 DEF C, N, M

\* A file of any size comes back byte for byte, in whatever order the database lists its
\* rows, or is refused for its size: the type of the positions is wide enough for every
\* number of chunks that one INSERT takes (upload, create_chunks_batch, download).
THEOREM DownloadsAreTheFile == Spec => []DownloadIsTheFile
<1>1. ASSUME NEW b \in Nat, NEW order \in Orders(ChunkCount(b)), ChunkCount(b) <= Positions
      PROVE  Join(File(b), order) = File(b)
  <2> DEFINE n == ChunkCount(b)
             sorted == SortByPosition(order)
             s == [k \in DOMAIN sorted |-> Chunks(File(b))[sorted[k] + 1]]
  <2>1. n \in Nat
    BY ChunksCover
  <2>2. Join(File(b), order) = FlattenSeq(s)
    BY DEF Join
  <2>3. sorted = [k \in 1 .. n |-> k - 1]
    BY <1>1, <2>1, ChunksComeInOrder
  <2>4. DOMAIN s = 1 .. n /\ \A k \in 1 .. n : s[k] = Chunks(File(b))[k]
    <3>1. \A k \in 1 .. n : sorted[k] + 1 = k
      BY <2>3
    <3> QED
      BY <2>3, <3>1
  <2>5. s = [k \in DOMAIN s |-> s[k]]
    OBVIOUS
  <2> HIDE DEF s
  <2>6. FlattenSeq(s) = File(b)
    BY <2>4, <2>5, ChunksInOrderJoin
  <2> QED
    BY <2>2, <2>6
<1>2. ASSUME NEW b \in Nat
      PROVE  Len(Chunks(File(b))) = ChunkCount(b)
  <2>1. Len(File(b)) = b
    BY DEF File
  <2>2. DOMAIN Chunks(File(b)) = 1 .. ChunkCount(b)
    BY <2>1 DEF Chunks, ChunkCount
  <2>3. ChunkCount(b) \in Nat
    BY ChunksCover
  <2> QED
    BY <2>2, <2>3
<1>3. Converted => DownloadIsTheFile
  <2> SUFFICES ASSUME Converted, Done({"transfer"})
               PROVE  result = IF given.bytes \in 1 .. ChunkSize * (MaxBinds \div BindsPerChunk)
                               THEN Stored(File(given.bytes))
                               ELSE Refused
    BY DEF DownloadIsTheFile
  <2>1. given.operation = "transfer" /\ given \in Inputs /\ done
    BY DEF Done, Converted
  <2>2. /\ given.bytes \in Nat /\ given.order \in Orders(ChunkCount(given.bytes))
        /\ result = Transfer(File(given.bytes), given.order)
    BY <2>1, InputTypes DEF Converted, ChunkCount
  <2> QED
    BY <1>1, <1>2, <2>2, ChunksFit DEF Transfer
<1> QED
  BY <1>3, ConvertedAlways, PTL
=============================================================================
