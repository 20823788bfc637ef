SPECIFICATION Spec
CONSTANTS
    a = a
    upload_to = upload_to
    Empty = Empty
    Words <- TwoWords
    PostOnly <- OneRoute
    MaxWords = 3
    MaxFields = 3
    ChunkSize = 2
    MaxBytes = 11
    MaxBinds = 22
    Positions = 4
    Ids = 8388608
    IdDigits = 7
    FullDigits = 5
    Channels <- TwoToFourDigits
INVARIANTS
    StoredIsReachable
    FieldOrderIsFree
    DownloadIsTheFile
    OneChatPerChannel
