SPECIFICATION FairSpec
CONSTANTS
    p1 = p1
    p2 = p2
    a = a
    b = b
    Kernel = {p1, p2}
    Names = {a, b}
    NumChunks = 2
    MaxUploads = 2
    MaxContents = 2
    MaxNodes = 2
    Environments <- Worlds
    Nil = Nil
INVARIANTS TypeOK RecordsReadBack ReadsAreOwn NothingForeign UnsavedIsReachable
PROPERTIES ActsAsArchive DirectoryAnswers
