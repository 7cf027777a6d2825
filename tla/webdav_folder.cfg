SPECIFICATION HSpec
CONSTANTS
    r1 = r1
    r2 = r2
    root = root
    d = d
    a = a
    b = b
    Requests <- OneClient
    Root = root
    Folders <- OneFolder
    Names <- OneFile
    MaxRecords = 1
    Environments <- InFolder
INVARIANTS PutLandsInItsFolder
