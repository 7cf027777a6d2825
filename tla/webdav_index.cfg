SPECIFICATION HSpec
CONSTANTS
    r1 = r1
    r2 = r2
    root = root
    d = d
    a = a
    b = b
    Requests <- TwoClients
    Root = root
    Folders <- OneFolder
    Names <- TwoFiles
    MaxRecords = 2
    Environments <- Sharing
SYMMETRY Symmetric
INVARIANTS TypeOK ListedIsResolvable ServedWasNamed NamesAgree LockIsBrief
PROPERTY ChangedWasNamed
CHECK_DEADLOCK FALSE
