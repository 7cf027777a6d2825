SPECIFICATION HFairSpec
CONSTANTS
    r1 = r1
    r2 = r2
    root = root
    d = d
    a = a
    b = b
    Requests <- TwoClients
    Root = root
    Folders <- NoFolder
    Names <- OneFile
    MaxRecords = 2
    Environments <- Timely
PROPERTIES OnlyWritersUpload AnswersComeNearer HungTransferBlocksNobody
