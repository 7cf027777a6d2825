SPECIFICATION FairSpec
CONSTANTS
    NumChunks = 4
    Workers = 2
    Retries = 2
INVARIANTS TypeOK BoundedWorkers CallbackExclusive ErrorHasCause NeverStuck
PROPERTIES QuietAfterReturn AlwaysNearer Transfers Terminates
CHECK_DEADLOCK FALSE
