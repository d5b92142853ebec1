\* Three writes, each filling a memtable; the process and the machine die once.
CONSTANTS
    FsyncForcesNames = TRUE
    WriteBufferSize = 1
    SyncOptions = {TRUE, FALSE}
    MaxWrites = 3
    MaxKills = 1
    MaxPowerFailures = 1
    MaxErrors = 0
SPECIFICATION Spec
PROPERTIES
    ImplementsDurableStore
\* The writes are used up.
CHECK_DEADLOCK FALSE
