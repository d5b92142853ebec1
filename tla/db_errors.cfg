\* Four writes, so that a flush interrupts a compaction, or three and what comes
\* after a death; an I/O error, a death of the process and one of the machine.
CONSTANTS
    FsyncForcesNames = TRUE
    WriteBufferSize = 1
    SyncOptions = {TRUE, FALSE}
    MaxWrites = 4
    MaxKills = 1
    MaxPowerFailures = 1
    MaxErrors = 1
SPECIFICATION Spec
ACTION_CONSTRAINT ErrorsBound
INVARIANTS
    NoWriteLost
    FilesConsistent
    Reopens
\* The writes are used up.
CHECK_DEADLOCK FALSE
