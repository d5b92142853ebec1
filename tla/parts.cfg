\* Three readers of four tables; two processes and three callers; four files
\* where one may be mapped and one may stay open; two records in blocks of five
\* bytes; tables of three entries; varints of ten bytes; messages of five fields.
CONSTANTS
    Threads = {t1, t2, t3}
    TableFiles = {1, 2, 3, 4}
    Capacity = 1
    MaxOpens = 6
    p1 = p1
    p2 = p2
    c1 = c1
    c2 = c2
    c3 = c3
    NoProcess = NoProcess
    Processes <- MCProcesses
    Callers <- MCCallers
    ProcessOf <- MCProcessOf
    MaxNodes = 2
    Slots = {1, 2, 3, 4}
    MaxMmaps = 1
    MaxOpenFiles = 1
    BlockSize = 5
    HeaderSize = 2
    Lengths = {0, 2, 3, 7}
    MaxRecords = 2
    MaxFailures = 1
    MaxReuses = 1
    MaxOffset = 12
    TableUsers <- MCTableUsers
    SoughtUsers <- MCSoughtUsers
    TableSequences = {1, 2}
    LastSequenceNumber = 3
    LastByte = 3
    RestartInterval = 2
    FilterBase = 2
    BlockSizes = {1, 5}
    MaxEntries = 3
    Values <- MCValues
    Payloads <- MCPayloads
    MaxBytes = 10
    Base = 3
    Numbers = {1, 4}
    MaxArray = 2
    MaxData = 1
    Buffers = {3, 6, 9, 12, 20}
    Objects = {1, 2, 3, 4, 5, 6}
    MaxCount = 2
    MaxFields = 5
SPECIFICATION PartsSpec
SYMMETRY Symmetric
INVARIANTS
    CacheConsistent
    LocksConsistent
    LimitsKept
    ReadsWhatSurvives
    ReadsWereWritten
    TableFaithful
    VarintsFaithful
    StreamsFaithful
    MemoryOwned
\* A log that was read, a full table, a varint and a message are at their end.
CHECK_DEADLOCK FALSE
