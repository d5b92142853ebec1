\* Crews of two or three of these threads, with an I/O error.
CONSTANTS
    w1 = w1
    w2 = w2
    f1 = f1
    c1 = c1
    c2 = c2
    Writers = {w1, w2}
    Flushers = {f1}
    Compactors = {c1, c2}
    Passes = 1
    MaxErrors = 1
    BufferSize = 1
    CompactionTrigger = 1
    SlowdownTrigger = 1
    StopTrigger = 2
    NoThread = NoThread
    MaxItems = 3
SPECIFICATION CrewSpec
INVARIANTS
    WritesLogged
    BackgroundConsistent
    MemTableCompacted
PROPERTIES
    CallsReturn
    ItemsRun
