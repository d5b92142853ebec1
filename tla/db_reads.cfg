\* Levels: three updates of three keys, or four of two keys of which one is split
\* over files.  An iterator over three entries and one that is added.  One search
\* of a skip list of three keys.
CONSTANTS
    MaxKey = 3
    NumLevels = 4
    MaxMemCompactLevel = 2
    MaxWrites = 4
    MaxSnapshots = 1
    SplitKeys = {3}
    MaxUserKey = 2
    Snapshot = 3
    MaxInserts = 1
    Tables = 1
    ListKeys = {1, 2, 3}
    MaxHeight = 2
    Readers = {r1}
    MaxSearches = 1
SPECIFICATION ReadsSpec
INVARIANTS
    LevelsOrdered
    ReadsSeeUpdates
    ListConsistent
    IterConsistent
PROPERTIES
    ImplementsCursor
\* The skip list is full and the searches are used up.
CHECK_DEADLOCK FALSE
