---------------------------- MODULE SortedTable ----------------------------
(***************************************************************************)
(* A table file of leveldb (table/): TableBuilder writes sorted entries    *)
(* into blocks with shared key prefixes and restart points, an index of    *)
(* shortened keys and filters; Table finds an entry again, and an iterator *)
(* of two levels walks over them in both directions.                       *)
(*                                                                         *)
(* A key is a sequence of bytes with its sequence number as the last one,  *)
(* for the eight bytes of the tag.  Offsets in a block count entries.      *)
(* Values have any size, so that a block may end after any entry and take  *)
(* any space in the file.  A block that cannot be read gives an error.     *)
(***************************************************************************)
EXTENDS Naturals, Sequences, FiniteSets, SequencesExt, FiniteSetsExt

CONSTANTS
    TableUsers,         \* user keys that are added, sequences of bytes
    SoughtUsers,        \* user keys that are looked for
    TableSequences,     \* sequence numbers that are added
    LastSequenceNumber, \* kMaxSequenceNumber
    LastByte,           \* 0xff
    RestartInterval,    \* block_restart_interval
    FilterBase,         \* kFilterBase
    BlockSizes,         \* space that a block may take in the file
    MaxEntries          \* bound: entries of a table

VARIABLES
    building,       \* TableBuilder::Rep, then the file that it has written
    unreadable,     \* the blocks whose read fails
    tableIter,      \* TwoLevelIterator, none before the table is opened
    asked           \* history: what the last move would show if all could be read

sortedVars == <<building, unreadable, tableIter, asked>>

-----------------------------------------------------------------------------
(* Keys: BytewiseComparator and InternalKeyComparator.                     *)

\* The length of the common prefix.
Common(a, b) ==
    LET min == Min({Len(a), Len(b)})
    IN  CHOOSE n \in 0 .. min :
           /\ SubSeq(a, 1, n) = SubSeq(b, 1, n)
           /\ n = min \/ a[n + 1] # b[n + 1]

UserLess(a, b) ==
    LET n == Common(a, b)
    IN  n < Len(b) /\ (n < Len(a) => a[n + 1] < b[n + 1])

\* By user key, newer entries first.
KeyLess(k, l) ==
    UserLess(Front(k), Front(l)) \/ (Front(k) = Front(l) /\ Last(k) > Last(l))

UserSeparator(start, limit) ==
    LET n == Common(start, limit)
    IN  IF n < Min({Len(start), Len(limit)}) /\ start[n + 1] < LastByte
           /\ start[n + 1] + 1 < limit[n + 1]
        THEN Append(SubSeq(start, 1, n), start[n + 1] + 1)
        ELSE start

UserSuccessor(key) ==
    LET low == {i \in DOMAIN key : key[i] # LastByte}
    IN  IF low = {} THEN key
        ELSE Append(SubSeq(key, 1, Min(low) - 1), key[Min(low)] + 1)

\* What both functions of InternalKeyComparator make of a shortened user key:
\* "Tack on the earliest possible number".
Shortened(key, user) ==
    IF Len(user) < Len(Front(key)) /\ UserLess(Front(key), user)
    THEN Append(user, LastSequenceNumber) ELSE key

FindShortestSeparator(start, limit) == Shortened(start, UserSeparator(Front(start), Front(limit)))
FindShortSuccessor(key) == Shortened(key, UserSuccessor(Front(key)))

-----------------------------------------------------------------------------
(* BlockBuilder.                                                           *)

EmptyBlock == [entries |-> <<>>, restarts |-> <<1>>, counter |-> 0, last |-> <<>>]

BlockAdd(block, interval, key, value) ==
    LET restart == block.counter >= interval
        shared == IF restart THEN 0 ELSE Common(block.last, key)
    IN  [entries  |-> Append(block.entries, [shared |-> shared, value |-> value,
                                             rest |-> SubSeq(key, shared + 1, Len(key))]),
         restarts |-> IF restart THEN Append(block.restarts, Len(block.entries) + 1)
                      ELSE block.restarts,
         counter  |-> IF restart THEN 1 ELSE block.counter + 1,
         last     |-> key]

-----------------------------------------------------------------------------
(* Block::Iter: cur is current_, past the entries if it is not valid; nxt  *)
(* is where value_ ends; at is restart_index_.                             *)

BlockIter(block) ==
    [cur |-> Len(block.entries) + 1, nxt |-> 1, at |-> Len(block.restarts) + 1,
     key |-> <<>>, ok |-> TRUE]

BlockValid(block, it) == it.cur <= Len(block.entries)

NoEntries(block, it) ==
    [it EXCEPT !.cur = Len(block.entries) + 1, !.at = Len(block.restarts) + 1]

CorruptionError(block, it) == [NoEntries(block, it) EXCEPT !.ok = FALSE, !.key = <<>>]

SeekToRestartPoint(block, it, i) ==
    [it EXCEPT !.key = <<>>, !.at = i, !.nxt = block.restarts[i]]

ParseNextKey(block, it) ==
    IF it.nxt > Len(block.entries) THEN NoEntries(block, it)
    ELSE LET entry == block.entries[it.nxt]
         IN  IF Len(it.key) < entry.shared THEN CorruptionError(block, it)
             ELSE [it EXCEPT !.cur = it.nxt, !.nxt = it.nxt + 1,
                             !.key = SubSeq(it.key, 1, entry.shared) \o entry.rest,
                             !.at = Max({it.at} \cup {i \in DOMAIN block.restarts :
                                        i > it.at /\ block.restarts[i] < it.nxt})]

\* ParseNextKey again and again, until it fails or has come far enough.
ParseUntil(block, it, Stop(_)) ==
    FoldLeft(LAMBDA i, entry : IF ~BlockValid(block, i) \/ Stop(i) THEN i
                               ELSE ParseNextKey(block, i),
             ParseNextKey(block, it), block.entries)

\* The binary search for the last restart point with a smaller key.
RestartBefore(block, target) ==
    LET halve(range, i) ==
          LET mid == (range.left + range.right + 1) \div 2
          IN  IF range.left >= range.right THEN range
              ELSE IF KeyLess(block.entries[block.restarts[mid]].rest, target)
                   THEN [range EXCEPT !.left = mid]
                   ELSE [range EXCEPT !.right = mid - 1]
    IN  FoldLeft(halve, [left |-> 1, right |-> Len(block.restarts)], block.restarts).left

BlockSeek(block, it, target) ==
    ParseUntil(block, SeekToRestartPoint(block, it, RestartBefore(block, target)),
               LAMBDA i : ~KeyLess(i.key, target))

BlockSeekToFirst(block, it) == ParseNextKey(block, SeekToRestartPoint(block, it, 1))

BlockSeekToLast(block, it) ==
    ParseUntil(block, SeekToRestartPoint(block, it, Len(block.restarts)),
               LAMBDA i : i.nxt > Len(block.entries))

\* Back to the last restart point before the entry, then forward to it.
BlockPrev(block, it) ==
    LET before == {i \in 1 .. it.at : block.restarts[i] < it.cur}
    IN  IF before = {} THEN NoEntries(block, it)
        ELSE ParseUntil(block, SeekToRestartPoint(block, it, Max(before)),
                        LAMBDA i : i.nxt >= it.cur)

-----------------------------------------------------------------------------
(* FilterBlockBuilder and FilterBlockReader; a filter is the set of the    *)
(* user keys that were added, the most that a policy can tell apart.       *)

\* StartBlock: one filter for every FilterBase bytes up to the next block.
StartBlock(b) ==
    LET wanted == b.offset \div FilterBase
        missing == IF wanted > Len(b.filters) THEN wanted - Len(b.filters) ELSE 0
    IN  [b EXCEPT !.filters = @ \o [i \in 1 .. missing |-> IF i = 1 THEN b.start ELSE {}],
                  !.start = IF missing > 0 THEN {} ELSE @]

FilterFinish(b) ==
    IF b.start = {} THEN b ELSE [b EXCEPT !.filters = Append(@, b.start), !.start = {}]

KeyMayMatch(offset, user) ==
    LET index == offset \div FilterBase
    IN  index < Len(building.filters) => user \in building.filters[index + 1]

-----------------------------------------------------------------------------
(* TableBuilder.                                                           *)

NewBuilder ==
    [keys |-> <<>>, block |-> EmptyBlock, blocks |-> <<>>, index |-> EmptyBlock,
     pending |-> FALSE, offset |-> 0, offsets |-> <<>>, start |-> {}, filters |-> <<>>,
     closed |-> FALSE]

SortedInit ==
    building = NewBuilder /\ unreadable = {} /\ tableIter = {} /\ asked = {}

\* The index entry of the block before, with any key that separates the two.
IndexAdd(b, key) ==
    IF b.pending
    THEN [b EXCEPT !.index = BlockAdd(@, 1, key, Len(b.blocks)), !.pending = FALSE]
    ELSE b

\* Flush, with WriteBlock.
FlushBlock(b, size) ==
    IF b.block.entries = <<>> THEN b
    ELSE StartBlock([b EXCEPT !.blocks = Append(@, b.block), !.block = EmptyBlock,
                              !.offsets = Append(@, b.offset), !.offset = @ + size,
                              !.pending = TRUE])

AddEntry(key, full, size) ==
    /\ ~building.closed /\ Len(building.keys) < MaxEntries
    /\ building.keys # <<>> => KeyLess(Last(building.keys), key)
    /\ LET b == IF building.keys = <<>> THEN building
                ELSE IndexAdd(building, FindShortestSeparator(Last(building.keys), key))
           added == [b EXCEPT !.keys = Append(@, key), !.start = @ \cup {Front(key)},
                              !.block = BlockAdd(@, RestartInterval, key, 0)]
       IN  building' = IF full THEN FlushBlock(added, size) ELSE added
    /\ UNCHANGED <<unreadable, tableIter, asked>>

FinishTable(size) ==
    /\ ~building.closed /\ building.keys # <<>>
    /\ LET b == FilterFinish(FlushBlock(building, size))
       IN  building' = [IndexAdd(b, FindShortSuccessor(Last(b.keys))) EXCEPT !.closed = TRUE]
    /\ UNCHANGED <<unreadable, tableIter, asked>>

-----------------------------------------------------------------------------
(* Table and TwoLevelIterator.  data is empty while data_iter_ is null; of *)
(* a block that cannot be read there is an iterator with an error, which   *)
(* no call moves.                                                          *)

DataBlock(t) == building.blocks[t.handle]
IndexValid(t) == BlockValid(building.index, t.index)
DataValid(t) == \E it \in t.data : it.ok /\ BlockValid(DataBlock(t), it)

BlockReader(handle) ==
    [BlockIter(building.blocks[handle]) EXCEPT !.ok = handle \notin unreadable]

\* Mutant: the error of an iterator that is given up is forgotten.
SetDataIteratorOnly(t, data) == [t EXCEPT !.data = data]

SetDataIterator(t, data) ==
    [t EXCEPT !.data = data, !.failed = @ \/ \E it \in t.data : ~it.ok]

InitDataBlock(t) ==
    LET handle == building.index.entries[t.index.cur].value
    IN  IF ~IndexValid(t) THEN SetDataIterator(t, {})
        ELSE IF t.data # {} /\ handle = t.handle THEN t
        ELSE [SetDataIterator(t, {BlockReader(handle)}) EXCEPT !.handle = handle]

\* data_iter_ is moved, if there is one.
MoveData(t, Move(_, _)) ==
    [t EXCEPT !.data = {IF t.handle \in unreadable THEN it ELSE Move(DataBlock(t), it) : it \in @}]

\* SkipEmptyDataBlocksForward and Backward.
SkipEmpty(t, MoveIndex(_, _), MoveInto(_, _)) ==
    LET skip(s, i) ==
          IF DataValid(s) THEN s
          ELSE IF ~IndexValid(s) THEN SetDataIterator(s, {})
          ELSE MoveData(InitDataBlock([s EXCEPT !.index = MoveIndex(building.index, @)]), MoveInto)
    IN  FoldLeft(skip, t, Append(building.blocks, EmptyBlock))

SkipForward(t) == SkipEmpty(t, ParseNextKey, BlockSeekToFirst)
SkipBackward(t) == SkipEmpty(t, BlockPrev, BlockSeekToLast)

Shown(t) == {it.key : it \in {i \in t.data : i.ok /\ BlockValid(DataBlock(t), i)}}
StatusOk(t) == t.index.ok /\ ~t.failed /\ \A it \in t.data : it.ok

\* What a move would show, of the keys that satisfy a condition.
FirstKey(Condition(_)) ==
    LET found == {i \in DOMAIN building.keys : Condition(building.keys[i])}
    IN  IF found = {} THEN {} ELSE {building.keys[Min(found)]}
LastKey(Condition(_)) ==
    LET found == {i \in DOMAIN building.keys : Condition(building.keys[i])}
    IN  IF found = {} THEN {} ELSE {building.keys[Max(found)]}

OpenTable(bad) ==
    /\ building.closed /\ tableIter = {}
    /\ unreadable' = bad
    /\ tableIter' = {[index |-> BlockIter(building.index), data |-> {}, handle |-> 0,
                      failed |-> FALSE]}
    /\ UNCHANGED <<building, asked>>

Moved(t, answer) ==
    tableIter' = {t} /\ asked' = answer /\ UNCHANGED <<building, unreadable>>

SeekTable(target) ==
    \E t \in tableIter :
        LET found == [t EXCEPT !.index = BlockSeek(building.index, @, target)]
        IN  Moved(SkipForward(MoveData(InitDataBlock(found),
                                       LAMBDA block, it : BlockSeek(block, it, target))),
                  FirstKey(LAMBDA k : ~KeyLess(k, target)))

SeekTableToFirst ==
    \E t \in tableIter :
        LET first == [t EXCEPT !.index = BlockSeekToFirst(building.index, @)]
        IN  Moved(SkipForward(MoveData(InitDataBlock(first), BlockSeekToFirst)),
                  FirstKey(LAMBDA k : TRUE))

SeekTableToLast ==
    \E t \in tableIter :
        LET last == [t EXCEPT !.index = BlockSeekToLast(building.index, @)]
        IN  Moved(SkipBackward(MoveData(InitDataBlock(last), BlockSeekToLast)),
                  LastKey(LAMBDA k : TRUE))

NextInTable ==
    \E t \in tableIter : \E key \in Shown(t) :
        Moved(SkipForward(MoveData(t, ParseNextKey)), FirstKey(LAMBDA k : KeyLess(key, k)))

PrevInTable ==
    \E t \in tableIter : \E key \in Shown(t) :
        Moved(SkipBackward(MoveData(t, BlockPrev)), LastKey(LAMBDA k : KeyLess(k, key)))

\* InternalGet: what is handed to handle_result, and the status.
InternalGet(key) ==
    LET at == BlockSeek(building.index, BlockIter(building.index), key)
        handle == building.index.entries[at.cur].value
        block == building.blocks[handle]
        it == BlockSeek(block, BlockReader(handle), key)
    IN  IF ~BlockValid(building.index, at) \/ ~KeyMayMatch(building.offsets[handle], Front(key))
        THEN [found |-> {}, ok |-> at.ok]
        ELSE IF handle \in unreadable THEN [found |-> {}, ok |-> FALSE]
        ELSE [found |-> IF BlockValid(block, it) THEN {it.key} ELSE {}, ok |-> it.ok]

Sought == {Append(user, seq) : user \in SoughtUsers, seq \in TableSequences}

SortedNext ==
    \/ \E user \in TableUsers, seq \in TableSequences, size \in BlockSizes :
          AddEntry(Append(user, seq), TRUE, size)
    \/ \E user \in TableUsers, seq \in TableSequences : AddEntry(Append(user, seq), FALSE, 0)
    \/ \E size \in BlockSizes : FinishTable(size)
    \/ \E bad \in {{}} \cup {{h} : h \in DOMAIN building.blocks} : OpenTable(bad)
    \/ \E key \in Sought : SeekTable(key)
    \/ SeekTableToFirst \/ SeekTableToLast \/ NextInTable \/ PrevInTable

SortedSpec == SortedInit /\ [][SortedNext]_sortedVars

-----------------------------------------------------------------------------
\* Wherever a block ends, whichever bytes its keys share and how much of the
\* index keys was cut off, a move of the iterator shows the entry that the
\* sorted list has there.  An entry of a block that cannot be read is passed
\* over only with an error in status(), which no later move takes away.
MovesRight ==
    \A t \in tableIter :
        /\ StatusOk(t) => Shown(t) = asked
        /\ Shown(t) \subseteq Range(building.keys)
        /\ unreadable = {} => StatusOk(t)

\* Table::InternalGet finds the newest entry of a user key that is not newer
\* than the one asked for, in spite of the filters, or reports an error.  What
\* it finds for other keys is no entry of the user key.
GetFinds ==
    (\E t \in tableIter : t.handle = 0) =>
        \A key \in Sought :
            LET got == InternalGet(key)
                own == {k \in FirstKey(LAMBDA l : ~KeyLess(l, key)) : Front(k) = Front(key)}
            IN  /\ got.ok => {k \in got.found : Front(k) = Front(key)} = own
                /\ unreadable = {} => got.ok

\* A table gives back what was put into it, to a search and to an iterator.
TableFaithful == MovesRight /\ GetFinds
=============================================================================
