------------------------------- MODULE DBIter -------------------------------
(***************************************************************************)
(* The iterator of the database (db_iter.cc) over the merge of the         *)
(* memtable and the tables (merger.cc).  The memtable grows while the      *)
(* iterator is used: an insertion may come between any two moves of the    *)
(* merging iterator.                                                       *)
(***************************************************************************)
EXTENDS Integers, Sequences, FiniteSets, FiniteSetsExt

CONSTANTS
    MaxUserKey,             \* user keys are 1 .. MaxKey
    Snapshot,           \* sequence_: entries 1 .. Snapshot are visible
    MaxInserts,         \* bound: entries written after the iterator was made
    Tables              \* children besides the memtable are 1 .. Tables

ASSUME IterAssumption ==
    MaxUserKey \in Nat \ {0} /\ Snapshot \in Nat /\ MaxInserts \in Nat /\ Tables \in Nat

VARIABLES
    children,       \* the entries of each child; 0 is the memtable
    merge,          \* the MergingIterator
    direction,      \* DBIter::direction_
    savedKey,       \* saved_key_, 0 when it is clear
    savedValue,     \* saved_value_
    loop,           \* the loop that runs, and its locals
    call,           \* the operation that runs, or the last
    shown,          \* what Valid, key and value said after the last operation
    inserted

iterVars == <<children, merge, direction, savedKey, savedValue, loop, call, shown, inserted>>

UserKeys == 1 .. MaxUserKey
Child == 0 .. Tables
Types == {"value", "deletion"}
NoEntry == [key |-> 0, seq |-> 0, type |-> "none"]
NoChild == -1

\* InternalKeyComparator: by user key, then by decreasing sequence number.
EntryLess(a, b) == a.key < b.key \/ (a.key = b.key /\ a.seq > b.seq)

FirstEntry(entries) ==
    IF entries = {} THEN NoEntry
    ELSE CHOOSE e \in entries : \A f \in entries : e = f \/ EntryLess(e, f)
LastEntry(entries) ==
    IF entries = {} THEN NoEntry
    ELSE CHOOSE e \in entries : \A f \in entries : e = f \/ EntryLess(f, e)

-----------------------------------------------------------------------------
(* MergingIterator.                                                        *)

\* FindSmallest and FindLargest.
Positioned(pos) == {c \in Child : pos[c] # NoEntry}
FindSmallest(pos) ==
    IF Positioned(pos) = {} THEN NoChild
    ELSE CHOOSE c \in Positioned(pos) : \A d \in Positioned(pos) : c = d \/ EntryLess(pos[c], pos[d])
FindLargest(pos) ==
    IF Positioned(pos) = {} THEN NoChild
    ELSE CHOOSE c \in Positioned(pos) : \A d \in Positioned(pos) : c = d \/ EntryLess(pos[d], pos[c])

Forward(pos) == [pos |-> pos, current |-> FindSmallest(pos), direction |-> "forward"]
Backward(pos) == [pos |-> pos, current |-> FindLargest(pos), direction |-> "reverse"]

Valid(m) == m.current # NoChild
Entry(m) == m.pos[m.current]

\* The entries of a child after and before another.
After(c, e) == FirstEntry({x \in children[c] : EntryLess(e, x)})
Before(c, e) == LastEntry({x \in children[c] : EntryLess(x, e)})

MergeSeekToFirst == Forward([c \in Child |-> FirstEntry(children[c])])
MergeSeekToLast == Backward([c \in Child |-> LastEntry(children[c])])
MergeSeek(key, seq) ==
    Forward([c \in Child |-> FirstEntry({x \in children[c] :
                                            ~EntryLess(x, [key |-> key, seq |-> seq])})])

\* Mutant: a change of direction leaves the other children where they are.
MergeNextStraight(m) ==
    Forward([m.pos EXCEPT ![m.current] = After(m.current, Entry(m))])

\* Next: a change of direction moves the other children past key().
MergeNext(m) ==
    Forward([c \in Child |-> IF c = m.current \/ m.direction # "forward"
                             THEN After(c, Entry(m)) ELSE m.pos[c]])

MergePrev(m) ==
    Backward([c \in Child |-> IF c = m.current \/ m.direction # "reverse"
                             THEN Before(c, Entry(m)) ELSE m.pos[c]])

-----------------------------------------------------------------------------
(* DBIter.                                                                 *)

NoLoop == [name |-> "none", skipping |-> FALSE, type |-> "deletion"]
Looping(name, skipping) == [name |-> name, skipping |-> skipping, type |-> "deletion"]

\* The iterator has been made over some entries that the snapshot sees.
IterInit ==
    /\ \E key \in [1 .. Snapshot -> UserKeys], type \in [1 .. Snapshot -> Types],
          child \in [1 .. Snapshot -> Child] :
          children = [c \in Child |-> {[key |-> key[s], seq |-> s, type |-> type[s]]
                                          : s \in {t \in 1 .. Snapshot : child[t] = c}}]
    /\ merge = [pos |-> [c \in Child |-> NoEntry], current |-> NoChild, direction |-> "forward"]
    /\ direction = "forward" /\ savedKey = 0 /\ savedValue = 0
    /\ loop = NoLoop /\ call = [op |-> "none", key |-> 0] /\ shown = [key |-> 0, value |-> 0] /\ inserted = 0

\* An operation ends: valid_ and what key() and value() return.
ReturnInvalid == loop' = NoLoop /\ shown' = [key |-> 0, value |-> 0]
ReturnEntry(key, value) == loop' = NoLoop /\ shown' = [key |-> key, value |-> value]

\* An operation starts a loop; one that finds the merging iterator invalid ends
\* the operation.
Enter(name, skipping) == loop' = Looping(name, skipping) /\ UNCHANGED shown

Calls(op, key) ==
    /\ loop = NoLoop
    /\ call' = [op |-> op, key |-> key]
    /\ UNCHANGED <<children, inserted>>

SeekToFirst ==
    /\ Calls("first", 0)
    /\ direction' = "forward" /\ savedValue' = 0
    /\ merge' = MergeSeekToFirst
    /\ Enter("next", FALSE)
    /\ UNCHANGED savedKey

Seek(key) ==
    /\ Calls("seek", key)
    /\ direction' = "forward" /\ savedValue' = 0 /\ savedKey' = 0
    /\ merge' = MergeSeek(key, Snapshot)
    /\ Enter("next", FALSE)

SeekToLast ==
    /\ Calls("last", 0)
    /\ direction' = "reverse" /\ savedValue' = 0
    /\ merge' = MergeSeekToLast
    /\ Enter("prev", FALSE)
    /\ UNCHANGED savedKey

\* The key to skip past when moving on from a forward position.
SkipKey == Entry(merge).key

NextEntry ==
    /\ shown.key # 0 /\ Calls("next", 0)
    /\ direction' = "forward"
    /\ IF direction = "reverse"
       THEN /\ merge' = IF Valid(merge) THEN MergeNext(merge) ELSE MergeSeekToFirst
            /\ Enter("next", TRUE)
            /\ UNCHANGED savedKey
       ELSE /\ savedKey' = SkipKey
            /\ Enter("next", TRUE)
            /\ UNCHANGED merge
    /\ UNCHANGED savedValue

PrevEntry ==
    /\ shown.key # 0 /\ Calls("prev", 0)
    /\ IF direction = "forward"
       THEN savedKey' = Entry(merge).key /\ Enter("switch", FALSE)
       ELSE Enter("prev", FALSE) /\ UNCHANGED savedKey
    /\ UNCHANGED <<merge, direction, savedValue>>

\* An iteration of FindNextUserEntry.
FindNextUserEntry ==
    LET e == Entry(merge)
        seen == e.seq <= Snapshot
        hidden == loop.skipping /\ e.key <= savedKey
    IN  /\ loop.name = "next"
        /\ \/ /\ ~Valid(merge)
              /\ ReturnInvalid
              /\ savedKey' = 0
              /\ UNCHANGED merge
           \/ /\ Valid(merge) /\ seen /\ e.type = "value" /\ ~hidden
              /\ ReturnEntry(e.key, e.seq)
              /\ savedKey' = 0
              /\ UNCHANGED merge
           \/ /\ Valid(merge) /\ seen /\ e.type = "deletion"
              /\ Enter("next", TRUE)
              /\ savedKey' = e.key
              /\ merge' = MergeNext(merge)
           \/ /\ Valid(merge) /\ (~seen \/ (e.type = "value" /\ hidden))
              /\ merge' = MergeNext(merge)
              /\ UNCHANGED <<loop, shown, savedKey>>
        /\ UNCHANGED <<children, direction, savedValue, call, inserted>>

\* Prev scans back past the entries of the key it is on.
SwitchToReverse ==
    /\ loop.name = "switch"
    /\ merge' = MergePrev(merge)
    /\ IF ~Valid(merge')
       THEN /\ ReturnInvalid
            /\ savedKey' = 0 /\ savedValue' = 0
            /\ UNCHANGED direction
       ELSE IF Entry(merge').key < savedKey
       THEN /\ direction' = "reverse"
            /\ Enter("prev", FALSE)
            /\ UNCHANGED <<savedKey, savedValue>>
       ELSE UNCHANGED <<direction, loop, savedKey, savedValue, shown>>
    /\ UNCHANGED <<children, call, inserted>>

\* Mutant: the entries of the key found are not all looked at.
FoundFirst(e) == loop.type # "deletion"

\* A value was found for a key, and e belongs to an earlier one.
Found(e) == loop.type # "deletion" /\ e.key < savedKey

\* An iteration of FindPrevUserEntry, or its end.
FindPrevUserEntry ==
    LET e == Entry(merge)
        seen == e.seq <= Snapshot
    IN  /\ loop.name = "prev"
        /\ IF Valid(merge) /\ ~(seen /\ Found(e))
           THEN /\ merge' = MergePrev(merge)
                /\ loop' = [loop EXCEPT !.type = IF seen THEN e.type ELSE @]
                /\ savedKey' = IF ~seen THEN savedKey ELSE IF e.type = "deletion" THEN 0 ELSE e.key
                /\ savedValue' = IF ~seen THEN savedValue ELSE IF e.type = "deletion" THEN 0 ELSE e.seq
                /\ UNCHANGED <<direction, shown>>
           ELSE /\ IF loop.type = "deletion"
                   THEN /\ ReturnInvalid /\ direction' = "forward"
                        /\ savedKey' = 0 /\ savedValue' = 0
                   ELSE /\ ReturnEntry(savedKey, savedValue)
                        /\ UNCHANGED <<direction, savedKey, savedValue>>
                /\ UNCHANGED merge
        /\ UNCHANGED <<children, call, inserted>>

\* A writer adds an entry to the memtable.
InsertEntry ==
    /\ inserted < MaxInserts
    /\ \E key \in UserKeys, type \in Types :
          children' = [children EXCEPT ![0] =
                          @ \cup {[key |-> key, seq |-> Snapshot + inserted + 1, type |-> type]}]
    /\ inserted' = inserted + 1
    /\ UNCHANGED <<merge, direction, savedKey, savedValue, loop, call, shown>>

Steps == FindNextUserEntry \/ SwitchToReverse \/ FindPrevUserEntry

IterNext ==
    \/ SeekToFirst \/ SeekToLast \/ NextEntry \/ PrevEntry \/ InsertEntry \/ Steps
    \/ \E key \in UserKeys : Seek(key)

IterSpec == IterInit /\ [][IterNext]_iterVars

-----------------------------------------------------------------------------
\* The snapshot's value of each key: the newest entry it sees, 0 for none.
View ==
    LET entries(k) == {e \in UNION {children[c] : c \in Child} : e.key = k /\ e.seq <= Snapshot}
    IN  [k \in UserKeys |-> IF entries(k) = {} \/ FirstEntry(entries(k)).type = "deletion" THEN 0
                        ELSE FirstEntry(entries(k)).seq]

Cursor == INSTANCE SnapshotIterator
          WITH Keys <- UserKeys, view <- View, at <- shown,
               pending <- IF loop = NoLoop THEN [op |-> "none", key |-> 0] ELSE call

\* The iterator implements a cursor over its snapshot, through every change of
\* direction, deletion, overwriting and concurrent insertion.
ImplementsCursor == Cursor!CursorSpec

\* Types; what is shown is what key() and value() would compute now.
IterTypeOK ==
    /\ merge.current \in Child \cup {NoChild}
    /\ \A c \in Child : merge.pos[c] \in children[c] \cup {NoEntry}
    /\ direction \in {"forward", "reverse"} /\ loop.name \in {"none", "next", "prev", "switch"}
    /\ savedKey \in 0 .. MaxUserKey /\ savedValue \in 0 .. Snapshot
    /\ (loop = NoLoop /\ shown.key # 0 /\ direction = "forward")
          => /\ Valid(merge) /\ Entry(merge).key = shown.key /\ Entry(merge).seq = shown.value
    /\ (loop = NoLoop /\ shown.key # 0 /\ direction = "reverse")
          => savedKey = shown.key /\ savedValue = shown.value

\* In reverse, the merging iterator stands before every entry of the current
\* key that the snapshot sees (comment (2) of DBIter), so that the next change
\* of direction skips none.
BeforeCurrentKey ==
    (loop = NoLoop /\ shown.key # 0 /\ direction = "reverse" /\ Valid(merge))
        => Entry(merge).key < shown.key

\* After every call the merging iterator stands where the direction says it
\* does, so that the next call, in either direction, starts from there.
IterConsistent == IterTypeOK /\ BeforeCurrentKey
=============================================================================
