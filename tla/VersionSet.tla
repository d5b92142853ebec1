----------------------------- MODULE VersionSet -----------------------------
(***************************************************************************)
(* The levels of table files (version_set.cc), what compactions move       *)
(* between them and what a read finds in them.                             *)
(*                                                                         *)
(* An entry is named by its sequence number: ops[s] is the s-th update of  *)
(* the database.  A table file is a set of entries.  File sizes are not    *)
(* modelled: a choice the code makes by size is free here, and so is where *)
(* a compaction cuts its output into files.                                *)
(***************************************************************************)
EXTENDS Integers, Sequences, FiniteSets, FiniteSetsExt, SequencesExt

CONSTANTS
    MaxKey,                 \* user keys are 1 .. MaxKey
    NumLevels,              \* config::kNumLevels
    MaxMemCompactLevel,     \* config::kMaxMemCompactLevel
    MaxWrites,              \* bound: updates of the database
    MaxSnapshots,           \* bound: snapshots held at a time
    SplitKeys               \* user keys with so many entries that an output file
                            \* may end between two of them

ASSUME ConstantsAssumption ==
    /\ MaxKey \in Nat \ {0} /\ NumLevels \in Nat /\ MaxMemCompactLevel \in Nat
    /\ MaxMemCompactLevel < NumLevels /\ NumLevels >= 2
    /\ MaxWrites \in Nat /\ MaxSnapshots \in Nat
    /\ SplitKeys \subseteq 1 .. MaxKey

VARIABLES
    ops,            \* the updates, in sequence order
    mem,            \* entries of mem_
    imm,            \* entries of imm_; none when it is null
    level0,         \* files of level 0, by file number
    deeper,         \* files of each other level
    snapshots,      \* snapshots_, by sequence number
    compaction,     \* the compactions in progress: none or one
    between,        \* history: a flush went between the inputs of a compaction, into
                    \* the level of its output
    exposed         \* history: the user keys of which a compaction dropped a deletion
                    \* and left older entries in a file beside its inputs

historyVars == <<between, exposed>>
vars == <<ops, mem, imm, level0, deeper, snapshots, compaction, historyVars>>

Keys == 1 .. MaxKey
Levels == 0 .. NumLevels - 1
LastSequence == Len(ops)

Init ==
    /\ ops = <<>> /\ mem = {} /\ imm = {}
    /\ level0 = <<>> /\ deeper = [l \in Levels \ {0} |-> {}]
    /\ snapshots = {} /\ compaction = {}
    /\ between = FALSE /\ exposed = {}

-----------------------------------------------------------------------------
(* Keys and files.                                                         *)

KeyOf(s) == ops[s].key

\* InternalKeyComparator: by user key, then by decreasing sequence number.
Less(s, t) == KeyOf(s) < KeyOf(t) \/ (KeyOf(s) = KeyOf(t) /\ s > t)

Smallest(file) == CHOOSE s \in file : \A t \in file : s = t \/ Less(s, t)
Largest(file) == CHOOSE s \in file : \A t \in file : s = t \/ Less(t, s)

Files(level) == IF level = 0 THEN ToSet(level0) ELSE deeper[level]

\* The files of `files` with a user key in lo .. hi between their bounds.
Overlapping(files, lo, hi) ==
    {f \in files : KeyOf(Smallest(f)) <= hi /\ KeyOf(Largest(f)) >= lo}

LowKey(files) == Min({KeyOf(s) : s \in UNION files})
HighKey(files) == Max({KeyOf(s) : s \in UNION files})

\* The least set of files that contains `start` and is closed.
Least(files, start, Closed(_)) ==
    {f \in files : \A S \in SUBSET files : (start \subseteq S /\ Closed(S)) => f \in S}

\* GetOverlappingInputs.  In level 0 the range grows with the files it takes.
GetOverlappingInputs(level, lo, hi) ==
    LET files == Files(level)
        found == Overlapping(files, lo, hi)
        Closed(S) == S # {} => Overlapping(files, LowKey(S), HighKey(S)) \subseteq S
    IN  IF level = 0 THEN Least(files, found, Closed) ELSE found

-----------------------------------------------------------------------------
(* Reads.                                                                  *)

\* The entry a table or memtable yields for a lookup: the newest of the key
\* that the snapshot sees.
Lookup(entries, key, snapshot) == {s \in entries : KeyOf(s) = key /\ s <= snapshot}

\* FindFile: of the files whose largest key is at or after the lookup key, the
\* first.
FindFile(files, key, snapshot) ==
    LET candidates == {f \in files : \/ KeyOf(Largest(f)) > key
                                     \/ (KeyOf(Largest(f)) = key /\ Largest(f) <= snapshot)}
    IN  {f \in candidates : \A g \in candidates : f = g \/ Less(Smallest(f), Smallest(g))}

\* The sources a lookup asks, in order: mem_, imm_, level 0 from the newest
\* file, then one file of each level.
Sources(key, snapshot) ==
    <<mem, imm>> \o Reverse(level0) \o
    [l \in 1 .. NumLevels - 1 |-> UNION FindFile(deeper[l], key, snapshot)]

\* Get: the value the first source that has an entry yields, 0 for none.
Get(key, snapshot) ==
    LET sources == Sources(key, snapshot)
        hits == {i \in DOMAIN sources : Lookup(sources[i], key, snapshot) # {}}
        entry == Max(Lookup(sources[Min(hits)], key, snapshot))
    IN  IF hits = {} \/ ops[entry].type = "deletion" THEN 0 ELSE entry

\* What the updates say the answer is.
Expected(key, snapshot) ==
    LET updates == Lookup(1 .. Len(ops), key, snapshot)
    IN  IF updates = {} \/ ops[Max(updates)].type = "deletion" THEN 0 ELSE Max(updates)

-----------------------------------------------------------------------------
(* Writes, snapshots and memtables.                                        *)

Write ==
    /\ Len(ops) < MaxWrites
    /\ \E key \in Keys, type \in {"value", "deletion"} :
          ops' = Append(ops, [key |-> key, type |-> type])
    /\ mem' = mem \cup {Len(ops')}
    /\ UNCHANGED <<imm, level0, deeper, snapshots, compaction, historyVars>>

GetSnapshot ==
    /\ Cardinality(snapshots) < MaxSnapshots
    /\ snapshots' = snapshots \cup {LastSequence}
    /\ UNCHANGED <<ops, mem, imm, level0, deeper, compaction, historyVars>>

ReleaseSnapshot ==
    /\ \E s \in snapshots : snapshots' = snapshots \ {s}
    /\ UNCHANGED <<ops, mem, imm, level0, deeper, compaction, historyVars>>

\* MakeRoomForWrite sets the memtable aside.
SwitchMemTable ==
    /\ imm = {} /\ mem # {}
    /\ imm' = mem /\ mem' = {}
    /\ UNCHANGED <<ops, level0, deeper, snapshots, compaction, historyVars>>

\* Mutant: only level 0 is looked at.
MayPushToAny(lo, hi, l) == Overlapping(Files(0), lo, hi) = {}

\* A table may go to level l when neither l nor a level above it overlaps it.
MayPushTo(lo, hi, l) == \A above \in 0 .. l : Overlapping(Files(above), lo, hi) = {}

\* PickLevelForMemTableOutput: as deep as that allows, or less when much of
\* the level after next overlaps.
PickLevelForMemTableOutput(lo, hi) ==
    IF ~MayPushTo(lo, hi, 0) THEN {0}
    ELSE {l \in 0 .. MaxMemCompactLevel :
             /\ l > 0 => MayPushTo(lo, hi, l)
             /\ \/ l = MaxMemCompactLevel
                \/ ~MayPushTo(lo, hi, l + 1)
                \/ (l + 2 < NumLevels /\ Overlapping(Files(l + 2), lo, hi) # {})}

\* The entries are among the keys of a compaction under way, and in the level it
\* writes to: CompactRange may take files with a gap between them, where
\* PickLevelForMemTableOutput sees no file.
GoesBetween(entries, l) ==
    \E c \in compaction :
        LET inputs == c.inputs[1] \cup c.inputs[2]
        IN  /\ l = c.level + 1
            /\ LowKey(inputs) <= HighKey({entries}) /\ LowKey({entries}) <= HighKey(inputs)

\* CompactMemTable, between compactions or in the middle of one.
CompactMemTable ==
    /\ imm # {}
    /\ \E l \in PickLevelForMemTableOutput(LowKey({imm}), HighKey({imm})) :
          /\ IF l = 0
             THEN level0' = Append(level0, imm) /\ UNCHANGED deeper
             ELSE deeper' = [deeper EXCEPT ![l] = @ \cup {imm}] /\ UNCHANGED level0
          /\ between' = (between \/ GoesBetween(imm, l))
    /\ imm' = {}
    /\ UNCHANGED <<ops, mem, snapshots, compaction, exposed>>

-----------------------------------------------------------------------------
(* Compactions.                                                            *)

\* Mutant: the files that continue a user key are left where they are.
AddBoundaryInputsNone(level, inputs) == inputs

\* AddBoundaryInputs: the next file too, while it starts with the user key the
\* files taken so far end with.
AddBoundaryInputs(level, inputs) ==
    LET last == {f \in inputs : Largest(UNION inputs) \in f}
        Continues(f, g) == /\ Less(Largest(f), Smallest(g))
                           /\ KeyOf(Largest(f)) = KeyOf(Smallest(g))
        Closed(S) == \A f \in (S \ inputs) \cup last : \A g \in Files(level) :
                        Continues(f, g) => g \in S
    IN  Least(Files(level), inputs, Closed)

\* SetupOtherInputs: the pairs of inputs it may end with for inputs in `level`.
SetupOtherInputs(level, start) ==
    LET inputs0 == AddBoundaryInputs(level, start)
        inputs1 == GetOverlappingInputs(level + 1, LowKey(inputs0), HighKey(inputs0))
        all == inputs0 \cup inputs1
        expanded0 == AddBoundaryInputs(level,
                        GetOverlappingInputs(level, LowKey(all), HighKey(all)))
        expanded1 == GetOverlappingInputs(level + 1, LowKey(expanded0), HighKey(expanded0))
        plain == <<inputs0, inputs1>>
    IN  IF /\ inputs1 # {} /\ Cardinality(expanded0) > Cardinality(inputs0)
           /\ Cardinality(expanded1) = Cardinality(inputs1)
        THEN {plain, <<expanded0, expanded1>>}      \* by the size of both
        ELSE {plain}

\* PickCompaction: any file, for its level is too large and it comes after
\* compact_pointer_, or it cost too many seeks; in level 0 with those that
\* overlap it.
PickedInputs(level) ==
    {IF level = 0 THEN GetOverlappingInputs(0, LowKey({f}), HighKey({f})) ELSE {f}
        : f \in Files(level)}

\* CompactRange: the files of a range of keys; below level 0 only the first
\* ones, up to a size.
RangeInputs(level) ==
    LET ranges == {GetOverlappingInputs(level, lo, hi) : lo \in Keys, hi \in Keys} \ {{}}
        FirstOf(files) == {{f \in files : f = g \/ Less(Smallest(f), Smallest(g))}
                              : g \in files}
    IN  IF level = 0 THEN ranges ELSE UNION {FirstOf(files) : files \in ranges}

SmallestSnapshot == IF snapshots = {} THEN LastSequence ELSE Min(snapshots)

\* DoCompactionWork begins, and releases the mutex.
BeginCompaction(level, inputs, manual) ==
    \E pair \in SetupOtherInputs(level, inputs) :
        /\ \/ manual \/ Cardinality(pair[1]) > 1 \/ pair[2] # {}
           \/ \* much of the level after next overlaps
              /\ level + 2 < NumLevels
              /\ Overlapping(Files(level + 2), LowKey(pair[1]), HighKey(pair[1])) # {}
        /\ compaction' = {[level |-> level, inputs |-> pair, snapshot |-> SmallestSnapshot,
                           below |-> UNION {Files(l) : l \in level + 2 .. NumLevels - 1}]}
        /\ UNCHANGED <<ops, mem, imm, level0, deeper, snapshots, historyVars>>

\* One background thread, and it looks at imm_ first (BackgroundCompaction).
Idle == compaction = {} /\ imm = {}

PickCompaction ==
    /\ Idle
    /\ \E level \in 0 .. NumLevels - 2 : \E inputs \in PickedInputs(level) :
          BeginCompaction(level, inputs, FALSE)

CompactRange ==
    /\ Idle
    /\ \E level \in 0 .. NumLevels - 2 : \E inputs \in RangeInputs(level) :
          BeginCompaction(level, inputs, TRUE)

\* Version edits: files leave a level and others join the next.
ApplyEdit(level, removed, removedNext, added) ==
    /\ level0' = SelectSeq(level0, LAMBDA f : level # 0 \/ f \notin removed)
    /\ deeper' = [l \in DOMAIN deeper |->
                     CASE l = level -> deeper[l] \ removed
                       [] l = level + 1 -> (deeper[l] \ removedNext) \cup added
                       [] OTHER -> deeper[l]]

\* IsTrivialMove: a single file moves down.
TrivialMove ==
    /\ Idle
    /\ \E level \in 0 .. NumLevels - 2 : \E inputs \in PickedInputs(level) :
          /\ \E pair \in SetupOtherInputs(level, inputs) :
                /\ Cardinality(pair[1]) = 1 /\ pair[2] = {}
                /\ ApplyEdit(level, pair[1], {}, pair[1])
    /\ UNCHANGED <<ops, mem, imm, snapshots, compaction, historyVars>>

\* IsBaseLevelForKey, in the version the compaction started from.
IsBaseLevelForKey(c, key) == Overlapping(c.below, key, key) = {}

\* DoCompactionWork drops what a newer entry hides from every snapshot, and
\* deletions that hide nothing.
Drops(c, s, newer) ==
    \/ newer # {} /\ Min(newer) <= c.snapshot
    \/ ops[s].type = "deletion" /\ s <= c.snapshot /\ IsBaseLevelForKey(c, KeyOf(s))

Kept(c) ==
    LET entries == UNION (c.inputs[1] \cup c.inputs[2])
    IN  {s \in entries :
            ~Drops(c, s, {t \in entries : KeyOf(t) = KeyOf(s) /\ t > s})}

\* The ways to cut entries into files, each ending before one of `cuts`.
Outputs(entries) ==
    LET cuts == {s \in entries : KeyOf(s) \in SplitKeys \/ \A t \in entries :
                                    KeyOf(t) = KeyOf(s) => t <= s}
        SameFile(C, s, t) == \A c \in C : (c = s \/ Less(c, s)) <=> (c = t \/ Less(c, t))
    IN  {{{t \in entries : SameFile(C, s, t)} : s \in entries} : C \in SUBSET cuts}

\* A deletion of these keys is dropped and a file beside the inputs has older
\* entries: SetupOtherInputs calls AddBoundaryInputs for the files of the level,
\* not for those of the next.
Exposes(c) ==
    LET beside == UNION (Files(c.level + 1) \ c.inputs[2])
        deletions == {s \in UNION (c.inputs[1] \cup c.inputs[2]) \ Kept(c) :
                         ops[s].type = "deletion"}
    IN  {KeyOf(s) : s \in {d \in deletions : \E t \in beside : KeyOf(t) = KeyOf(d) /\ t < d}}

\* InstallCompactionResults.
FinishCompaction ==
    \E c \in compaction :
        /\ \E outputs \in Outputs(Kept(c)) :
              ApplyEdit(c.level, c.inputs[1], c.inputs[2], outputs)
        /\ compaction' = {}
        /\ exposed' = exposed \cup Exposes(c)
        /\ UNCHANGED <<ops, mem, imm, snapshots, between>>

-----------------------------------------------------------------------------
\* The database is closed and opened: recovery writes each log to level 0.
Reopen ==
    /\ level0' = level0 \o SelectSeq(<<imm, mem>>, LAMBDA m : m # {})
    /\ mem' = {} /\ imm' = {} /\ snapshots' = {} /\ compaction' = {}
    /\ UNCHANGED <<ops, deeper, historyVars>>

Next ==
    \/ Write \/ GetSnapshot \/ ReleaseSnapshot \/ SwitchMemTable \/ CompactMemTable
    \/ PickCompaction \/ CompactRange \/ TrivialMove \/ FinishCompaction \/ Reopen

Spec == Init /\ [][Next]_vars

-----------------------------------------------------------------------------
\* Types; a compaction's inputs are still files of the version.
TypeOK ==
    /\ \A i \in DOMAIN ops : ops[i] \in [key : Keys, type : {"value", "deletion"}]
    /\ mem \subseteq 1 .. Len(ops) /\ imm \subseteq 1 .. Len(ops)
    /\ \A l \in Levels : \A f \in Files(l) : f # {} /\ f \subseteq 1 .. Len(ops)
    /\ snapshots \subseteq 0 .. Len(ops) /\ Cardinality(compaction) <= 1
    /\ \A c \in compaction : /\ c.inputs[1] \subseteq Files(c.level)
                             /\ c.inputs[2] \subseteq Files(c.level + 1)

\* SaveTo: "Make sure there is no overlap in levels > 0".
LevelsDisjoint ==
    \A l \in Levels \ {0} : \A f, g \in deeper[l] :
        f = g \/ Less(Largest(f), Smallest(g)) \/ Less(Largest(g), Smallest(f))

\* A read finds the newest update its snapshot sees, through every compaction,
\* trivial move, flush and reopening: unless a flush went between the inputs of a
\* compaction, and but for the keys of which a compaction dropped a deletion over
\* older entries in a file that SetupOtherInputs left out.
ReadsSeeUpdates ==
    between \/ \A key \in Keys \ exposed : \A snapshot \in snapshots \cup {LastSequence} :
                   Get(key, snapshot) = Expected(key, snapshot)

\* Entries never hop across levels (Version::Get): every entry of a user key
\* in a level is newer than every one below.
NewerAbove ==
    \A l, m \in Levels : l < m =>
        \A f \in Files(l), g \in Files(m) : \A s \in f, t \in g : KeyOf(s) = KeyOf(t) => s > t

\* The levels stay ordered while flushes come between the steps of a compaction:
\* newer entries are above, and files of a level are disjoint, unless a flush
\* went between the inputs of a compaction, into the level of its output.
LevelsOrdered == TypeOK /\ NewerAbove /\ (between \/ LevelsDisjoint)
=============================================================================
