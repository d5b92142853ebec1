--------------------------- MODULE PosixEnvProofs ---------------------------
(***************************************************************************)
(* PosixEnv keeps its limits on mappings and descriptors for any number of *)
(* threads and any limits, its file locks keep a database to one handle    *)
(* for any processes and threads, and the cache of the tables that are     *)
(* open counts their users.                                                *)
(***************************************************************************)
EXTENDS ReadOnlyFiles, FileLocks, TableCache, SequenceTheorems, FiniteSetTheorems, TLAPS

(* Limits.                                                                 *)

Count(states) == Cardinality(In(states))

\* The places in a file's life where a unit of a limiter is out: taken, or
\* borrowed by an Acquire that will refuse.
MmapHeld == {"mapping", "mapped", "releasing mmap"}
FileHeld == {"permanent", "releasing file"}
MmapOut == MmapHeld \cup {"no mmap"}
FileOut == FileHeld \cup {"no file"}

\* Each counter is its limit less the units that are out, the borrowed ones
\* included; that is what makes the limit inductive.
UnitsOut ==
    /\ fileOf \in [Slots -> States]
    /\ mmapsAllowed = MaxMmaps - Count(MmapOut)
    /\ filesAllowed = MaxOpenFiles - Count(FileOut)
    /\ Count(MmapHeld) <= MaxMmaps
    /\ Count(FileHeld) <= MaxOpenFiles

LEMMA CountType ==
    ASSUME NEW K
    PROVE  IsFiniteSet(In(K)) /\ Count(K) \in Nat /\ Count(K) <= Cardinality(Slots)
<1>1. In(K) \subseteq Slots
  BY DEF In
<1>. QED
  BY <1>1, FS_Subset, FS_CardinalityType, LimitsAssumption DEF Count

LEMMA CountMonotone ==
    ASSUME NEW K, NEW L, K \subseteq L
    PROVE  Count(K) <= Count(L)
<1>1. In(K) \subseteq In(L)
  BY DEF In
<1>. QED
  BY <1>1, CountType, FS_Subset DEF Count

\* A file that moves is counted where it goes and no more where it was.
LEMMA CountMoves ==
    ASSUME fileOf \in [Slots -> States], NEW s \in Slots, NEW w, FileTo(s, w), NEW K
    PROVE  /\ w \in K /\ fileOf[s] \notin K => Count(K)' = Count(K) + 1
           /\ w \notin K /\ fileOf[s] \in K => Count(K)' = Count(K) - 1
           /\ (w \in K <=> fileOf[s] \in K) => Count(K)' = Count(K)
<1>1. IsFiniteSet(In(K)) /\ Cardinality(In(K)) \in Nat
  BY CountType DEF Count
<1>2. s \in In(K) <=> fileOf[s] \in K
  BY DEF In
<1>3. CASE w \in K
  <2>1. In(K)' = In(K) \cup {s}
    BY <1>3 DEF In, FileTo
  <2>2. Cardinality(In(K) \cup {s})
          = IF s \in In(K) THEN Cardinality(In(K)) ELSE Cardinality(In(K)) + 1
    BY <1>1, FS_AddElement
  <2>. QED
    BY <1>1, <1>2, <1>3, <2>1, <2>2 DEF Count
<1>4. CASE w \notin K
  <2>1. In(K)' = In(K) \ {s}
    BY <1>4 DEF In, FileTo
  <2>2. Cardinality(In(K) \ {s})
          = IF s \in In(K) THEN Cardinality(In(K)) - 1 ELSE Cardinality(In(K))
    BY <1>1, FS_RemoveElement
  <2>. QED
    BY <1>1, <1>2, <1>4, <2>1, <2>2 DEF Count
<1>. QED
  BY <1>3, <1>4

\* Nothing changes for a limiter whose units stay out or in.
SameFor(K, s, w) == w \in K <=> fileOf[s] \in K

\* A move that concerns no limiter.
LEMMA PlainMove ==
    ASSUME UnitsOut, NEW s \in Slots, NEW w \in States, FileTo(s, w),
           SameFor(MmapOut, s, w), SameFor(MmapHeld, s, w),
           SameFor(FileOut, s, w), SameFor(FileHeld, s, w),
           UNCHANGED <<mmapsAllowed, filesAllowed>>
    PROVE  UnitsOut'
<1>1. fileOf' \in [Slots -> States]
  BY DEF UnitsOut, FileTo
<1>2. /\ Count(MmapOut)' = Count(MmapOut) /\ Count(MmapHeld)' = Count(MmapHeld)
      /\ Count(FileOut)' = Count(FileOut) /\ Count(FileHeld)' = Count(FileHeld)
  BY CountMoves DEF UnitsOut, SameFor
<1>. QED
  BY <1>1, <1>2 DEF UnitsOut

\* A unit of mmap_limiter_ goes out; to keep only if the counter was above zero.
LEMMA MmapUnitTaken ==
    ASSUME UnitsOut, NEW s \in Slots, NEW w \in States, FileTo(s, w),
           SameFor(FileOut, s, w), SameFor(FileHeld, s, w), UNCHANGED filesAllowed,
           fileOf[s] \notin MmapOut, w \in MmapOut, mmapsAllowed' = mmapsAllowed - 1,
           w \in MmapHeld => mmapsAllowed > 0
    PROVE  UnitsOut'
<1>1. fileOf \in [Slots -> States] /\ fileOf' \in [Slots -> States]
  BY DEF UnitsOut, FileTo
<1>2. /\ Count(MmapHeld) \in Nat /\ Count(MmapOut) \in Nat
      /\ Count(MmapHeld) <= Count(MmapOut)
      /\ MmapHeld \subseteq MmapOut
  BY CountType, CountMonotone DEF MmapOut
<1>3. Count(FileOut)' = Count(FileOut) /\ Count(FileHeld)' = Count(FileHeld)
  BY <1>1, CountMoves DEF SameFor
<1>4. Count(MmapOut)' = Count(MmapOut) + 1
  BY <1>1, CountMoves
<1>5. /\ Count(MmapHeld)' \in Int
      /\ Count(MmapHeld)' <= Count(MmapHeld) + (IF w \in MmapHeld THEN 1 ELSE 0)
  BY <1>1, <1>2, CountMoves
<1>. QED
  BY <1>1, <1>2, <1>3, <1>4, <1>5, LimitsAssumption DEF UnitsOut

\* A unit of mmap_limiter_ comes back.
LEMMA MmapUnitBack ==
    ASSUME UnitsOut, NEW s \in Slots, NEW w \in States, FileTo(s, w),
           SameFor(FileOut, s, w), SameFor(FileHeld, s, w), UNCHANGED filesAllowed,
           fileOf[s] \in MmapOut, w \notin MmapOut, mmapsAllowed' = mmapsAllowed + 1
    PROVE  UnitsOut'
<1>1. fileOf \in [Slots -> States] /\ fileOf' \in [Slots -> States]
  BY DEF UnitsOut, FileTo
<1>2. /\ Count(MmapHeld) \in Nat /\ Count(MmapOut) \in Nat
      /\ Count(MmapHeld) <= Count(MmapOut)
      /\ MmapHeld \subseteq MmapOut
  BY CountType, CountMonotone DEF MmapOut
<1>3. Count(FileOut)' = Count(FileOut) /\ Count(FileHeld)' = Count(FileHeld)
  BY <1>1, CountMoves DEF SameFor
<1>4. Count(MmapOut)' = Count(MmapOut) - 1
  BY <1>1, CountMoves
<1>5. Count(MmapHeld)' \in Int /\ Count(MmapHeld)' <= Count(MmapHeld)
  BY <1>1, <1>2, CountMoves
<1>. QED
  BY <1>1, <1>2, <1>3, <1>4, <1>5, LimitsAssumption DEF UnitsOut

\* A unit of fd_limiter_ goes out; to keep only if the counter was above zero.
LEMMA FileUnitTaken ==
    ASSUME UnitsOut, NEW s \in Slots, NEW w \in States, FileTo(s, w),
           SameFor(MmapOut, s, w), SameFor(MmapHeld, s, w), UNCHANGED mmapsAllowed,
           fileOf[s] \notin FileOut, w \in FileOut, filesAllowed' = filesAllowed - 1,
           w \in FileHeld => filesAllowed > 0
    PROVE  UnitsOut'
<1>1. fileOf \in [Slots -> States] /\ fileOf' \in [Slots -> States]
  BY DEF UnitsOut, FileTo
<1>2. /\ Count(FileHeld) \in Nat /\ Count(FileOut) \in Nat
      /\ Count(FileHeld) <= Count(FileOut)
      /\ FileHeld \subseteq FileOut
  BY CountType, CountMonotone DEF FileOut
<1>3. Count(MmapOut)' = Count(MmapOut) /\ Count(MmapHeld)' = Count(MmapHeld)
  BY <1>1, CountMoves DEF SameFor
<1>4. Count(FileOut)' = Count(FileOut) + 1
  BY <1>1, CountMoves
<1>5. /\ Count(FileHeld)' \in Int
      /\ Count(FileHeld)' <= Count(FileHeld) + (IF w \in FileHeld THEN 1 ELSE 0)
  BY <1>1, <1>2, CountMoves
<1>. QED
  BY <1>1, <1>2, <1>3, <1>4, <1>5, LimitsAssumption DEF UnitsOut

\* A unit of fd_limiter_ comes back.
LEMMA FileUnitBack ==
    ASSUME UnitsOut, NEW s \in Slots, NEW w \in States, FileTo(s, w),
           SameFor(MmapOut, s, w), SameFor(MmapHeld, s, w), UNCHANGED mmapsAllowed,
           fileOf[s] \in FileOut, w \notin FileOut, filesAllowed' = filesAllowed + 1
    PROVE  UnitsOut'
<1>1. fileOf \in [Slots -> States] /\ fileOf' \in [Slots -> States]
  BY DEF UnitsOut, FileTo
<1>2. /\ Count(FileHeld) \in Nat /\ Count(FileOut) \in Nat
      /\ Count(FileHeld) <= Count(FileOut)
      /\ FileHeld \subseteq FileOut
  BY CountType, CountMonotone DEF FileOut
<1>3. Count(MmapOut)' = Count(MmapOut) /\ Count(MmapHeld)' = Count(MmapHeld)
  BY <1>1, CountMoves DEF SameFor
<1>4. Count(FileOut)' = Count(FileOut) - 1
  BY <1>1, CountMoves
<1>5. Count(FileHeld)' \in Int /\ Count(FileHeld)' <= Count(FileHeld)
  BY <1>1, <1>2, CountMoves
<1>. QED
  BY <1>1, <1>2, <1>3, <1>4, <1>5, LimitsAssumption DEF UnitsOut

LEMMA FilesStepUnits ==
    ASSUME UnitsOut, NEW s \in Slots, FileStep(s)
    PROVE  UnitsOut'
<1>1. CASE OpenFile(s)
  <2>1. /\ FileTo(s, "opened") /\ fileOf[s] = "none"
        /\ UNCHANGED <<mmapsAllowed, filesAllowed>>
    BY <1>1 DEF OpenFile, FileAt
  <2>2. /\ "opened" \in States
        /\ SameFor(MmapOut, s, "opened") /\ SameFor(MmapHeld, s, "opened")
        /\ SameFor(FileOut, s, "opened") /\ SameFor(FileHeld, s, "opened")
    BY <2>1 DEF SameFor, States, MmapOut, MmapHeld, FileOut, FileHeld
  <2>. QED
    BY <2>1, <2>2, PlainMove
<1>2. CASE AcquireMmap(s)
  <2>1. /\ fileOf[s] = "opened"
        /\ mmapsAllowed' = mmapsAllowed - 1 /\ UNCHANGED filesAllowed
    BY <1>2 DEF AcquireMmap, FileAt
  <2>2. \A w \in {"mapping", "no mmap"} :
          /\ w \in States
          /\ SameFor(FileOut, s, w) /\ SameFor(FileHeld, s, w)
          /\ fileOf[s] \notin MmapOut /\ w \in MmapOut
    BY <2>1 DEF SameFor, States, MmapOut, MmapHeld, FileOut, FileHeld
  <2>3. CASE mmapsAllowed > 0
    <3>1. FileTo(s, "mapping")
      BY <1>2, <2>3 DEF AcquireMmap, HadUnit
    <3>. QED
      BY <2>1, <2>2, <2>3, <3>1, MmapUnitTaken
  <2>4. CASE ~(mmapsAllowed > 0)
    <3>1. FileTo(s, "no mmap") /\ "no mmap" \notin MmapHeld
      BY <1>2, <2>4 DEF AcquireMmap, HadUnit, MmapHeld
    <3>. QED
      BY <2>1, <2>2, <3>1, MmapUnitTaken
  <2>. QED
    BY <2>3, <2>4
<1>3. CASE RefuseMmap(s)
  <2>1. /\ FileTo(s, "without mmap") /\ fileOf[s] = "no mmap"
        /\ mmapsAllowed' = mmapsAllowed + 1 /\ UNCHANGED filesAllowed
    BY <1>3 DEF RefuseMmap, FileAt
  <2>2. /\ "without mmap" \in States
        /\ SameFor(FileOut, s, "without mmap") /\ SameFor(FileHeld, s, "without mmap")
        /\ fileOf[s] \in MmapOut /\ "without mmap" \notin MmapOut
    BY <2>1 DEF SameFor, States, MmapOut, MmapHeld, FileOut, FileHeld
  <2>. QED
    BY <2>1, <2>2, MmapUnitBack
<1>4. CASE Map(s)
  <2>1. /\ FileTo(s, "mapped") /\ fileOf[s] = "mapping"
        /\ UNCHANGED <<mmapsAllowed, filesAllowed>>
    BY <1>4 DEF Map, FileAt
  <2>2. /\ "mapped" \in States
        /\ SameFor(MmapOut, s, "mapped") /\ SameFor(MmapHeld, s, "mapped")
        /\ SameFor(FileOut, s, "mapped") /\ SameFor(FileHeld, s, "mapped")
    BY <2>1 DEF SameFor, States, MmapOut, MmapHeld, FileOut, FileHeld
  <2>. QED
    BY <2>1, <2>2, PlainMove
<1>5. CASE MapFails(s)
  <2>1. /\ FileTo(s, "none") /\ fileOf[s] = "mapping"
        /\ mmapsAllowed' = mmapsAllowed + 1 /\ UNCHANGED filesAllowed
    BY <1>5 DEF MapFails, FileAt, AfterMapFails
  <2>2. /\ "none" \in States
        /\ SameFor(FileOut, s, "none") /\ SameFor(FileHeld, s, "none")
        /\ fileOf[s] \in MmapOut /\ "none" \notin MmapOut
    BY <2>1 DEF SameFor, States, MmapOut, MmapHeld, FileOut, FileHeld
  <2>. QED
    BY <2>1, <2>2, MmapUnitBack
<1>6. CASE AcquireFile(s)
  <2>1. /\ fileOf[s] = "without mmap"
        /\ filesAllowed' = filesAllowed - 1 /\ UNCHANGED mmapsAllowed
    BY <1>6 DEF AcquireFile, FileAt
  <2>2. \A w \in {"permanent", "no file"} :
          /\ w \in States
          /\ SameFor(MmapOut, s, w) /\ SameFor(MmapHeld, s, w)
          /\ fileOf[s] \notin FileOut /\ w \in FileOut
    BY <2>1 DEF SameFor, States, MmapOut, MmapHeld, FileOut, FileHeld
  <2>3. CASE filesAllowed > 0
    <3>1. FileTo(s, "permanent")
      BY <1>6, <2>3 DEF AcquireFile, HadUnit
    <3>. QED
      BY <2>1, <2>2, <2>3, <3>1, FileUnitTaken
  <2>4. CASE ~(filesAllowed > 0)
    <3>1. FileTo(s, "no file") /\ "no file" \notin FileHeld
      BY <1>6, <2>4 DEF AcquireFile, HadUnit, FileHeld
    <3>. QED
      BY <2>1, <2>2, <3>1, FileUnitTaken
  <2>. QED
    BY <2>3, <2>4
<1>7. CASE RefuseFile(s)
  <2>1. /\ FileTo(s, "temporary") /\ fileOf[s] = "no file"
        /\ filesAllowed' = filesAllowed + 1 /\ UNCHANGED mmapsAllowed
    BY <1>7 DEF RefuseFile, FileAt, RefusedFileBecomes
  <2>2. /\ "temporary" \in States
        /\ SameFor(MmapOut, s, "temporary") /\ SameFor(MmapHeld, s, "temporary")
        /\ fileOf[s] \in FileOut /\ "temporary" \notin FileOut
    BY <2>1 DEF SameFor, States, MmapOut, MmapHeld, FileOut, FileHeld
  <2>. QED
    BY <2>1, <2>2, FileUnitBack
<1>8. CASE BeginRead(s)
  <2>1. /\ FileTo(s, "reading") /\ fileOf[s] = "temporary"
        /\ UNCHANGED <<mmapsAllowed, filesAllowed>>
    BY <1>8 DEF BeginRead, FileAt
  <2>2. /\ "reading" \in States
        /\ SameFor(MmapOut, s, "reading") /\ SameFor(MmapHeld, s, "reading")
        /\ SameFor(FileOut, s, "reading") /\ SameFor(FileHeld, s, "reading")
    BY <2>1 DEF SameFor, States, MmapOut, MmapHeld, FileOut, FileHeld
  <2>. QED
    BY <2>1, <2>2, PlainMove
<1>9. CASE EndRead(s)
  <2>1. /\ FileTo(s, "temporary") /\ fileOf[s] = "reading"
        /\ UNCHANGED <<mmapsAllowed, filesAllowed>>
    BY <1>9 DEF EndRead, FileAt
  <2>2. /\ "temporary" \in States
        /\ SameFor(MmapOut, s, "temporary") /\ SameFor(MmapHeld, s, "temporary")
        /\ SameFor(FileOut, s, "temporary") /\ SameFor(FileHeld, s, "temporary")
    BY <2>1 DEF SameFor, States, MmapOut, MmapHeld, FileOut, FileHeld
  <2>. QED
    BY <2>1, <2>2, PlainMove
<1>10. CASE Unmap(s)
  <2>1. /\ FileTo(s, "releasing mmap") /\ fileOf[s] = "mapped"
        /\ UNCHANGED <<mmapsAllowed, filesAllowed>>
    BY <1>10 DEF Unmap, FileAt
  <2>2. /\ "releasing mmap" \in States
        /\ SameFor(MmapOut, s, "releasing mmap") /\ SameFor(MmapHeld, s, "releasing mmap")
        /\ SameFor(FileOut, s, "releasing mmap") /\ SameFor(FileHeld, s, "releasing mmap")
    BY <2>1 DEF SameFor, States, MmapOut, MmapHeld, FileOut, FileHeld
  <2>. QED
    BY <2>1, <2>2, PlainMove
<1>11. CASE ReleaseMmap(s)
  <2>1. /\ FileTo(s, "none") /\ fileOf[s] = "releasing mmap"
        /\ mmapsAllowed' = mmapsAllowed + 1 /\ UNCHANGED filesAllowed
    BY <1>11 DEF ReleaseMmap, FileAt
  <2>2. /\ "none" \in States
        /\ SameFor(FileOut, s, "none") /\ SameFor(FileHeld, s, "none")
        /\ fileOf[s] \in MmapOut /\ "none" \notin MmapOut
    BY <2>1 DEF SameFor, States, MmapOut, MmapHeld, FileOut, FileHeld
  <2>. QED
    BY <2>1, <2>2, MmapUnitBack
<1>12. CASE CloseFile(s)
  <2>1. /\ FileTo(s, "releasing file") /\ fileOf[s] = "permanent"
        /\ UNCHANGED <<mmapsAllowed, filesAllowed>>
    BY <1>12 DEF CloseFile, FileAt
  <2>2. /\ "releasing file" \in States
        /\ SameFor(MmapOut, s, "releasing file") /\ SameFor(MmapHeld, s, "releasing file")
        /\ SameFor(FileOut, s, "releasing file") /\ SameFor(FileHeld, s, "releasing file")
    BY <2>1 DEF SameFor, States, MmapOut, MmapHeld, FileOut, FileHeld
  <2>. QED
    BY <2>1, <2>2, PlainMove
<1>13. CASE ReleaseFile(s)
  <2>1. /\ FileTo(s, "none") /\ fileOf[s] = "releasing file"
        /\ filesAllowed' = filesAllowed + 1 /\ UNCHANGED mmapsAllowed
    BY <1>13 DEF ReleaseFile, FileAt
  <2>2. /\ "none" \in States
        /\ SameFor(MmapOut, s, "none") /\ SameFor(MmapHeld, s, "none")
        /\ fileOf[s] \in FileOut /\ "none" \notin FileOut
    BY <2>1 DEF SameFor, States, MmapOut, MmapHeld, FileOut, FileHeld
  <2>. QED
    BY <2>1, <2>2, FileUnitBack
<1>14. CASE DestroyTemporary(s)
  <2>1. /\ FileTo(s, "none") /\ fileOf[s] = "temporary"
        /\ UNCHANGED <<mmapsAllowed, filesAllowed>>
    BY <1>14 DEF DestroyTemporary, FileAt
  <2>2. /\ "none" \in States
        /\ SameFor(MmapOut, s, "none") /\ SameFor(MmapHeld, s, "none")
        /\ SameFor(FileOut, s, "none") /\ SameFor(FileHeld, s, "none")
    BY <2>1 DEF SameFor, States, MmapOut, MmapHeld, FileOut, FileHeld
  <2>. QED
    BY <2>1, <2>2, PlainMove
<1>. QED
  BY <1>1, <1>2, <1>3, <1>4, <1>5, <1>6, <1>7, <1>8, <1>9, <1>10, <1>11, <1>12, <1>13, <1>14
  DEF FileStep

\* What the counting says of the limits: with no call under way the units
\* that are out are those of the files that are mapped or keep a descriptor.
LEMMA UnitsOutSuffices == UnitsOut => LimitsKept
<1>. SUFFICES ASSUME UnitsOut PROVE LimitsKept
  OBVIOUS
<1>1. /\ Count(MmapOut) \in 0 .. Cardinality(Slots)
      /\ Count(FileOut) \in 0 .. Cardinality(Slots)
      /\ Cardinality(Slots) \in Nat
  <2>1. Cardinality(Slots) \in Nat
    BY LimitsAssumption, FS_CardinalityType
  <2>. QED
    BY <2>1, CountType
<1>2. FilesTypeOK
  BY <1>1, LimitsAssumption DEF UnitsOut, FilesTypeOK
<1>3. WithinLimits
  BY DEF UnitsOut, WithinLimits, Count, MmapHeld, FileHeld
<1>4. UnitsAccounted
  <2>. SUFFICES
         ASSUME In({"mapping", "no mmap", "no file", "releasing mmap", "releasing file"}) = {}
         PROVE  /\ mmapsAllowed = MaxMmaps - Cardinality(In({"mapped"}))
                /\ filesAllowed = MaxOpenFiles - Cardinality(In({"permanent"}))
    BY DEF UnitsAccounted
  <2>1. In(MmapOut) = In({"mapped"}) /\ In(FileOut) = In({"permanent"})
    BY DEF In, MmapOut, MmapHeld, FileOut, FileHeld
  <2>. QED
    BY <2>1 DEF UnitsOut, Count
<1>. QED
  BY <1>2, <1>3, <1>4 DEF LimitsKept

\* For any number of threads and any limits: no more files are mapped and no
\* more descriptors kept than the limiters allow, no unit is lost or given
\* twice, and the counters stay in range, although Acquire takes a unit first
\* and gives it back in a second atomic step.
THEOREM LimitsAreKept == FilesSpec => []LimitsKept
<1>1. FilesInit => UnitsOut
  <2>. SUFFICES ASSUME FilesInit PROVE UnitsOut
    OBVIOUS
  <2>1. ASSUME NEW K, "none" \notin K PROVE Count(K) = 0
    <3>1. In(K) = {}
      BY <2>1 DEF In, FilesInit
    <3>. QED
      BY <3>1, FS_EmptySet DEF Count
  <2>2. Count(MmapOut) = 0 /\ Count(FileOut) = 0 /\ Count(MmapHeld) = 0 /\ Count(FileHeld) = 0
    BY <2>1 DEF MmapOut, FileOut, MmapHeld, FileHeld
  <2>. QED
    BY <2>2, LimitsAssumption DEF FilesInit, UnitsOut, States
<1>2. UnitsOut /\ [FilesNext]_filesVars => UnitsOut'
  <2>. SUFFICES ASSUME UnitsOut, [FilesNext]_filesVars PROVE UnitsOut'
    OBVIOUS
  <2>1. CASE FilesNext
    BY <2>1, FilesStepUnits DEF FilesNext
  <2>2. CASE UNCHANGED filesVars
    BY <2>2 DEF filesVars, UnitsOut, Count, In
  <2>. QED
    BY <2>1, <2>2
<1>. QED
  BY <1>1, <1>2, UnitsOutSuffices, PTL DEF FilesSpec

-----------------------------------------------------------------------------
(* Locks.                                                                  *)

Places == {"idle", "deleting"} \cup Opening \cup Closing

\* The calls whose process has the entry in locks_.
Entered == {"inserted", "failing", "held", "leaking", "leaked", "unlocked"}

\* The entry of a process belongs to exactly one call.
EntriesOwned ==
    /\ \A t \in Callers : call[t].at \in Entered => ProcessOf[t] \in locks
    /\ \A t, u \in Callers :
          call[t].at \in Entered /\ call[u].at \in Entered /\ ProcessOf[t] = ProcessOf[u] => t = u
    /\ EntriesExplained

\* Only DestroyDB deletes the lock file.
DeletersDestroy ==
    \A t \in Callers : call[t].at \in {"deleting", "leaking"} => call[t].destroys

\* While no calls have overlapped: a process has one call that opens or closes,
\* a DestroyDB is alone, and whoever asks for the kernel's lock or has it does
\* so on the file with the name LOCK.
CallsApart ==
    /\ \A t, u \in Callers :
          /\ call[t].at \in Opening \cup Closing
          /\ call[u].at \in Opening \cup Closing
          /\ ProcessOf[t] = ProcessOf[u]
          => t = u
    /\ \A t, u \in Callers :
          call[t].at # "idle" /\ call[t].destroys /\ call[u].at # "idle" => t = u

LocksInPlace ==
    \A t \in Callers :
       /\ call[t].at \in {"opened", "inserted", "held"} => call[t].file = node
       /\ call[t].at = "held" => owner[call[t].file] = ProcessOf[t]

LocksInv ==
    /\ LocksTypeOK /\ EntriesOwned /\ DeletersDestroy
    /\ ~overlapped => CallsApart /\ LocksInPlace

\* What the two ways to go on do to the calls.
Moved(t, at) ==
    /\ call' \in [Callers -> [at : Places, file : 0..MaxNodes, destroys : BOOLEAN]]
    /\ call'[t].at = at
    /\ call'[t].file = call[t].file
    /\ call'[t].destroys = call[t].destroys
    /\ \A u \in Callers \ {t} : call'[u] = call[u]

Returned(t) ==
    /\ call' \in [Callers -> [at : Places, file : 0..MaxNodes, destroys : BOOLEAN]]
    /\ call'[t].at = "idle"
    /\ call'[t].file = 0
    /\ \A u \in Callers \ {t} : call'[u] = call[u]

LEMMA GotoMoves ==
    ASSUME LocksTypeOK, NEW t \in Callers, NEW at \in Places, GotoStep(t, at)
    PROVE  Moved(t, at)
BY DEF LocksTypeOK, GotoStep, Moved, Places

LEMMA ReturnReturns ==
    ASSUME LocksTypeOK, NEW t \in Callers, Return(t)
    PROVE  Returned(t)
<1>1. NoCall \in [at : Places, file : 0..MaxNodes, destroys : BOOLEAN]
  BY LocksAssumption DEF NoCall, Places
<1>. QED
  BY <1>1 DEF LocksTypeOK, Return, Returned, Places, NoCall

\* Every step of a call is one of these.
LEMMA LockStepMoves ==
    ASSUME LocksTypeOK, NEW t \in Callers, LockStep(t)
    PROVE  /\ InsertLock(t) => Moved(t, "inserted")
           /\ AlreadyHeld(t) => Returned(t)
           /\ Lock(t) => Moved(t, "held")
           /\ Refused(t) => Moved(t, "failing")
           /\ RemoveRefused(t) => Returned(t)
           /\ Unlock(t) => Moved(t, "unlocked")
           /\ UnlockFails(t) => Moved(t, IF call[t].destroys THEN "leaking" ELSE "leaked")
           /\ RemoveEntry(t) => Moved(t, "removed")
           /\ Close(t) => IF call[t].destroys THEN Moved(t, "deleting") ELSE Returned(t)
           /\ DeleteLockFile(t) =>
                IF call[t].at = "leaking" THEN Moved(t, "leaked") ELSE Returned(t)
<1>1. \A at \in Places : GotoStep(t, at) => Moved(t, at)
  BY GotoMoves
<1>2. Return(t) => Returned(t)
  BY ReturnReturns
<1>3. /\ "inserted" \in Places /\ "held" \in Places /\ "failing" \in Places
      /\ "unlocked" \in Places /\ "leaking" \in Places /\ "leaked" \in Places
      /\ "removed" \in Places /\ "deleting" \in Places
  BY DEF Places, Opening, Closing
<1>4. CASE call[t].destroys
  BY <1>1, <1>2, <1>3, <1>4
  DEF InsertLock, AlreadyHeld, Lock, Refused, RemoveRefused, Unlock, UnlockFails,
      RemoveEntry, Close, DeleteLockFile
<1>5. CASE ~call[t].destroys
  BY <1>1, <1>2, <1>3, <1>5
  DEF InsertLock, AlreadyHeld, Lock, Refused, RemoveRefused, Unlock, UnlockFails,
      RemoveEntry, Close, DeleteLockFile
<1>. QED
  BY <1>4, <1>5

\* LockFile's open, pointwise.
LEMMA OpenMoves ==
    ASSUME LocksTypeOK, NEW t \in Callers, NEW destroys \in BOOLEAN, OpenLockFile(t, destroys)
    PROVE  /\ call' \in [Callers -> [at : Places, file : 0..MaxNodes, destroys : BOOLEAN]]
           /\ node' \in 1..MaxNodes /\ nodes' \in 0..MaxNodes
           /\ call'[t].at = "opened" /\ call'[t].file = node' /\ call'[t].destroys = destroys
           /\ \A u \in Callers \ {t} : call'[u] = call[u]
<1>1. node' \in 1..MaxNodes /\ nodes' \in 0..MaxNodes
  BY LocksAssumption DEF LocksTypeOK, OpenLockFile
<1>2. [at |-> "opened", file |-> node', destroys |-> destroys]
        \in [at : Places, file : 0..MaxNodes, destroys : BOOLEAN]
  BY <1>1 DEF Places, Opening
<1>. QED
  BY <1>1, <1>2 DEF LocksTypeOK, OpenLockFile, Places

\* A process that exits, pointwise.
LEMMA ExitMoves ==
    ASSUME LocksTypeOK, NEW p \in Processes, Exit(p)
    PROVE  /\ call' \in [Callers -> [at : Places, file : 0..MaxNodes, destroys : BOOLEAN]]
           /\ \A t \in Callers :
                 /\ ProcessOf[t] = p => call'[t].at = "idle" /\ call'[t].file = 0
                 /\ ProcessOf[t] # p => call'[t] = call[t]
<1>1. NoCall \in [at : Places, file : 0..MaxNodes, destroys : BOOLEAN]
  BY LocksAssumption DEF NoCall, Places
<1>. QED
  BY <1>1 DEF LocksTypeOK, Exit, NoCall, Places

-----------------------------------------------------------------------------
LEMMA OwnerTyped ==
    ASSUME LocksTypeOK, NEW t \in Callers
    PROVE  OwnerAfterClose(t) \in [1..MaxNodes -> Processes \cup {NoProcess}]
BY DEF LocksTypeOK, OwnerAfterClose

\* A call under way moves on and stays under way, or returns.
LEMMA CallsTyped ==
    ASSUME LocksTypeOK, NEW t \in Callers, call[t].at # "idle", NEW at \in Places \ {"idle"},
           Moved(t, at) \/ Returned(t),
           node' \in 0..MaxNodes, nodes' \in 0..MaxNodes,
           owner' \in [1..MaxNodes -> Processes \cup {NoProcess}], locks' \subseteq Processes
    PROVE  LocksTypeOK'
BY DEF LocksTypeOK, Moved, Returned, Places

LEMMA LocksNextType ==
    ASSUME LocksTypeOK, LocksNext
    PROVE  LocksTypeOK'
<1>. USE LocksAssumption
<1>1. ASSUME NEW t \in Callers, LockStep(t) PROVE LocksTypeOK'
  <2>1. call[t].at # "idle"
    BY <1>1 DEF LockStep, InsertLock, AlreadyHeld, Lock, Refused, RemoveRefused, Unlock,
                UnlockFails, RemoveEntry, Close, DeleteLockFile
  <2>2. node' \in 0..MaxNodes /\ nodes' \in 0..MaxNodes /\ locks' \subseteq Processes
    BY <1>1 DEF LocksTypeOK, LockStep, InsertLock, AlreadyHeld, Lock, Refused, RemoveRefused,
                Unlock, UnlockFails, RemoveEntry, Close, DeleteLockFile, EntriesLeft
  <2>3. owner' \in [1..MaxNodes -> Processes \cup {NoProcess}]
    <3>1. CASE Lock(t)
      BY <3>1 DEF LocksTypeOK, Lock
    <3>2. CASE AlreadyHeld(t) \/ Refused(t) \/ Unlock(t) \/ Close(t)
      BY <3>2, OwnerTyped DEF AlreadyHeld, Refused, Unlock, Close
    <3>3. CASE InsertLock(t) \/ RemoveRefused(t) \/ UnlockFails(t) \/ RemoveEntry(t)
               \/ DeleteLockFile(t)
      BY <3>3 DEF LocksTypeOK, InsertLock, RemoveRefused, UnlockFails, RemoveEntry,
                  DeleteLockFile
    <3>. QED
      BY <1>1, <3>1, <3>2, <3>3 DEF LockStep
  <2>4. Returned(t) \/ \E at \in Places \ {"idle"} : Moved(t, at)
    <3>1. /\ "inserted" \in Places /\ "held" \in Places /\ "failing" \in Places
          /\ "unlocked" \in Places /\ "leaking" \in Places /\ "leaked" \in Places
          /\ "removed" \in Places /\ "deleting" \in Places
      BY DEF Places, Opening, Closing
    <3>. QED
      BY <1>1, <3>1, LockStepMoves DEF LockStep
  <2>5. "opened" \in Places \ {"idle"}
    BY DEF Places, Opening
  <2>. QED
    BY <2>1, <2>2, <2>3, <2>4, <2>5, CallsTyped
<1>2. ASSUME NEW t \in Callers, NEW destroys \in BOOLEAN, OpenLockFile(t, destroys)
      PROVE  LocksTypeOK'
  <2>1. UNCHANGED <<owner, locks>>
    BY <1>2 DEF OpenLockFile
  <2>2. /\ call' \in [Callers -> [at : Places, file : 0..MaxNodes, destroys : BOOLEAN]]
        /\ node' \in 1..MaxNodes /\ nodes' \in 0..MaxNodes
        /\ call'[t].at = "opened" /\ call'[t].file = node'
        /\ \A u \in Callers \ {t} : call'[u] = call[u]
    BY <1>2, OpenMoves
  <2>3. \A u \in Callers : call'[u].at = "idle" <=> call'[u].file = 0
    BY <2>2 DEF LocksTypeOK
  <2>. QED
    BY <2>1, <2>2, <2>3 DEF LocksTypeOK, Places
<1>3. ASSUME NEW p \in Processes, Exit(p) PROVE LocksTypeOK'
  <2>1. owner' \in [1..MaxNodes -> Processes \cup {NoProcess}]
    BY <1>3 DEF Exit, LocksTypeOK
  <2>2. locks' \subseteq Processes /\ UNCHANGED <<node, nodes>>
    BY <1>3 DEF Exit, LocksTypeOK
  <2>. QED
    BY <1>3, <2>1, <2>2, ExitMoves DEF LocksTypeOK, Places
<1>. QED
  BY <1>1, <1>2, <1>3 DEF LocksNext

LEMMA LocksNextEntries ==
    ASSUME LocksTypeOK, EntriesOwned, LocksNext
    PROVE  EntriesOwned'
<1>. USE LocksAssumption DEF EntriesOwned, EntriesExplained, Entered, Opening
<1>1. ASSUME NEW t \in Callers, LockStep(t) PROVE EntriesOwned'
  <2>1. CASE InsertLock(t)
    <3>1. Moved(t, "inserted") /\ ProcessOf[t] \notin locks /\ locks' = locks \cup {ProcessOf[t]}
          /\ call[t].at = "opened"
      BY <1>1, <2>1, LockStepMoves DEF InsertLock, MayInsert
    <3>. QED
      BY <3>1 DEF Moved
  <2>2. CASE AlreadyHeld(t)
    <3>1. Returned(t) /\ locks' = locks /\ call[t].at = "opened"
      BY <1>1, <2>2, LockStepMoves DEF AlreadyHeld
    <3>. QED
      BY <3>1 DEF Returned
  <2>3. CASE Lock(t)
    <3>1. Moved(t, "held") /\ locks' = locks /\ call[t].at = "inserted"
      BY <1>1, <2>3, LockStepMoves DEF Lock
    <3>. QED
      BY <3>1 DEF Moved
  <2>4. CASE Refused(t)
    <3>1. Moved(t, "failing") /\ locks' = locks /\ call[t].at = "inserted"
      BY <1>1, <2>4, LockStepMoves DEF Refused
    <3>. QED
      BY <3>1 DEF Moved
  <2>5. CASE RemoveRefused(t)
    <3>1. Returned(t) /\ locks' = locks \ {ProcessOf[t]} /\ call[t].at = "failing"
      BY <1>1, <2>5, LockStepMoves DEF RemoveRefused, EntriesLeft
    <3>. QED
      BY <3>1 DEF Returned
  <2>6. CASE Unlock(t)
    <3>1. Moved(t, "unlocked") /\ locks' = locks /\ call[t].at = "held"
      BY <1>1, <2>6, LockStepMoves DEF Unlock
    <3>. QED
      BY <3>1 DEF Moved
  <2>7. CASE UnlockFails(t)
    <3>1. Moved(t, "leaking") \/ Moved(t, "leaked")
      BY <1>1, <2>7, LockStepMoves
    <3>2. locks' = locks /\ call[t].at = "held"
      BY <2>7 DEF UnlockFails
    <3>. QED
      BY <3>1, <3>2 DEF Moved
  <2>8. CASE RemoveEntry(t)
    <3>1. Moved(t, "removed") /\ locks' = locks \ {ProcessOf[t]} /\ call[t].at = "unlocked"
      BY <1>1, <2>8, LockStepMoves DEF RemoveEntry, EntriesLeft
    <3>. QED
      BY <3>1 DEF Moved
  <2>9. CASE Close(t)
    <3>1. Moved(t, "deleting") \/ Returned(t)
      BY <1>1, <2>9, LockStepMoves
    <3>2. locks' = locks /\ call[t].at = "removed"
      BY <2>9 DEF Close
    <3>. QED
      BY <3>1, <3>2 DEF Moved, Returned
  <2>10. CASE DeleteLockFile(t)
    <3>1. locks' = locks
      BY <2>10 DEF DeleteLockFile
    <3>2. CASE call[t].at = "leaking"
      <4>1. Moved(t, "leaked")
        BY <1>1, <2>10, <3>2, LockStepMoves
      <4>. QED
        BY <3>1, <3>2, <4>1 DEF Moved
    <3>3. CASE call[t].at # "leaking"
      <4>1. Returned(t) /\ call[t].at = "deleting"
        BY <1>1, <2>10, <3>3, LockStepMoves DEF DeleteLockFile
      <4>. QED
        BY <3>1, <4>1 DEF Returned
    <3>. QED
      BY <3>2, <3>3
  <2>. QED
    BY <1>1, <2>1, <2>2, <2>3, <2>4, <2>5, <2>6, <2>7, <2>8, <2>9, <2>10 DEF LockStep
<1>2. ASSUME NEW t \in Callers, NEW destroys \in BOOLEAN, OpenLockFile(t, destroys)
      PROVE  EntriesOwned'
  <2>1. locks' = locks /\ call[t].at = "idle"
    BY <1>2 DEF OpenLockFile
  <2>. QED
    BY <1>2, <2>1, OpenMoves
<1>3. ASSUME NEW p \in Processes, Exit(p) PROVE EntriesOwned'
  <2>1. locks' = locks \ {p}
    BY <1>3 DEF Exit
  <2>. QED
    BY <1>3, <2>1, ExitMoves
<1>. QED
  BY <1>1, <1>2, <1>3 DEF LocksNext

LEMMA LocksNextDeleters ==
    ASSUME LocksTypeOK, DeletersDestroy, LocksNext
    PROVE  DeletersDestroy'
<1>. USE DEF DeletersDestroy
<1>1. ASSUME NEW t \in Callers, LockStep(t) PROVE DeletersDestroy'
  <2>1. ASSUME NEW at, Moved(t, at), at \in {"deleting", "leaking"} => call[t].destroys
        PROVE  DeletersDestroy'
    BY <2>1 DEF Moved
  <2>2. ASSUME Returned(t) PROVE DeletersDestroy'
    BY <2>2 DEF Returned
  <2>3. CASE call[t].destroys
    BY <1>1, <2>1, <2>2, <2>3, LockStepMoves DEF LockStep
  <2>4. CASE ~call[t].destroys
    BY <1>1, <2>1, <2>2, <2>4, LockStepMoves DEF LockStep
  <2>. QED
    BY <2>3, <2>4
<1>2. ASSUME NEW t \in Callers, NEW destroys \in BOOLEAN, OpenLockFile(t, destroys)
      PROVE  DeletersDestroy'
  BY <1>2, OpenMoves
<1>3. ASSUME NEW p \in Processes, Exit(p) PROVE DeletersDestroy'
  BY <1>3, ExitMoves, LocksAssumption
<1>. QED
  BY <1>1, <1>2, <1>3 DEF LocksNext

\* A call goes from idle to opening and on to closing and deleting, never back.
LEMMA LockStepKeepsApart ==
    ASSUME LocksTypeOK, CallsApart, NEW t \in Callers, LockStep(t)
    PROVE  CallsApart'
<1>. USE DEF CallsApart
<1>1. ASSUME NEW at, Moved(t, at), call[t].at # "idle",
             at \in Opening \cup Closing => call[t].at \in Opening \cup Closing
      PROVE  CallsApart'
  BY <1>1 DEF Moved
<1>2. ASSUME Returned(t) PROVE CallsApart'
  BY <1>2 DEF Returned, Opening, Closing
<1>3. CASE InsertLock(t) \/ Lock(t) \/ Refused(t) \/ Unlock(t) \/ RemoveEntry(t)
  BY <1>1, <1>3, LockStepMoves
  DEF LockStep, InsertLock, Lock, Refused, Unlock, RemoveEntry, Opening, Closing
<1>4. CASE AlreadyHeld(t) \/ RemoveRefused(t)
  BY <1>2, <1>4, LockStepMoves DEF LockStep
<1>5. CASE UnlockFails(t)
  <2>1. Moved(t, "leaking") \/ Moved(t, "leaked")
    BY <1>5, LockStepMoves
  <2>. QED
    BY <1>1, <1>5, <2>1 DEF UnlockFails, Opening
<1>6. CASE Close(t)
  <2>1. Moved(t, "deleting") \/ Returned(t)
    BY <1>6, LockStepMoves
  <2>. QED
    BY <1>1, <1>2, <1>6, <2>1 DEF Close, Opening, Closing
<1>7. CASE DeleteLockFile(t)
  <2>1. (Moved(t, "leaked") /\ call[t].at = "leaking") \/ Returned(t)
    BY <1>7, LockStepMoves
  <2>. QED
    BY <1>1, <1>2, <2>1 DEF Opening
<1>. QED
  BY <1>3, <1>4, <1>5, <1>6, <1>7 DEF LockStep

LEMMA OpenKeepsApart ==
    ASSUME LocksTypeOK, CallsApart, NEW t \in Callers, NEW destroys \in BOOLEAN,
           OpenLockFile(t, destroys), ~Overlaps(t, destroys)
    PROVE  CallsApart'
<1>1. \A u \in Callers \ {t} :
         /\ ~(ProcessOf[u] = ProcessOf[t] /\ call[u].at \in Opening \cup Closing)
         /\ ~(call[u].at # "idle" /\ (call[u].destroys \/ destroys))
  BY DEF Overlaps
<1>2. /\ call'[t].destroys = destroys
      /\ \A u \in Callers \ {t} : call'[u] = call[u]
  BY OpenMoves
<1>. QED
  BY <1>1, <1>2 DEF CallsApart

\* A close takes the kernel's lock only from the closing call's own process.
LEMMA CloseTakesOwn ==
    ASSUME LocksTypeOK, NEW t \in Callers, NEW f \in 1..MaxNodes, owner[f] # ProcessOf[t]
    PROVE  OwnerAfterClose(t)[f] = owner[f]
BY DEF LocksTypeOK, OwnerAfterClose

\* The other calls keep their place when a call closes a descriptor: a holder
\* of the same process would be a second call.
LEMMA CloseKeepsOthers ==
    ASSUME LocksTypeOK, CallsApart, LocksInPlace, NEW t \in Callers,
           call[t].at \in Opening \cup Closing,
           owner' = OwnerAfterClose(t), node' = node,
           call'[t].at \notin {"opened", "inserted", "held"},
           \A u \in Callers \ {t} : call'[u] = call[u]
    PROVE  LocksInPlace'
<1>. SUFFICES ASSUME NEW u \in Callers
              PROVE  /\ call'[u].at \in {"opened", "inserted", "held"} => call'[u].file = node'
                     /\ call'[u].at = "held" => owner'[call'[u].file] = ProcessOf[u]
  BY DEF LocksInPlace
<1>1. CASE u = t
  BY <1>1
<1>2. CASE u # t
  <2>1. call'[u] = call[u]
    BY <1>2
  <2>2. ASSUME call[u].at = "held" PROVE owner'[call[u].file] = ProcessOf[u]
    <3>1. call[u].at \in Opening
      BY <2>2 DEF Opening
    <3>2. ProcessOf[u] # ProcessOf[t]
      BY <1>2, <3>1 DEF CallsApart
    <3>3. call[u].file \in 1..MaxNodes
      BY <2>2 DEF LocksTypeOK
    <3>4. owner[call[u].file] = ProcessOf[u]
      BY <2>2 DEF LocksInPlace
    <3>. QED
      BY <3>2, <3>3, <3>4, CloseTakesOwn
  <2>. QED
    BY <2>1, <2>2 DEF LocksInPlace
<1>. QED
  BY <1>1, <1>2

LEMMA LockStepInPlace ==
    ASSUME LocksTypeOK, EntriesOwned, DeletersDestroy, CallsApart, LocksInPlace,
           NEW t \in Callers, LockStep(t)
    PROVE  LocksInPlace'
<1>1. CASE InsertLock(t)
  <2>1. /\ Moved(t, "inserted") /\ call[t].at = "opened" /\ UNCHANGED <<owner, node>>
    BY <1>1, LockStepMoves DEF InsertLock
  <2>. QED
    BY <2>1 DEF LocksInPlace, Moved
<1>2. CASE AlreadyHeld(t)
  <2>1. /\ Returned(t) /\ call[t].at = "opened" /\ owner' = OwnerAfterClose(t) /\ node' = node
    BY <1>2, LockStepMoves DEF AlreadyHeld
  <2>. QED
    BY <2>1, CloseKeepsOthers DEF Returned, Opening
<1>3. CASE Lock(t)
  <2>1. /\ Moved(t, "held") /\ call[t].at = "inserted" /\ node' = node
        /\ owner' = [owner EXCEPT ![call[t].file] = ProcessOf[t]]
        /\ owner[call[t].file] \in {NoProcess, ProcessOf[t]}
    BY <1>3, LockStepMoves DEF Lock, KernelGrants
  <2>2. call[t].file \in 1..MaxNodes /\ call[t].file = node
    BY <2>1 DEF LocksTypeOK, LocksInPlace
  <2>3. ASSUME NEW u \in Callers \ {t}, call[u].at = "held"
        PROVE  FALSE
    <3>1. call[u].file = node /\ owner[node] = ProcessOf[u]
      BY <2>3 DEF LocksInPlace
    <3>2. ProcessOf[u] = ProcessOf[t]
      BY <2>1, <2>2, <3>1, LocksAssumption
    <3>. QED
      BY <2>1, <2>3, <3>2 DEF EntriesOwned, Entered
  <2>4. owner'[node] = ProcessOf[t]
    BY <2>1, <2>2 DEF LocksTypeOK
  <2>. QED
    BY <2>1, <2>2, <2>3, <2>4 DEF LocksInPlace, Moved
<1>4. CASE Refused(t)
  <2>1. /\ Moved(t, "failing") /\ call[t].at = "inserted" /\ owner' = OwnerAfterClose(t)
        /\ node' = node
    BY <1>4, LockStepMoves DEF Refused
  <2>. QED
    BY <2>1, CloseKeepsOthers DEF Moved, Opening
<1>5. CASE RemoveRefused(t)
  <2>1. Returned(t) /\ UNCHANGED <<owner, node>>
    BY <1>5, LockStepMoves DEF RemoveRefused
  <2>. QED
    BY <2>1 DEF LocksInPlace, Returned
<1>6. CASE Unlock(t)
  <2>1. /\ Moved(t, "unlocked") /\ call[t].at = "held" /\ owner' = OwnerAfterClose(t)
        /\ node' = node
    BY <1>6, LockStepMoves DEF Unlock
  <2>. QED
    BY <2>1, CloseKeepsOthers DEF Moved, Opening
<1>7. CASE UnlockFails(t)
  <2>1. (Moved(t, "leaking") \/ Moved(t, "leaked")) /\ UNCHANGED <<owner, node>>
    BY <1>7, LockStepMoves DEF UnlockFails
  <2>. QED
    BY <2>1 DEF LocksInPlace, Moved
<1>8. CASE RemoveEntry(t)
  <2>1. Moved(t, "removed") /\ UNCHANGED <<owner, node>>
    BY <1>8, LockStepMoves DEF RemoveEntry
  <2>. QED
    BY <2>1 DEF LocksInPlace, Moved
<1>9. CASE Close(t)
  <2>1. /\ Moved(t, "deleting") \/ Returned(t)
        /\ call[t].at = "removed" /\ owner' = OwnerAfterClose(t) /\ node' = node
    BY <1>9, LockStepMoves DEF Close
  <2>. QED
    BY <2>1, CloseKeepsOthers DEF Moved, Returned, Closing
<1>10. CASE DeleteLockFile(t)
  <2>1. /\ Moved(t, "leaked") \/ Returned(t)
        /\ call[t].at \in {"deleting", "leaking"}
    BY <1>10, LockStepMoves DEF DeleteLockFile
  <2>2. \A u \in Callers \ {t} : call[u].at = "idle"
    BY <2>1 DEF CallsApart, DeletersDestroy
  <2>. QED
    BY <2>1, <2>2 DEF LocksInPlace, Moved, Returned
<1>. QED
  BY <1>1, <1>2, <1>3, <1>4, <1>5, <1>6, <1>7, <1>8, <1>9, <1>10 DEF LockStep

\* A LOCK that is created anew leaves nobody behind on an older file: while
\* the name is gone no call asks for the lock or has it.
LEMMA OpenInPlace ==
    ASSUME LocksTypeOK, LocksInPlace, NEW t \in Callers, NEW destroys \in BOOLEAN,
           OpenLockFile(t, destroys)
    PROVE  LocksInPlace'
<1>1. /\ call'[t].at = "opened" /\ call'[t].file = node'
      /\ \A u \in Callers \ {t} : call'[u] = call[u]
  BY OpenMoves
<1>2. owner' = owner /\ (node # 0 => node' = node)
  BY DEF OpenLockFile
<1>3. ASSUME NEW u \in Callers, call[u].at \in {"opened", "inserted", "held"}
      PROVE  node # 0
  BY <1>3 DEF LocksInPlace, LocksTypeOK
<1>. QED
  BY <1>1, <1>2, <1>3 DEF LocksInPlace

LEMMA ExitKeepsCare ==
    ASSUME LocksTypeOK, CallsApart, LocksInPlace, NEW p \in Processes, Exit(p)
    PROVE  CallsApart' /\ LocksInPlace'
<1>1. \A t \in Callers :
         /\ ProcessOf[t] = p => call'[t].at = "idle" /\ call'[t].file = 0
         /\ ProcessOf[t] # p => call'[t] = call[t]
  BY ExitMoves
<1>2. CallsApart'
  BY <1>1 DEF CallsApart, Opening, Closing
<1>3. node' = node /\ \A f \in 1..MaxNodes : owner[f] # p => owner'[f] = owner[f]
  BY DEF Exit, LocksTypeOK
<1>4. \A t \in Callers : call[t].at # "idle" => call[t].file \in 1..MaxNodes
  BY DEF LocksTypeOK
<1>5. LocksInPlace'
  BY <1>1, <1>3, <1>4 DEF LocksInPlace
<1>. QED
  BY <1>2, <1>5

LEMMA LocksNextInv == LocksInv /\ [LocksNext]_locksVars => LocksInv'
<1>. SUFFICES ASSUME LocksInv, [LocksNext]_locksVars PROVE LocksInv'
  OBVIOUS
<1>1. CASE LocksNext
  <2>1. LocksTypeOK' /\ EntriesOwned' /\ DeletersDestroy'
    BY <1>1, LocksNextType, LocksNextEntries, LocksNextDeleters DEF LocksInv
  <2>2. ASSUME ~overlapped' PROVE CallsApart' /\ LocksInPlace'
    <3>1. ASSUME NEW t \in Callers, LockStep(t) PROVE CallsApart' /\ LocksInPlace'
      <4>1. ~overlapped
        BY <2>2, <3>1 DEF LockStep, InsertLock, AlreadyHeld, Lock, Refused, RemoveRefused,
                          Unlock, UnlockFails, RemoveEntry, Close, DeleteLockFile
      <4>. QED
        BY <3>1, <4>1, LockStepKeepsApart, LockStepInPlace DEF LocksInv
    <3>2. ASSUME NEW t \in Callers, NEW destroys \in BOOLEAN, OpenLockFile(t, destroys)
          PROVE  CallsApart' /\ LocksInPlace'
      <4>1. ~overlapped /\ ~Overlaps(t, destroys)
        BY <2>2, <3>2 DEF OpenLockFile
      <4>. QED
        BY <3>2, <4>1, OpenKeepsApart, OpenInPlace DEF LocksInv
    <3>3. ASSUME NEW p \in Processes, Exit(p) PROVE CallsApart' /\ LocksInPlace'
      <4>1. ~overlapped
        BY <2>2, <3>3 DEF Exit
      <4>. QED
        BY <3>3, <4>1, ExitKeepsCare DEF LocksInv
    <3>. QED
      BY <1>1, <3>1, <3>2, <3>3 DEF LocksNext
  <2>. QED
    BY <2>1, <2>2 DEF LocksInv
<1>2. CASE UNCHANGED locksVars
  BY <1>2 DEF locksVars, LocksInv, LocksTypeOK, EntriesOwned, EntriesExplained, DeletersDestroy,
              CallsApart, LocksInPlace
<1>. QED
  BY <1>1, <1>2

\* Two holders would have the kernel's lock on the same file.
LEMMA LocksInvSuffices == LocksInv => LocksConsistent
<1>. SUFFICES ASSUME LocksInv PROVE LocksConsistent
  OBVIOUS
<1>1. LocksTypeOK /\ EntriesExplained
  BY DEF LocksInv, EntriesOwned
<1>2. OneHolderPerProcess
  BY DEF LocksInv, EntriesOwned, Entered, OneHolderPerProcess, Holders
<1>3. HolderIsLocked
  BY DEF LocksInv, LocksInPlace, HolderIsLocked, Holders
<1>4. OneHolder
  <2>. SUFFICES ASSUME ~overlapped PROVE Cardinality(Holders) <= 1
    BY DEF OneHolder
  <2>1. \A t, u \in Holders : t = u
    <3>. SUFFICES ASSUME NEW t \in Holders, NEW u \in Holders PROVE t = u
      OBVIOUS
    <3>1. ProcessOf[t] = owner[node] /\ ProcessOf[u] = owner[node]
      BY <1>3 DEF HolderIsLocked
    <3>. QED
      BY <1>2, <3>1 DEF OneHolderPerProcess
  <2>2. Holders = {} \/ \E t \in Holders : Holders = {t}
    BY <2>1
  <2>. QED
    BY <2>2, FS_EmptySet, FS_Singleton
<1>. QED
  BY <1>1, <1>2, <1>3, <1>4 DEF LocksConsistent

\* For any processes, threads and number of lock files: a database has one
\* handle per process whatever overlaps, and one in all processes, with the
\* kernel's lock on the file that is named LOCK, as long as the calls of a
\* process do not overlap; and an entry of locks_ always has a call behind it.
THEOREM LocksStayConsistent == LocksSpec => []LocksConsistent
<1>1. LocksInit => LocksInv
  <2>. SUFFICES ASSUME LocksInit PROVE LocksInv
    OBVIOUS
  <2>1. \A t \in Callers : call[t] = NoCall
    BY DEF LocksInit
  <2>2. NoCall.at = "idle" /\ NoCall.file = 0
    BY DEF NoCall
  <2>3. LocksTypeOK
    <3>1. NoCall \in [at : Places, file : 0..MaxNodes, destroys : BOOLEAN]
      BY LocksAssumption DEF NoCall, Places
    <3>. QED
      BY <2>1, <2>2, <3>1, LocksAssumption DEF LocksInit, LocksTypeOK, Places
  <2>4. EntriesOwned /\ DeletersDestroy
    BY <2>1, <2>2 DEF LocksInit, EntriesOwned, EntriesExplained, Entered, DeletersDestroy
  <2>5. CallsApart /\ LocksInPlace
    BY <2>1, <2>2 DEF CallsApart, LocksInPlace, Opening, Closing
  <2>. QED
    BY <2>3, <2>4, <2>5 DEF LocksInv
<1>. QED
  BY <1>1, LocksNextInv, LocksInvSuffices, PTL DEF LocksSpec

-----------------------------------------------------------------------------
(* The cache of open tables.                                               *)

Handle == [file : TableFiles, refs : Nat \ {0}, inCache : BOOLEAN]

UsersIn(use, h) == {t \in Threads : use[t] = h}

InCache(c) == {h \in DOMAIN c.handles : c.handles[h].inCache}

Distinct(s) == \A i, j \in 1..Len(s) : s[i] = s[j] => i = j

\* A cache of which each thread uses one handle, or none (0).  The references
\* of an entry are counted; those of the hash table that only it refers to are
\* in lru_, the others in in_use_.
GoodHandles(c, use) ==
    /\ DOMAIN c.handles \subseteq 1..MaxOpens
    /\ c.handles \in [DOMAIN c.handles -> Handle]
    /\ use \in [Threads -> {0} \cup DOMAIN c.handles]
    /\ \A h \in DOMAIN c.handles :
          c.handles[h].refs = Cardinality(UsersIn(use, h))
                                + (IF c.handles[h].inCache THEN 1 ELSE 0)

GoodTable(c) ==
    /\ c.table \in [DOMAIN c.table -> InCache(c)]
    /\ \A f \in DOMAIN c.table : c.handles[c.table[f]].file = f
    /\ \A h \in InCache(c) :
          c.handles[h].file \in DOMAIN c.table /\ c.table[c.handles[h].file] = h

GoodLists(c) ==
    /\ c.lru \in Seq(DOMAIN c.handles) /\ Distinct(c.lru)
    /\ ToSet(c.lru) = {h \in InCache(c) : c.handles[h].refs = 1}
    /\ c.inUse = {h \in InCache(c) : c.handles[h].refs # 1}

Fields(c) ==
    c = [handles |-> c.handles, lru |-> c.lru, inUse |-> c.inUse,
         table |-> c.table, usage |-> c.usage]

GoodCache(c, use) ==
    /\ Fields(c) /\ GoodHandles(c, use) /\ GoodTable(c) /\ GoodLists(c)
    /\ c.usage = Cardinality(InCache(c))

\* Every entry stays what it is: its file, and whether the cache refers to it.
SameEntries(c, d) ==
    /\ d.table = c.table /\ d.usage = c.usage
    /\ \A h \in DOMAIN d.handles : h \in DOMAIN c.handles /\ d.handles[h].file = c.handles[h].file

LEMMA UsersFinite ==
    ASSUME NEW use, NEW h
    PROVE  IsFiniteSet(UsersIn(use, h)) /\ Cardinality(UsersIn(use, h)) \in Nat
<1>1. UsersIn(use, h) \subseteq Threads
  BY DEF UsersIn
<1>. QED
  BY <1>1, FS_Subset, FS_CardinalityType, CacheAssumption

\* A thread that begins to use a handle is one user more of it, of no other.
LEMMA UserComes ==
    ASSUME NEW D, NEW use \in [Threads -> D], NEW t \in Threads, NEW h, use[t] # h
    PROVE  /\ Cardinality(UsersIn([use EXCEPT ![t] = h], h)) = Cardinality(UsersIn(use, h)) + 1
           /\ \A g : g # h /\ g # use[t] => UsersIn([use EXCEPT ![t] = h], g) = UsersIn(use, g)
<1>1. UsersIn([use EXCEPT ![t] = h], h) = UsersIn(use, h) \cup {t} /\ t \notin UsersIn(use, h)
  BY DEF UsersIn
<1>2. \A g : g # h /\ g # use[t] => UsersIn([use EXCEPT ![t] = h], g) = UsersIn(use, g)
  BY DEF UsersIn
<1>. QED
  BY <1>1, <1>2, UsersFinite, FS_AddElement

\* A thread that stops is one user less.
LEMMA UserGoes ==
    ASSUME NEW D, NEW use \in [Threads -> D], NEW t \in Threads, use[t] # 0
    PROVE  /\ Cardinality(UsersIn([use EXCEPT ![t] = 0], use[t]))
                = Cardinality(UsersIn(use, use[t])) - 1
           /\ Cardinality(UsersIn(use, use[t])) >= 1
           /\ \A g : g # 0 /\ g # use[t] => UsersIn([use EXCEPT ![t] = 0], g) = UsersIn(use, g)
<1>1. UsersIn([use EXCEPT ![t] = 0], use[t]) = UsersIn(use, use[t]) \ {t} /\ t \in UsersIn(use, use[t])
  BY DEF UsersIn
<1>2. \A g : g # 0 /\ g # use[t] => UsersIn([use EXCEPT ![t] = 0], g) = UsersIn(use, g)
  BY DEF UsersIn
<1>3. Cardinality(UsersIn(use, use[t]) \ {t}) = Cardinality(UsersIn(use, use[t])) - 1
  BY <1>1, UsersFinite, FS_RemoveElement
<1>4. Cardinality(UsersIn(use, use[t]) \ {t}) \in Nat /\ Cardinality(UsersIn(use, use[t])) \in Nat
  BY <1>1, UsersFinite, FS_RemoveElement, FS_CardinalityType
<1>5. Cardinality(UsersIn(use, use[t])) >= 1
  BY <1>3, <1>4
<1>6. Cardinality(UsersIn([use EXCEPT ![t] = 0], use[t])) = Cardinality(UsersIn(use, use[t])) - 1
  BY <1>1, <1>3
<1>. QED
  BY <1>2, <1>5, <1>6

\* The place of h in a list of distinct entries.
LEMMA Removed ==
    ASSUME NEW S, NEW s \in Seq(S), Distinct(s), NEW h
    PROVE  /\ RemoveFirst(s, h) \in Seq(S) /\ Distinct(RemoveFirst(s, h))
           /\ ToSet(RemoveFirst(s, h)) = ToSet(s) \ {h}
<1>1. CASE ~\E i \in 1..Len(s) : s[i] = h
  BY <1>1 DEF RemoveFirst, ToSet
<1>2. CASE \E i \in 1..Len(s) : s[i] = h
  <2>1. PICK i \in 1..Len(s) : s[i] = h
    BY <1>2
  <2>0. Len(s) \in Nat /\ i \in Nat
    BY <2>1
  <2>2. {j \in 1..Len(s) : s[j] = h} = {i}
    BY <2>1 DEF Distinct
  <2>3. Min({i}) = i
    BY <2>1 DEF Min
  <2>4. SelectInSeq(s, LAMBDA v : v = h) = i
    BY <2>2, <2>3 DEF SelectInSeq
  <2>5. RemoveFirst(s, h) = SubSeq(s, 1, i - 1) \o SubSeq(s, i + 1, Len(s))
    BY <1>2, <2>4 DEF RemoveFirst, RemoveAt
  <2> DEFINE r == RemoveFirst(s, h)
  <2>6. /\ r \in Seq(S) /\ Len(r) = Len(s) - 1
        /\ \A j \in 1..Len(r) : r[j] = IF j < i THEN s[j] ELSE s[j + 1]
    <3>1. /\ SubSeq(s, 1, i - 1) \in Seq(S) /\ Len(SubSeq(s, 1, i - 1)) = i - 1
          /\ \A j \in 1..i - 1 : SubSeq(s, 1, i - 1)[j] = s[j]
      BY <2>1
    <3>2. /\ SubSeq(s, i + 1, Len(s)) \in Seq(S) /\ Len(SubSeq(s, i + 1, Len(s))) = Len(s) - i
          /\ \A j \in 1..Len(s) - i : SubSeq(s, i + 1, Len(s))[j] = s[i + j]
      BY <2>1
    <3> HIDE DEF r
    <3>3. r = SubSeq(s, 1, i - 1) \o SubSeq(s, i + 1, Len(s))
      BY <2>5 DEF r
    <3> DEFINE a == SubSeq(s, 1, i - 1)
               b == SubSeq(s, i + 1, Len(s))
    <3> HIDE DEF a, b
    <3>4. /\ a \in Seq(S) /\ Len(a) = i - 1 /\ b \in Seq(S) /\ Len(b) = Len(s) - i
          /\ \A j \in 1..i - 1 : a[j] = s[j]
          /\ \A j \in 1..Len(s) - i : b[j] = s[i + j]
      BY <3>1, <3>2 DEF a, b
    <3>5. /\ r \in Seq(S) /\ Len(r) = Len(a) + Len(b)
          /\ \A j \in 1..Len(a) + Len(b) : r[j] = IF j <= Len(a) THEN a[j] ELSE b[j - Len(a)]
      BY <3>3, <3>4, ConcatProperties DEF a, b
    <3>6. Len(s) \in Nat /\ Len(r) = Len(s) - 1
      BY <2>1, <3>4, <3>5
    <3>7. ASSUME NEW j \in 1..Len(r) PROVE r[j] = IF j < i THEN s[j] ELSE s[j + 1]
      <4>1. CASE j < i
        BY <2>1, <3>4, <3>5, <3>6, <4>1
      <4>2. CASE j >= i
        <5>1. j - (i - 1) \in 1..Len(s) - i /\ i + (j - (i - 1)) = j + 1
          BY <2>1, <3>6, <4>2
        <5>. QED
          BY <2>1, <3>4, <3>5, <3>6, <4>2, <5>1
      <4>. QED
        BY <2>1, <3>6, <4>1, <4>2
    <3>. QED
      BY <3>5, <3>6, <3>7
  <2> HIDE DEF r
  <2>7. Distinct(r)
    <3>1. ASSUME NEW j \in 1..Len(r), NEW k \in 1..Len(r), r[j] = r[k] PROVE j = k
      <4> DEFINE at(x) == IF x < i THEN x ELSE x + 1
      <4>1. /\ at(j) \in 1..Len(s) /\ r[j] = s[at(j)]
            /\ at(k) \in 1..Len(s) /\ r[k] = s[at(k)]
        BY <2>1, <2>6
      <4>2. at(j) = at(k)
        BY <3>1, <4>1 DEF Distinct
      <4>. QED
        BY <2>1, <4>2
    <3>. QED
      BY <3>1 DEF Distinct
  <2>8. ToSet(r) = ToSet(s) \ {h}
    <3>1. ASSUME NEW j \in 1..Len(r) PROVE r[j] \in ToSet(s) \ {h}
      <4>1. PICK k \in 1..Len(s) : r[j] = s[k] /\ k # i
        <5>1. CASE j < i
          BY <2>0, <2>1, <2>6, <5>1
        <5>2. CASE j >= i
          BY <2>0, <2>1, <2>6, <5>2
        <5>. QED
          BY <2>0, <2>1, <2>6, <5>1, <5>2
      <4>. QED
        BY <2>1, <4>1 DEF Distinct, ToSet
    <3>2. ASSUME NEW x \in ToSet(s) \ {h} PROVE x \in ToSet(r)
      <4>1. PICK j \in 1..Len(s) : s[j] = x
        BY <3>2 DEF ToSet
      <4>2. j < i => j \in 1..Len(r) /\ r[j] = x
        BY <2>0, <2>1, <2>6, <4>1
      <4>3. j > i => j - 1 \in 1..Len(r) /\ r[j - 1] = x
        BY <2>0, <2>1, <2>6, <4>1
      <4>4. j # i
        BY <2>1, <3>2, <4>1
      <4>5. j < i \/ j > i
        BY <2>0, <4>1, <4>4
      <4>6. \E k \in 1..Len(r) : r[k] = x
        BY <4>2, <4>3, <4>5
      <4>. QED
        BY <4>6 DEF ToSet
    <3>3. ToSet(r) \subseteq ToSet(s) \ {h}
      BY <3>1 DEF ToSet
    <3>. QED
      BY <3>2, <3>3
  <2>. QED
    BY <2>6, <2>7, <2>8 DEF r
<1>. QED
  BY <1>1, <1>2

LEMMA Appended ==
    ASSUME NEW S, NEW s \in Seq(S), Distinct(s), NEW h \in S, h \notin ToSet(s)
    PROVE  /\ Append(s, h) \in Seq(S) /\ Distinct(Append(s, h))
           /\ ToSet(Append(s, h)) = ToSet(s) \cup {h}
<1> DEFINE r == Append(s, h)
<1>1. /\ r \in Seq(S) /\ Len(s) \in Nat /\ Len(r) = Len(s) + 1
      /\ r[Len(r)] = h /\ \A i \in 1..Len(s) : r[i] = s[i]
  BY AppendProperties
<1>2. \A i \in 1..Len(s) : s[i] # h
  BY DEF ToSet
<1> HIDE DEF r
<1>3. Distinct(r)
  BY <1>1, <1>2 DEF Distinct
<1>4. ToSet(r) = ToSet(s) \cup {h}
  <2>1. \A i \in 1..Len(r) : i \in 1..Len(s) \/ i = Len(r)
    BY <1>1
  <2>2. 1..Len(s) \subseteq 1..Len(r) /\ Len(r) \in 1..Len(r)
    BY <1>1
  <2>. QED
    BY <1>1, <2>1, <2>2 DEF ToSet
<1>. QED
  BY <1>1, <1>3, <1>4 DEF r

LEMMA CacheFinite ==
    ASSUME NEW c, NEW use, GoodCache(c, use)
    PROVE  IsFiniteSet(InCache(c)) /\ Cardinality(InCache(c)) \in Nat
<1>1. InCache(c) \subseteq 1..MaxOpens
  BY DEF InCache, GoodCache, GoodHandles
<1>2. IsFiniteSet(1..MaxOpens)
  BY FS_Interval, CacheAssumption
<1>. QED
  BY <1>1, <1>2, FS_Subset, FS_CardinalityType

\* What Ref takes from lru_ is one entry, and one user comes.
LEMMA RefGood ==
    ASSUME NEW c, NEW use, GoodCache(c, use), NEW t \in Threads, use[t] = 0,
           NEW h \in DOMAIN c.handles
    PROVE  /\ GoodCache(Ref(c, h), [use EXCEPT ![t] = h])
           /\ SameEntries(c, Ref(c, h)) /\ DOMAIN Ref(c, h).handles = DOMAIN c.handles
<1> DEFINE d == Ref(c, h)
           moves == c.handles[h].refs = 1 /\ c.handles[h].inCache
           used == [use EXCEPT ![t] = h]
<1>1. /\ d = [handles |-> d.handles, lru |-> d.lru, inUse |-> d.inUse,
              table |-> d.table, usage |-> d.usage]
      /\ d.handles = [c.handles EXCEPT ![h].refs = @ + 1]
      /\ d.lru = IF moves THEN RemoveFirst(c.lru, h) ELSE c.lru
      /\ d.inUse = IF moves THEN c.inUse \cup {h} ELSE c.inUse
      /\ d.table = c.table /\ d.usage = c.usage
  <2>1. PICK a, l, u, b, n :
           c = [handles |-> a, lru |-> l, inUse |-> u, table |-> b, usage |-> n]
    BY DEF GoodCache, Fields
  <2>2. d = [handles |-> [a EXCEPT ![h].refs = @ + 1],
             lru |-> IF moves THEN RemoveFirst(l, h) ELSE l,
             inUse |-> IF moves THEN u \cup {h} ELSE u, table |-> b, usage |-> n]
    <3>1. c.handles = a /\ c.lru = l /\ c.inUse = u
      BY <2>1
    <3> HIDE DEF moves
    <3>2. d = [c EXCEPT !.handles[h].refs = @ + 1,
                        !.lru = IF moves THEN RemoveFirst(@, h) ELSE @,
                        !.inUse = IF moves THEN @ \cup {h} ELSE @]
      BY DEF Ref, moves
    <3>. QED
      BY <2>1, <3>2
  <2>3. /\ c.handles = a /\ c.lru = l /\ c.inUse = u /\ c.table = b /\ c.usage = n
        /\ d.handles = [a EXCEPT ![h].refs = @ + 1]
        /\ d.lru = IF moves THEN RemoveFirst(l, h) ELSE l
        /\ d.inUse = IF moves THEN u \cup {h} ELSE u
        /\ d.table = b /\ d.usage = n
    <3> HIDE DEF moves, d
    <3>. QED
      BY <2>1, <2>2
  <2> HIDE DEF moves, d
  <2>. QED
    BY <2>2, <2>3
<1> HIDE DEF d
<1>2. GoodHandles(c, use) /\ GoodTable(c) /\ GoodLists(c)
  BY DEF GoodCache
<1>3. /\ DOMAIN d.handles = DOMAIN c.handles
      /\ c.handles[h].refs \in Nat
      /\ d.handles[h] = [file |-> c.handles[h].file, refs |-> c.handles[h].refs + 1,
                         inCache |-> c.handles[h].inCache]
      /\ \A g \in DOMAIN c.handles \ {h} : d.handles[g] = c.handles[g]
      /\ d.handles \in [DOMAIN c.handles -> Handle]
  BY <1>1, <1>2 DEF GoodHandles, Handle
<1>4. h # 0 /\ InCache(d) = InCache(c)
  BY <1>1, <1>2, <1>3 DEF InCache, GoodHandles
<1>5. GoodHandles(d, used)
  <2>1. used \in [Threads -> {0} \cup DOMAIN d.handles] /\ DOMAIN d.handles \subseteq 1..MaxOpens
    BY <1>2, <1>3 DEF GoodHandles
  <2>2. /\ Cardinality(UsersIn(used, h)) = Cardinality(UsersIn(use, h)) + 1
        /\ \A g \in DOMAIN c.handles \ {h} : UsersIn(used, g) = UsersIn(use, g)
    <3>1. use \in [Threads -> {0} \cup DOMAIN c.handles] /\ 0 \notin DOMAIN c.handles
      BY <1>2 DEF GoodHandles
    <3>2. use[t] # h
      BY <1>4
    <3>3. /\ Cardinality(UsersIn(used, h)) = Cardinality(UsersIn(use, h)) + 1
          /\ \A g : g # h /\ g # use[t] => UsersIn(used, g) = UsersIn(use, g)
      BY <3>1, <3>2, UserComes
    <3>. QED
      BY <3>1, <3>3
  <2>3. ASSUME NEW g \in DOMAIN d.handles
        PROVE  d.handles[g].refs = Cardinality(UsersIn(used, g))
                                     + (IF d.handles[g].inCache THEN 1 ELSE 0)
    <3>1. CASE g = h
      <4>1. Cardinality(UsersIn(use, h)) \in Nat
        BY UsersFinite
      <4>2. c.handles[h].refs = Cardinality(UsersIn(use, h)) + (IF c.handles[h].inCache THEN 1 ELSE 0)
        BY <1>2 DEF GoodHandles
      <4> HIDE DEF used
      <4>. QED
        BY <1>3, <2>2, <3>1, <4>1, <4>2
    <3>2. CASE g # h
      <4> HIDE DEF used
      <4>. QED
        BY <1>2, <1>3, <2>2, <3>2 DEF GoodHandles
    <3>. QED
      BY <3>1, <3>2
  <2>. QED
    BY <1>3, <2>1, <2>3 DEF GoodHandles
<1>6. GoodTable(d)
  BY <1>1, <1>2, <1>3, <1>4 DEF GoodTable
<1>7. GoodLists(d)
  <2>1. CASE moves
    <3>1. /\ d.lru \in Seq(DOMAIN d.handles) /\ Distinct(d.lru)
          /\ ToSet(d.lru) = ToSet(c.lru) \ {h}
      BY <1>1, <1>2, <1>3, <2>1, Removed DEF GoodLists
    <3>. QED
      BY <1>1, <1>2, <1>3, <1>4, <2>1, <3>1 DEF GoodLists, InCache, GoodHandles, Handle
  <2>2. CASE ~moves
    <3>1. h \notin InCache(c) \/ (c.handles[h].refs # 1 /\ c.handles[h].refs + 1 # 1)
      <4>1. c.handles[h].refs \in Nat \ {0}
        BY <1>2 DEF GoodHandles, Handle
      <4>. QED
        BY <2>2, <4>1 DEF InCache
    <3>2. {g \in InCache(d) : d.handles[g].refs = 1} = {g \in InCache(c) : c.handles[g].refs = 1}
      BY <1>3, <1>4, <3>1 DEF InCache
    <3>3. {g \in InCache(d) : d.handles[g].refs # 1} = {g \in InCache(c) : c.handles[g].refs # 1}
      BY <1>3, <1>4, <3>1 DEF InCache
    <3>. QED
      BY <1>1, <1>2, <1>3, <2>2, <3>2, <3>3 DEF GoodLists
  <2>. QED
    BY <2>1, <2>2
<1>8. d.usage = Cardinality(InCache(d))
  BY <1>1, <1>4 DEF GoodCache
<1>9. SameEntries(c, d)
  BY <1>1, <1>3 DEF SameEntries
<1>. QED
  BY <1>1, <1>3, <1>5, <1>6, <1>7, <1>8, <1>9 DEF GoodCache, Fields, d

\* Unref by a thread that used the handle: without it and the cache the entry
\* is freed; with the cache alone it goes to the end of lru_.
LEMMA UnrefGood ==
    ASSUME NEW c, NEW use, GoodCache(c, use), NEW t \in Threads, use[t] # 0
    PROVE  /\ GoodCache(Unref(c, use[t]), [use EXCEPT ![t] = 0])
           /\ SameEntries(c, Unref(c, use[t]))
<1> DEFINE h == use[t]
           d == Unref(c, h)
           left == c.handles[h].refs - 1
           unused == [use EXCEPT ![t] = 0]
<1>1. GoodHandles(c, use) /\ GoodTable(c) /\ GoodLists(c)
  BY DEF GoodCache
<1>2. h \in DOMAIN c.handles /\ h # 0 /\ 0 \notin DOMAIN c.handles
  BY <1>1 DEF GoodHandles
<1>3. /\ Cardinality(UsersIn(unused, h)) = Cardinality(UsersIn(use, h)) - 1
      /\ Cardinality(UsersIn(use, h)) \in Nat /\ Cardinality(UsersIn(use, h)) >= 1
      /\ \A g \in DOMAIN c.handles \ {h} : UsersIn(unused, g) = UsersIn(use, g)
  <2>1. use \in [Threads -> {0} \cup DOMAIN c.handles]
    BY <1>1 DEF GoodHandles
  <2>2. /\ Cardinality(UsersIn(unused, h)) = Cardinality(UsersIn(use, h)) - 1
        /\ Cardinality(UsersIn(use, h)) >= 1
        /\ \A g : g # 0 /\ g # h => UsersIn(unused, g) = UsersIn(use, g)
    BY <2>1, UserGoes
  <2>. QED
    BY <1>2, <2>2, UsersFinite
<1>4. c.handles[h].refs = Cardinality(UsersIn(use, h)) + (IF c.handles[h].inCache THEN 1 ELSE 0)
  BY <1>1, <1>2 DEF GoodHandles
<1>5. c.handles[h] \in Handle /\ c.handles[h].refs \in Nat \ {0}
  BY <1>1, <1>2 DEF GoodHandles, Handle
<1>6. PICK a, l, u, b, n :
         c = [handles |-> a, lru |-> l, inUse |-> u, table |-> b, usage |-> n]
  BY DEF GoodCache, Fields
<1>7. c.handles = a /\ c.lru = l /\ c.inUse = u /\ c.table = b /\ c.usage = n
  BY <1>6
<1>8. unused \in [Threads -> {0} \cup DOMAIN c.handles] /\ unused[t] = 0
  BY <1>1 DEF GoodHandles
<1>9. CASE left = 0
  <2>1. d = [handles |-> Without(a, h), lru |-> l, inUse |-> u, table |-> b, usage |-> n]
    <3>1. d = [c EXCEPT !.handles = Without(@, h)]
      BY <1>9 DEF Unref
    <3> HIDE DEF d
    <3>. QED
      BY <1>6, <3>1
  <2> HIDE DEF d
  <2>2. /\ d.handles = Without(a, h) /\ d.lru = l /\ d.inUse = u /\ d.table = b /\ d.usage = n
    BY <2>1
  <2>3. /\ DOMAIN d.handles = DOMAIN c.handles \ {h}
        /\ \A g \in DOMAIN d.handles : d.handles[g] = c.handles[g]
        /\ d.handles \in [DOMAIN d.handles -> Handle]
    BY <1>1, <1>7, <2>2 DEF Without, Restrict, GoodHandles
  <2>4. ~c.handles[h].inCache /\ Cardinality(UsersIn(unused, h)) = 0
    BY <1>3, <1>4, <1>5, <1>9
  <2>5. InCache(d) = InCache(c) /\ h \notin InCache(c)
    BY <2>3, <2>4 DEF InCache
  <2>6. GoodHandles(d, unused)
    <3>1. UsersIn(unused, h) = {}
      BY <2>4, UsersFinite, FS_EmptySet
    <3>2. unused \in [Threads -> {0} \cup DOMAIN d.handles]
      <4>1. \A s \in Threads : unused[s] # h
        BY <3>1 DEF UsersIn
      <4>. QED
        BY <1>8, <2>3, <4>1
    <3>3. \A g \in DOMAIN d.handles :
             d.handles[g].refs = Cardinality(UsersIn(unused, g))
                                   + (IF d.handles[g].inCache THEN 1 ELSE 0)
      <4> HIDE DEF unused, h
      <4>. QED
        BY <1>1, <1>3, <2>3 DEF GoodHandles
    <3>4. DOMAIN d.handles \subseteq 1..MaxOpens
      BY <1>1, <2>3 DEF GoodHandles
    <3>. QED
      BY <2>3, <3>2, <3>3, <3>4 DEF GoodHandles
  <2>7. InCache(c) \subseteq DOMAIN d.handles
    BY <2>3, <2>5 DEF InCache
  <2>8. GoodTable(d)
    BY <1>1, <1>7, <2>2, <2>3, <2>5, <2>7 DEF GoodTable
  <2>9. GoodLists(d)
    <3>1. c.lru \in Seq(InCache(c))
      <4>1. ToSet(c.lru) \subseteq InCache(c) /\ c.lru \in Seq(DOMAIN c.handles)
        BY <1>1 DEF GoodLists
      <4>2. \A i \in 1..Len(c.lru) : c.lru[i] \in InCache(c)
        BY <4>1 DEF ToSet
      <4>. QED
        BY <4>1, <4>2
    <3>2. d.lru \in Seq(DOMAIN d.handles)
      BY <1>7, <2>2, <2>7, <3>1
    <3>3. /\ {g \in InCache(d) : d.handles[g].refs = 1} = {g \in InCache(c) : c.handles[g].refs = 1}
          /\ {g \in InCache(d) : d.handles[g].refs # 1} = {g \in InCache(c) : c.handles[g].refs # 1}
      BY <2>3, <2>5, <2>7
    <3>. QED
      BY <1>1, <1>7, <2>2, <3>2, <3>3 DEF GoodLists
  <2>10. SameEntries(c, d) /\ d.usage = Cardinality(InCache(d)) /\ Fields(d)
    BY <1>7, <2>1, <2>2, <2>3, <2>5 DEF SameEntries, Fields, GoodCache
  <2>. QED
    BY <2>6, <2>8, <2>9, <2>10 DEF GoodCache, d
<1>10. CASE left # 0
  <2> DEFINE idles == left = 1 /\ c.handles[h].inCache
  <2>1. d = [handles |-> [a EXCEPT ![h].refs = left],
             lru |-> IF idles THEN Append(l, h) ELSE l,
             inUse |-> IF idles THEN u \ {h} ELSE u, table |-> b, usage |-> n]
    <3>1. d = IF idles THEN [c EXCEPT !.handles[h].refs = 1, !.inUse = @ \ {h}, !.lru = Append(@, h)]
              ELSE [c EXCEPT !.handles[h].refs = left]
      BY <1>10 DEF Unref
    <3>2. CASE idles
      <4>1. d = [c EXCEPT !.handles[h].refs = left, !.inUse = @ \ {h}, !.lru = Append(@, h)]
        BY <3>1, <3>2
      <4> HIDE DEF d, left, h, idles
      <4>. QED
        BY <1>6, <3>2, <4>1
    <3>3. CASE ~idles
      <4>1. d = [c EXCEPT !.handles[h].refs = left]
        BY <3>1, <3>3
      <4> HIDE DEF d, left, h, idles
      <4>. QED
        BY <1>6, <3>3, <4>1
    <3>. QED
      BY <3>2, <3>3
  <2> HIDE DEF d
  <2>2. /\ d.handles = [a EXCEPT ![h].refs = left] /\ d.table = b /\ d.usage = n
        /\ d.lru = IF idles THEN Append(l, h) ELSE l
        /\ d.inUse = IF idles THEN u \ {h} ELSE u
    <3> HIDE DEF left, h, idles
    <3>. QED
      BY <2>1
  <2>3. /\ DOMAIN d.handles = DOMAIN c.handles
        /\ left \in Nat \ {0}
        /\ d.handles[h] = [file |-> c.handles[h].file, refs |-> left,
                           inCache |-> c.handles[h].inCache]
        /\ \A g \in DOMAIN c.handles \ {h} : d.handles[g] = c.handles[g]
        /\ d.handles \in [DOMAIN c.handles -> Handle]
    <3>1. left \in Nat \ {0}
      BY <1>5, <1>10
    <3> HIDE DEF left, h
    <3>. QED
      BY <1>1, <1>2, <1>5, <1>7, <2>2, <3>1 DEF GoodHandles, Handle
  <2>4. InCache(d) = InCache(c)
    BY <1>2, <2>3 DEF InCache
  <2>5. GoodHandles(d, unused)
    <3>1. ASSUME NEW g \in DOMAIN d.handles
          PROVE  d.handles[g].refs = Cardinality(UsersIn(unused, g))
                                       + (IF d.handles[g].inCache THEN 1 ELSE 0)
      <4>1. CASE g = h
        <5>1. left = Cardinality(UsersIn(unused, h)) + (IF c.handles[h].inCache THEN 1 ELSE 0)
          BY <1>3, <1>4
        <5> HIDE DEF left, unused, h
        <5>. QED
          BY <2>3, <4>1, <5>1
      <4>2. CASE g # h
        <5> HIDE DEF left, unused, h
        <5>. QED
          BY <1>1, <1>3, <2>3, <4>2 DEF GoodHandles
      <4>. QED
        BY <4>1, <4>2
    <3>2. unused \in [Threads -> {0} \cup DOMAIN d.handles] /\ DOMAIN d.handles \subseteq 1..MaxOpens
      BY <1>1, <1>8, <2>3 DEF GoodHandles
    <3>. QED
      BY <2>3, <3>1, <3>2 DEF GoodHandles
  <2>6. GoodTable(d)
    BY <1>1, <1>2, <1>7, <2>2, <2>3, <2>4 DEF GoodTable
  <2>7. GoodLists(d)
    <3>1. c.lru \in Seq(DOMAIN c.handles) /\ Distinct(c.lru)
      BY <1>1 DEF GoodLists
    <3>2. c.handles[h].refs # 1 /\ h \notin ToSet(c.lru)
      BY <1>1, <1>10, <1>5 DEF GoodLists
    <3>3. CASE idles
      <4>1. /\ d.lru \in Seq(DOMAIN d.handles) /\ Distinct(d.lru)
            /\ ToSet(d.lru) = ToSet(c.lru) \cup {h}
        BY <1>2, <1>7, <2>2, <2>3, <3>1, <3>2, <3>3, Appended
      <4>2. h \in InCache(c)
        BY <1>2, <3>3 DEF InCache
      <4>3. d.handles[h].refs = 1
        BY <2>3, <3>3
      <4>4. \A g \in InCache(d) \ {h} : d.handles[g] = c.handles[g]
        BY <2>3, <2>4 DEF InCache
      <4> HIDE DEF left, h
      <4>5. {g \in InCache(d) : d.handles[g].refs = 1}
              = {g \in InCache(c) : c.handles[g].refs = 1} \cup {h}
        BY <2>4, <4>2, <4>3, <4>4
      <4>6. {g \in InCache(d) : d.handles[g].refs # 1}
              = {g \in InCache(c) : c.handles[g].refs # 1} \ {h}
        BY <2>4, <4>2, <4>3, <4>4
      <4>7. d.inUse = c.inUse \ {h}
        BY <1>7, <2>2, <3>3
      <4>. QED
        BY <1>1, <4>1, <4>5, <4>6, <4>7 DEF GoodLists
    <3>4. CASE ~idles
      <4>1. h \in InCache(c) => d.handles[h].refs # 1
        BY <2>3, <3>4 DEF InCache
      <4>2. \A g \in InCache(d) \ {h} : d.handles[g] = c.handles[g]
        BY <2>3, <2>4 DEF InCache
      <4>3. d.lru = c.lru /\ d.inUse = c.inUse
        BY <1>7, <2>2, <3>4
      <4> HIDE DEF left, h, idles
      <4>4. /\ {g \in InCache(d) : d.handles[g].refs = 1} = {g \in InCache(c) : c.handles[g].refs = 1}
            /\ {g \in InCache(d) : d.handles[g].refs # 1} = {g \in InCache(c) : c.handles[g].refs # 1}
        BY <2>4, <3>2, <4>1, <4>2
      <4>. QED
        BY <1>1, <2>3, <4>3, <4>4 DEF GoodLists
    <3>. QED
      BY <3>3, <3>4
  <2>8. d.usage = Cardinality(InCache(d)) /\ Fields(d)
    <3> HIDE DEF left, h, idles
    <3>1. d = [handles |-> d.handles, lru |-> d.lru, inUse |-> d.inUse,
               table |-> d.table, usage |-> d.usage]
      BY <2>1, <2>2
    <3>. QED
      BY <1>7, <2>2, <2>4, <3>1 DEF Fields, GoodCache
  <2>9. SameEntries(c, d)
    BY <1>7, <2>2, <2>3 DEF SameEntries
  <2>. QED
    BY <2>5, <2>6, <2>7, <2>8, <2>9 DEF GoodCache, d
<1>. QED
  BY <1>9, <1>10

\* d is what FinishErase leaves of c once the hash table is as rest.
Finished(c, rest, H, left, d) == d = FinishErase([c EXCEPT !.table = rest], H, left)

\* The entries H leave c, which becomes d with lru_ as left and the hash table as rest.
Leave(c, H, left, rest, d) ==
    /\ H \in SUBSET InCache(c)
    /\ left \in Seq(DOMAIN c.handles) /\ Distinct(left) /\ ToSet(left) = ToSet(c.lru) \ H
    /\ rest = Restrict(c.table, {f \in DOMAIN c.table : c.table[f] \notin H})
    /\ Finished(c, rest, H, left, d)

\* FinishErase: entries leave the cache, and the users of those that have some
\* keep them.
LEMMA EraseGood ==
    ASSUME NEW c, NEW use, GoodCache(c, use), NEW H, NEW left, NEW rest, NEW d,
           Leave(c, H, left, rest, d)
    PROVE  /\ GoodCache(d, use)
           /\ d.table = rest /\ d.lru = left /\ d.inUse = c.inUse \ H
           /\ InCache(d) = InCache(c) \ H /\ DOMAIN d.handles \subseteq DOMAIN c.handles
           /\ \A h \in DOMAIN d.handles : d.handles[h].file = c.handles[h].file
<1> USE DEF Leave
<1> DEFINE freed == {h \in H : c.handles[h].refs = 1}
           Left(h) == IF h \in H THEN [c.handles[h] EXCEPT !.refs = @ - 1, !.inCache = FALSE]
                      ELSE c.handles[h]
<1>1. GoodHandles(c, use) /\ GoodTable(c) /\ GoodLists(c)
  BY DEF GoodCache
<1>2. PICK a, l, u, b, n :
         c = [handles |-> a, lru |-> l, inUse |-> u, table |-> b, usage |-> n]
  BY DEF GoodCache, Fields
<1>3. c.handles = a /\ c.lru = l /\ c.inUse = u /\ c.table = b /\ c.usage = n
  BY <1>2
<1>4. d = [handles |-> [h \in DOMAIN a \ freed |-> Left(h)], lru |-> left,
           inUse |-> u \ H, table |-> rest, usage |-> n - Cardinality(H)]
  <2> DEFINE e == [c EXCEPT !.table = rest]
  <2>1. e = [handles |-> a, lru |-> l, inUse |-> u, table |-> rest, usage |-> n]
    BY <1>2
  <2>2. e.handles = c.handles
    BY <2>1, <1>3
  <2> DEFINE new == [h \in DOMAIN a \ freed |-> Left(h)]
  <2>3. d = [e EXCEPT !.handles = new, !.inUse = @ \ H, !.lru = left,
                      !.usage = @ - Cardinality(H)]
    <3> DEFINE its == [h \in DOMAIN e.handles \ {h \in H : e.handles[h].refs = 1} |->
                          IF h \in H THEN [e.handles[h] EXCEPT !.refs = @ - 1, !.inCache = FALSE]
                          ELSE e.handles[h]]
    <3>1. d = FinishErase(e, H, left)
      BY DEF Finished
    <3> HIDE DEF e
    <3>2. d = [e EXCEPT !.handles = its, !.inUse = @ \ H, !.lru = left,
                        !.usage = @ - Cardinality(H)]
      BY <3>1 DEF FinishErase
    <3>3. its = new
      BY <1>3, <2>2
    <3> HIDE DEF its, new
    <3>. QED
      BY <3>2, <3>3
  <2> HIDE DEF e, new
  <2>4. d = [handles |-> new, lru |-> left, inUse |-> u \ H, table |-> rest,
             usage |-> n - Cardinality(H)]
    BY <2>1, <2>3
  <2>. QED
    BY <2>4 DEF new
<1>5. /\ d.handles = [h \in DOMAIN c.handles \ freed |-> Left(h)] /\ d.lru = left
      /\ d.inUse = c.inUse \ H /\ d.table = rest /\ d.usage = c.usage - Cardinality(H)
  <2> DEFINE new == [h \in DOMAIN a \ freed |-> Left(h)]
  <2>1. d = [handles |-> new, lru |-> left, inUse |-> u \ H, table |-> rest,
             usage |-> n - Cardinality(H)]
    BY <1>4
  <2>2. new = [h \in DOMAIN c.handles \ freed |-> Left(h)]
    BY <1>3
  <2> DEFINE now == n - Cardinality(H)
  <2> HIDE DEF new, freed, Left, now
  <2>3. d.handles = new /\ d.lru = left /\ d.inUse = u \ H /\ d.table = rest /\ d.usage = now
    <3>1. d = [handles |-> new, lru |-> left, inUse |-> u \ H, table |-> rest, usage |-> now]
      BY <2>1 DEF now
    <3>. QED
      BY <3>1
  <2>. QED
    BY <1>3, <2>2, <2>3 DEF now
<1>6. Fields(d)
  <2> DEFINE new == [h \in DOMAIN a \ freed |-> Left(h)]
  <2>1. d = [handles |-> new, lru |-> left, inUse |-> u \ H, table |-> rest,
             usage |-> n - Cardinality(H)]
    BY <1>4
  <2> HIDE DEF new
  <2>. QED
    BY <2>1 DEF Fields
<1>7. /\ DOMAIN d.handles = DOMAIN c.handles \ freed
      /\ \A h \in DOMAIN d.handles : d.handles[h] = Left(h)
  BY <1>5
<1>8. ASSUME NEW h \in H
      PROVE  /\ h \in DOMAIN c.handles /\ c.handles[h] \in Handle /\ c.handles[h].inCache
             /\ c.handles[h].refs \in Nat \ {0}
             /\ Left(h) = [file |-> c.handles[h].file, refs |-> c.handles[h].refs - 1,
                           inCache |-> FALSE]
  <2>1. h \in DOMAIN c.handles /\ c.handles[h] \in Handle /\ c.handles[h].inCache
    BY <1>1 DEF InCache, GoodHandles
  <2>. QED
    BY <2>1 DEF Handle
<1>9. ASSUME NEW h \in DOMAIN d.handles
      PROVE  /\ h \in DOMAIN c.handles /\ d.handles[h] \in Handle
             /\ d.handles[h].file = c.handles[h].file
             /\ h \notin H => d.handles[h] = c.handles[h]
             /\ h \in H => /\ ~d.handles[h].inCache
                           /\ d.handles[h].refs = c.handles[h].refs - 1
  <2>1. CASE h \in H
    <3>1. c.handles[h].refs # 1 /\ d.handles[h] = Left(h)
      BY <1>7, <2>1
    <3>2. c.handles[h] \in Handle /\ c.handles[h].refs \in Nat \ {0}
      BY <1>8, <2>1
    <3>3. c.handles[h].refs - 1 \in Nat \ {0}
      BY <3>1, <3>2
    <3>4. c.handles[h].file \in TableFiles
      BY <3>2 DEF Handle
    <3>5. d.handles[h] = [file |-> c.handles[h].file, refs |-> c.handles[h].refs - 1,
                          inCache |-> FALSE]
      BY <1>8, <2>1, <3>1
    <3> DEFINE refs == c.handles[h].refs - 1
    <3>6. refs \in Nat \ {0} /\ d.handles[h] = [file |-> c.handles[h].file, refs |-> refs,
                                                 inCache |-> FALSE]
      BY <3>3, <3>5
    <3> HIDE DEF Left, refs
    <3>7. /\ d.handles[h] \in Handle /\ d.handles[h].file = c.handles[h].file
          /\ ~d.handles[h].inCache /\ d.handles[h].refs = refs
      BY <3>4, <3>6 DEF Handle
    <3>. QED
      BY <1>8, <2>1, <3>7 DEF refs
  <2>2. CASE h \notin H
    <3>1. h \in DOMAIN c.handles /\ d.handles[h] = c.handles[h]
      BY <1>7, <2>2
    <3>. QED
      BY <1>1, <2>2, <3>1 DEF GoodHandles
  <2>. QED
    BY <2>1, <2>2
<1>10. InCache(d) = InCache(c) \ H
  <2>1. ASSUME NEW h \in InCache(c) \ H PROVE h \in InCache(d)
    BY <1>7, <1>9, <2>1 DEF InCache
  <2>2. ASSUME NEW h \in InCache(d) PROVE h \in InCache(c) \ H
    BY <1>9, <2>2 DEF InCache
  <2>. QED
    BY <2>1, <2>2
<1>11. ASSUME NEW h \in InCache(d) PROVE h \in DOMAIN d.handles /\ d.handles[h] = c.handles[h]
  BY <1>9, <1>10 DEF InCache
<1> HIDE DEF Left
<1>12. GoodHandles(d, use)
  <2>1. d.handles \in [DOMAIN d.handles -> Handle]
    <3>1. d.handles = [h \in DOMAIN d.handles |-> d.handles[h]]
      BY <1>5
    <3>. QED
      BY <1>9, <3>1
  <2>2. \A h \in freed : UsersIn(use, h) = {}
    <3>1. ASSUME NEW h \in freed PROVE UsersIn(use, h) = {}
      <4>1. 1 = Cardinality(UsersIn(use, h)) + 1
        BY <1>1, <1>8 DEF GoodHandles
      <4>. QED
        BY <4>1, UsersFinite, FS_EmptySet
    <3>. QED
      BY <3>1
  <2>3. use \in [Threads -> {0} \cup DOMAIN d.handles]
    <3>1. \A t \in Threads : use[t] \notin freed
      BY <2>2 DEF UsersIn
    <3>. QED
      BY <1>1, <1>7, <3>1 DEF GoodHandles
  <2>4. ASSUME NEW h \in DOMAIN d.handles
        PROVE  d.handles[h].refs = Cardinality(UsersIn(use, h))
                                     + (IF d.handles[h].inCache THEN 1 ELSE 0)
    <3>1. c.handles[h].refs = Cardinality(UsersIn(use, h))
                                + (IF c.handles[h].inCache THEN 1 ELSE 0)
      BY <1>1, <1>9 DEF GoodHandles
    <3>2. Cardinality(UsersIn(use, h)) \in Nat
      BY UsersFinite
    <3>3. CASE h \in H
      <4>1. c.handles[h].inCache /\ c.handles[h].refs \in Nat
        BY <1>8, <3>3
      <4>2. ~d.handles[h].inCache /\ d.handles[h].refs = c.handles[h].refs - 1
        BY <1>9, <3>3
      <4>. QED
        BY <3>1, <3>2, <4>1, <4>2
    <3>4. CASE h \notin H
      BY <1>9, <3>1, <3>4
    <3>. QED
      BY <3>3, <3>4
  <2>5. DOMAIN d.handles \subseteq 1..MaxOpens
    BY <1>1, <1>7 DEF GoodHandles
  <2>. QED
    BY <2>1, <2>3, <2>4, <2>5 DEF GoodHandles
<1>13. /\ DOMAIN rest = {f \in DOMAIN c.table : c.table[f] \notin H}
       /\ \A f \in DOMAIN rest : rest[f] = c.table[f]
       /\ rest \in [DOMAIN rest -> InCache(d)]
  <2>1. rest = [f \in {g \in DOMAIN c.table : c.table[g] \notin H} |-> c.table[f]]
    BY DEF Restrict
  <2>2. \A f \in DOMAIN rest : c.table[f] \in InCache(d)
    BY <1>1, <1>10, <2>1 DEF GoodTable
  <2>. QED
    BY <2>1, <2>2
<1>14. GoodTable(d)
  <2>1. ASSUME NEW f \in DOMAIN d.table PROVE d.handles[d.table[f]].file = f
    <3>1. f \in DOMAIN c.table /\ d.table[f] = c.table[f] /\ d.table[f] \in InCache(d)
      BY <1>5, <1>13
    <3>. QED
      BY <1>1, <1>11, <3>1 DEF GoodTable
  <2>2. ASSUME NEW h \in InCache(d)
        PROVE  d.handles[h].file \in DOMAIN d.table /\ d.table[d.handles[h].file] = h
    <3>1. h \in InCache(c) \ H /\ d.handles[h] = c.handles[h]
      BY <1>10, <1>11
    <3>2. c.handles[h].file \in DOMAIN c.table /\ c.table[c.handles[h].file] = h
      BY <1>1, <3>1 DEF GoodTable
    <3>. QED
      BY <1>5, <1>13, <3>1, <3>2
  <2>. QED
    BY <1>5, <1>13, <2>1, <2>2 DEF GoodTable
<1>15. GoodLists(d)
  <2>1. \A i \in 1..Len(left) : left[i] \in DOMAIN d.handles
    <3>1. ToSet(c.lru) \subseteq InCache(c)
      BY <1>1 DEF GoodLists
    <3>2. ToSet(left) \subseteq InCache(d)
      BY <1>10, <3>1
    <3>3. \A i \in 1..Len(left) : left[i] \in InCache(d)
      BY <3>2 DEF ToSet
    <3>. QED
      BY <1>11, <3>3
  <2>2. left \in Seq(DOMAIN d.handles)
    BY <2>1
  <2>3. /\ {h \in InCache(d) : d.handles[h].refs = 1} = {h \in InCache(c) : c.handles[h].refs = 1} \ H
        /\ {h \in InCache(d) : d.handles[h].refs # 1} = {h \in InCache(c) : c.handles[h].refs # 1} \ H
    BY <1>10, <1>11
  <2>4. /\ ToSet(c.lru) = {h \in InCache(c) : c.handles[h].refs = 1}
        /\ c.inUse = {h \in InCache(c) : c.handles[h].refs # 1}
    BY <1>1 DEF GoodLists
  <2>. QED
    BY <1>5, <2>2, <2>3, <2>4 DEF GoodLists
<1>16. d.usage = Cardinality(InCache(d))
  <2>1. IsFiniteSet(InCache(c))
    BY CacheFinite
  <2>2. IsFiniteSet(H) /\ InCache(c) \cap H = H
    BY <2>1, FS_Subset
  <2>3. Cardinality(InCache(c) \ H) = Cardinality(InCache(c)) - Cardinality(H)
    BY <2>1, <2>2, FS_Difference
  <2>. QED
    BY <1>5, <1>10, <2>3 DEF GoodCache
<1>. QED
  BY <1>5, <1>6, <1>7, <1>9, <1>10, <1>12, <1>14, <1>15, <1>16 DEF GoodCache

\* d is c with a file fewer, or with tables of lru_ fewer: what is left is what it was.
Fewer(c, d) ==
    /\ DOMAIN d.handles \subseteq DOMAIN c.handles
    /\ \A h \in DOMAIN d.handles : d.handles[h].file = c.handles[h].file
    /\ DOMAIN d.table \subseteq DOMAIN c.table
    /\ InCache(d) \subseteq InCache(c)
    /\ d.usage <= c.usage

LEMMA EraseFewer ==
    ASSUME NEW c, NEW use, GoodCache(c, use), NEW H, NEW left, NEW rest, NEW d,
           Leave(c, H, left, rest, d)
    PROVE  Fewer(c, d)
<1>1. /\ GoodCache(d, use) /\ d.table = rest /\ InCache(d) = InCache(c) \ H
      /\ DOMAIN d.handles \subseteq DOMAIN c.handles
      /\ \A h \in DOMAIN d.handles : d.handles[h].file = c.handles[h].file
  BY EraseGood
<1>2. DOMAIN d.table \subseteq DOMAIN c.table
  BY <1>1 DEF Restrict, Leave
<1>3. d.usage <= c.usage
  <2>1. d.usage = Cardinality(InCache(d)) /\ c.usage = Cardinality(InCache(c))
    BY <1>1 DEF GoodCache
  <2>. QED
    BY <1>1, <2>1, CacheFinite, FS_Subset
<1>. QED
  BY <1>1, <1>2, <1>3 DEF Fewer

\* Erase: the file's entry leaves the cache.
LEMMA FileErased ==
    ASSUME NEW c, NEW use, GoodCache(c, use), NEW file
    PROVE  /\ GoodCache(Erase(c, file), use) /\ Fewer(c, Erase(c, file))
           /\ file \notin DOMAIN Erase(c, file).table
<1>1. GoodHandles(c, use) /\ GoodTable(c) /\ GoodLists(c)
  BY DEF GoodCache
<1>2. CASE file \notin DOMAIN c.table
  <2>1. Erase(c, file) = c
    BY <1>2 DEF Erase
  <2>2. c.usage <= c.usage
    BY CacheFinite DEF GoodCache
  <2>. QED
    BY <1>2, <2>1, <2>2 DEF Fewer
<1>3. CASE file \in DOMAIN c.table
  <2> DEFINE h == c.table[file]
             d == Erase(c, file)
             rest == Without(c.table, file)
             left == RemoveFirst(c.lru, h)
  <2>1. h \in InCache(c) /\ {h} \in SUBSET InCache(c)
    BY <1>1, <1>3 DEF GoodTable
  <2>2. rest = Restrict(c.table, {f \in DOMAIN c.table : c.table[f] \notin {h}})
    <3>1. \A f \in DOMAIN c.table : c.table[f] = h <=> f = file
      BY <1>1, <1>3, <2>1 DEF GoodTable
    <3>2. DOMAIN c.table \ {file} = {f \in DOMAIN c.table : c.table[f] \notin {h}}
      BY <3>1
    <3>. QED
      BY <3>2 DEF Without
  <2>3. left \in Seq(DOMAIN c.handles) /\ Distinct(left) /\ ToSet(left) = ToSet(c.lru) \ {h}
    BY <1>1, Removed DEF GoodLists
  <2>4. Finished(c, rest, {h}, left, d)
    <3>1. d = FinishErase([c EXCEPT !.table = Without(@, file)], {h}, left)
      BY <1>3 DEF Erase
    <3>2. [c EXCEPT !.table = Without(@, file)] = [c EXCEPT !.table = rest]
      OBVIOUS
    <3> HIDE DEF d, rest, left, h
    <3>. QED
      BY <3>1, <3>2 DEF Finished
  <2> HIDE DEF d, rest, left, h
  <2>5. Leave(c, {h}, left, rest, d)
    BY <2>1, <2>2, <2>3, <2>4 DEF Leave
  <2>7. GoodCache(d, use) /\ d.table = rest /\ Fewer(c, d)
    BY <2>5, EraseGood, EraseFewer
  <2>6. file \notin DOMAIN rest
    BY DEF rest, Without, Restrict
  <2>. QED
    BY <2>6, <2>7 DEF d
<1>. QED
  BY <1>2, <1>3

\* The oldest n of lru_ leave the cache.
LEMMA OldestEvicted ==
    ASSUME NEW c, NEW use, GoodCache(c, use), NEW n \in 0..Len(c.lru)
    PROVE  /\ GoodCache(EvictOldest(c, n), use) /\ Fewer(c, EvictOldest(c, n))
           /\ EvictOldest(c, n).usage = c.usage - n
           /\ Len(EvictOldest(c, n).lru) = Len(c.lru) - n
           /\ EvictOldest(c, n).inUse = c.inUse
<1> DEFINE first == SubSeq(c.lru, 1, n)
           left == SubSeq(c.lru, n + 1, Len(c.lru))
           H == ToSet(first)
           files == {c.handles[h].file : h \in H}
           rest == Restrict(c.table, DOMAIN c.table \ files)
           d == EvictOldest(c, n)
<1>1. GoodHandles(c, use) /\ GoodTable(c) /\ GoodLists(c)
  BY DEF GoodCache
<1>2. c.lru \in Seq(DOMAIN c.handles) /\ Distinct(c.lru) /\ Len(c.lru) \in Nat
  BY <1>1 DEF GoodLists
<1>3. /\ first \in Seq(DOMAIN c.handles) /\ Len(first) = n
      /\ \A i \in 1..n : first[i] = c.lru[i]
  <2> DEFINE s == c.lru
             D == DOMAIN c.handles
  <2>1. s \in Seq(D) /\ n \in 0..Len(s)
    BY <1>2
  <2> HIDE DEF s, D
  <2>2. \A i \in 1..n : s[i] \in D
    BY <2>1
  <2>3. /\ SubSeq(s, 1, n) \in Seq(D) /\ Len(SubSeq(s, 1, n)) = n
        /\ \A i \in 1..n : SubSeq(s, 1, n)[i] = s[i]
    BY <2>1
  <2>. QED
    BY <2>3 DEF s, D
<1>4. /\ left \in Seq(DOMAIN c.handles) /\ Len(left) = Len(c.lru) - n
      /\ \A i \in 1..Len(c.lru) - n : left[i] = c.lru[n + i]
  <2> DEFINE s == c.lru
             N == Len(c.lru)
             D == DOMAIN c.handles
  <2>1. s \in Seq(D) /\ N = Len(s) /\ N \in Nat /\ n \in 0..N
    BY <1>2
  <2> HIDE DEF s, N, D
  <2>2. \A i \in n + 1..N : s[i] \in D
    BY <2>1
  <2>3. /\ SubSeq(s, n + 1, N) \in Seq(D)
        /\ Len(SubSeq(s, n + 1, N)) = IF n + 1 <= N THEN N - (n + 1) + 1 ELSE 0
        /\ \A i \in 1..N - (n + 1) + 1 : SubSeq(s, n + 1, N)[i] = s[n + 1 + i - 1]
    <3>1. n + 1 \in Int /\ N \in Int
      BY <2>1
    <3>. QED
      BY <2>2, <3>1, SubSeqProperties
  <2>4. /\ SubSeq(s, n + 1, N) \in Seq(D) /\ Len(SubSeq(s, n + 1, N)) = N - n
        /\ \A i \in 1..N - n : SubSeq(s, n + 1, N)[i] = s[n + i]
    BY <2>1, <2>3
  <2>. QED
    BY <2>4 DEF s, N, D
<1>5. H = {c.lru[i] : i \in 1..n}
  <2> HIDE DEF first
  <2>. QED
    BY <1>3 DEF ToSet
<1>6. H \in SUBSET InCache(c)
  <2>1. ToSet(c.lru) \subseteq InCache(c)
    BY <1>1 DEF GoodLists
  <2>2. \A i \in 1..n : c.lru[i] \in ToSet(c.lru)
    BY <1>2 DEF ToSet
  <2>. QED
    BY <1>5, <2>1, <2>2
<1>7. Distinct(left)
  <2> HIDE DEF left
  <2>1. ASSUME NEW i \in 1..Len(left), NEW j \in 1..Len(left), left[i] = left[j] PROVE i = j
    <3>1. n + i \in 1..Len(c.lru) /\ n + j \in 1..Len(c.lru)
      BY <1>2, <1>4
    <3>2. c.lru[n + i] = c.lru[n + j]
      BY <1>4, <2>1
    <3>3. n + i = n + j
      BY <1>2, <3>1, <3>2 DEF Distinct
    <3>. QED
      BY <3>3
  <2>. QED
    BY <2>1 DEF Distinct
<1>8. ToSet(left) = ToSet(c.lru) \ H
  <2> HIDE DEF left, H
  <2>1. ASSUME NEW i \in 1..Len(left) PROVE left[i] \in ToSet(c.lru) \ H
    <3>1. n + i \in 1..Len(c.lru) /\ left[i] = c.lru[n + i]
      BY <1>2, <1>4
    <3>2. c.lru[n + i] \in ToSet(c.lru)
      BY <3>1 DEF ToSet
    <3>3. \A j \in 1..n : j \in 1..Len(c.lru) /\ j # n + i
      BY <1>2
    <3>4. \A j \in 1..n : c.lru[j] # c.lru[n + i]
      BY <1>2, <3>1, <3>3 DEF Distinct
    <3>. QED
      BY <1>5, <3>1, <3>2, <3>4
  <2>2. ASSUME NEW x \in ToSet(c.lru) \ H PROVE x \in ToSet(left)
    <3>1. PICK j \in 1..Len(c.lru) : c.lru[j] = x
      BY <2>2 DEF ToSet
    <3>2. j \notin 1..n
      BY <1>5, <2>2, <3>1
    <3>3. j - n \in 1..Len(left) /\ n + (j - n) = j
      BY <1>2, <1>4, <3>2
    <3>4. left[j - n] = x
      BY <1>4, <3>1, <3>3
    <3>5. \E i \in 1..Len(left) : left[i] = x
      BY <3>3, <3>4
    <3>. QED
      BY <3>5 DEF ToSet
  <2>3. ToSet(left) \subseteq ToSet(c.lru) \ H
    BY <2>1 DEF ToSet
  <2>. QED
    BY <2>2, <2>3
<1>9. rest = Restrict(c.table, {f \in DOMAIN c.table : c.table[f] \notin H})
  <2> HIDE DEF H
  <2>1. ASSUME NEW f \in DOMAIN c.table PROVE f \in files <=> c.table[f] \in H
    BY <1>1, <1>6 DEF GoodTable
  <2>2. DOMAIN c.table \ files = {f \in DOMAIN c.table : c.table[f] \notin H}
    BY <2>1
  <2>. QED
    BY <2>2
<1>10. Finished(c, rest, H, left, d)
  <2>1. d = FinishErase([c EXCEPT !.table = Restrict(@, DOMAIN @ \ files)], H, left)
    BY DEF EvictOldest
  <2>2. [c EXCEPT !.table = Restrict(@, DOMAIN @ \ files)] = [c EXCEPT !.table = rest]
    OBVIOUS
  <2> HIDE DEF d, rest, left, H, files
  <2>. QED
    BY <2>1, <2>2 DEF Finished
<1>11. Cardinality(H) = n
  <2> HIDE DEF first, H
  <2> DEFINE F == [i \in 1..n |-> c.lru[i]]
  <2>1. F \in Bijection(1..n, H)
    <3>1. \A i, j \in 1..n : c.lru[i] = c.lru[j] => i = j
      BY <1>2 DEF Distinct
    <3>. QED
      BY <1>5, <3>1 DEF Bijection, Injection, Surjection, IsInjective
  <2>2. IsFiniteSet(1..n) /\ Cardinality(1..n) = n
    BY FS_Interval
  <2>. QED
    BY <2>1, <2>2, FS_Bijection DEF ExistsBijection
<1> HIDE DEF d, rest, left, first, H
<1>12. /\ GoodCache(d, use) /\ Fewer(c, d) /\ d.lru = left /\ InCache(d) = InCache(c) \ H
       /\ d.inUse = c.inUse \ H
  <2>1. Leave(c, H, left, rest, d)
    BY <1>4, <1>6, <1>7, <1>8, <1>9, <1>10 DEF Leave
  <2>. QED
    BY <2>1, EraseGood, EraseFewer
<1>13. d.usage = c.usage - n
  <2>1. d.usage = Cardinality(InCache(d)) /\ c.usage = Cardinality(InCache(c))
    BY <1>12 DEF GoodCache
  <2>2. IsFiniteSet(InCache(c)) /\ InCache(c) \cap H = H
    BY <1>6, CacheFinite
  <2>3. Cardinality(InCache(c) \ H) = Cardinality(InCache(c)) - Cardinality(InCache(c) \cap H)
    BY <2>2, FS_Difference
  <2>. QED
    BY <1>11, <1>12, <2>1, <2>2, <2>3
<1>14. d.inUse = c.inUse
  <2>1. H \subseteq ToSet(c.lru)
    <3>1. \A i \in 1..n : c.lru[i] \in ToSet(c.lru)
      BY <1>2 DEF ToSet
    <3>. QED
      BY <1>5, <3>1
  <2>. QED
    BY <1>1, <1>12, <2>1 DEF GoodLists
<1>. QED
  BY <1>4, <1>12, <1>13, <1>14 DEF d

\* c with the entry h for the file, in the cache or not.
Added(c, file, h, cached) ==
    [handles |-> With(c.handles, h, [file |-> file, refs |-> IF cached THEN 2 ELSE 1,
                                     inCache |-> cached]),
     lru |-> c.lru, inUse |-> IF cached THEN c.inUse \cup {h} ELSE c.inUse,
     table |-> IF cached THEN With(c.table, file, h) ELSE c.table,
     usage |-> IF cached THEN c.usage + 1 ELSE c.usage]

\* An entry enters the cache, with the thread that opened its file as a user.
LEMMA EntryAdded ==
    ASSUME NEW c, NEW use, GoodCache(c, use), NEW t \in Threads, use[t] = 0,
           NEW file \in TableFiles, NEW h \in 1..MaxOpens \ DOMAIN c.handles,
           NEW cached \in BOOLEAN, cached => file \notin DOMAIN c.table
    PROVE  GoodCache(Added(c, file, h, cached), [use EXCEPT ![t] = h])
<1> DEFINE d == Added(c, file, h, cached)
           used == [use EXCEPT ![t] = h]
           refs == IF cached THEN 2 ELSE 1
           new == [file |-> file, refs |-> refs, inCache |-> cached]
<1>1. GoodHandles(c, use) /\ GoodTable(c) /\ GoodLists(c)
  BY DEF GoodCache
<1>2. /\ d.handles = With(c.handles, h, new) /\ d.lru = c.lru
      /\ d.inUse = IF cached THEN c.inUse \cup {h} ELSE c.inUse
      /\ d.table = IF cached THEN With(c.table, file, h) ELSE c.table
      /\ d.usage = IF cached THEN c.usage + 1 ELSE c.usage
  BY DEF Added
<1>3. Fields(d)
  BY DEF Fields, Added
<1> HIDE DEF d
<1>4. refs \in Nat \ {0} /\ new \in Handle /\ new.file = file /\ new.refs = refs /\ new.inCache = cached
  BY DEF Handle
<1> HIDE DEF new, refs
<1>5. /\ DOMAIN d.handles = DOMAIN c.handles \cup {h} /\ d.handles[h] = new
      /\ \A g \in DOMAIN c.handles : d.handles[g] = c.handles[g] /\ g # h
      /\ d.handles \in [DOMAIN d.handles -> Handle]
  BY <1>1, <1>2, <1>4 DEF With, GoodHandles
<1>6. InCache(d) = IF cached THEN InCache(c) \cup {h} ELSE InCache(c)
  BY <1>4, <1>5 DEF InCache
<1>7. h \notin InCache(c) /\ InCache(c) \subseteq DOMAIN c.handles
  BY DEF InCache
<1>8. GoodHandles(d, used)
  <2>1. use \in [Threads -> {0} \cup DOMAIN c.handles] /\ h # 0
    BY <1>1 DEF GoodHandles
  <2>2. UsersIn(use, h) = {} /\ Cardinality(UsersIn(use, h)) = 0
    BY <2>1, FS_EmptySet DEF UsersIn
  <2>3. /\ Cardinality(UsersIn(used, h)) = 1
        /\ \A g : g # h /\ g # use[t] => UsersIn(used, g) = UsersIn(use, g)
    <3>1. use[t] # h
      BY <2>1
    <3>2. /\ Cardinality(UsersIn(used, h)) = Cardinality(UsersIn(use, h)) + 1
          /\ \A g : g # h /\ g # use[t] => UsersIn(used, g) = UsersIn(use, g)
      BY <2>1, <3>1, UserComes
    <3> HIDE DEF used
    <3>. QED
      BY <2>2, <3>2
  <2>4. used \in [Threads -> {0} \cup DOMAIN d.handles]
    BY <1>5, <2>1
  <2>5. ASSUME NEW g \in DOMAIN d.handles
        PROVE  d.handles[g].refs = Cardinality(UsersIn(used, g))
                                     + (IF d.handles[g].inCache THEN 1 ELSE 0)
    <3> HIDE DEF used
    <3>1. CASE g = h
      BY <1>4, <1>5, <2>3, <3>1 DEF refs
    <3>2. CASE g # h
      <4>1. g \in DOMAIN c.handles /\ d.handles[g] = c.handles[g] /\ g # use[t]
        BY <1>1, <1>5, <3>2 DEF GoodHandles
      <4>. QED
        BY <1>1, <2>3, <3>2, <4>1 DEF GoodHandles
    <3>. QED
      BY <3>1, <3>2
  <2>6. DOMAIN d.handles \subseteq 1..MaxOpens
    BY <1>1, <1>5 DEF GoodHandles
  <2>. QED
    BY <1>5, <2>4, <2>5, <2>6 DEF GoodHandles
<1>9. GoodTable(d)
  <2>1. CASE cached
    <3>1. /\ DOMAIN d.table = DOMAIN c.table \cup {file} /\ d.table[file] = h
          /\ \A f \in DOMAIN c.table : d.table[f] = c.table[f] /\ f # file
          /\ d.table \in [DOMAIN d.table -> InCache(d)]
      BY <1>1, <1>2, <1>6, <2>1 DEF With, GoodTable
    <3>2. ASSUME NEW f \in DOMAIN d.table PROVE d.handles[d.table[f]].file = f
      BY <1>1, <1>4, <1>5, <1>7, <3>1 DEF GoodTable
    <3>3. ASSUME NEW g \in InCache(d)
          PROVE  d.handles[g].file \in DOMAIN d.table /\ d.table[d.handles[g].file] = g
      BY <1>1, <1>4, <1>5, <1>6, <1>7, <3>1 DEF GoodTable
    <3>. QED
      BY <3>1, <3>2, <3>3 DEF GoodTable
  <2>2. CASE ~cached
    BY <1>1, <1>2, <1>5, <1>6, <1>7, <2>2 DEF GoodTable
  <2>. QED
    BY <2>1, <2>2
<1>10. GoodLists(d)
  <2>1. c.lru \in Seq(DOMAIN d.handles)
    <3>1. c.lru \in Seq(DOMAIN c.handles) /\ DOMAIN c.handles \subseteq DOMAIN d.handles
      BY <1>1, <1>5 DEF GoodLists
    <3>. QED
      BY <3>1
  <2>2. cached => d.handles[h].refs # 1
    BY <1>4, <1>5 DEF refs
  <2>3. {g \in InCache(d) : d.handles[g].refs = 1} = {g \in InCache(c) : c.handles[g].refs = 1}
    BY <1>5, <1>6, <1>7, <2>2
  <2>4. {g \in InCache(d) : d.handles[g].refs # 1}
          = IF cached THEN {g \in InCache(c) : c.handles[g].refs # 1} \cup {h}
            ELSE {g \in InCache(c) : c.handles[g].refs # 1}
    BY <1>5, <1>6, <1>7, <2>2
  <2>. QED
    BY <1>1, <1>2, <2>1, <2>3, <2>4 DEF GoodLists
<1>11. d.usage = Cardinality(InCache(d))
  <2>1. /\ c.usage = Cardinality(InCache(c)) /\ Cardinality(InCache(c)) \in Nat
        /\ Cardinality(InCache(c) \cup {h}) = Cardinality(InCache(c)) + 1
    BY <1>7, CacheFinite, FS_AddElement DEF GoodCache
  <2>. QED
    BY <1>2, <1>6, <2>1
<1>. QED
  BY <1>3, <1>8, <1>9, <1>10, <1>11 DEF GoodCache, d

\* Entries in use are no more than the threads.
LEMMA UsedBounded ==
    ASSUME NEW c, NEW use, GoodCache(c, use)
    PROVE  /\ IsFiniteSet(c.inUse) /\ Cardinality(c.inUse) \in Nat
           /\ Cardinality(c.inUse) <= Cardinality(Threads) /\ Cardinality(Threads) \in Nat
           /\ c.lru = <<>> => c.usage = Cardinality(c.inUse)
<1>1. GoodHandles(c, use) /\ GoodLists(c)
  BY DEF GoodCache
<1>2. \A h \in c.inUse : \E t \in Threads : use[t] = h
  <2>1. ASSUME NEW h \in c.inUse PROVE \E t \in Threads : use[t] = h
    <3>1. h \in DOMAIN c.handles /\ c.handles[h].inCache /\ c.handles[h].refs # 1
      BY <1>1 DEF GoodLists, InCache
    <3>2. Cardinality(UsersIn(use, h)) # 0
      BY <1>1, <3>1 DEF GoodHandles
    <3>3. UsersIn(use, h) # {}
      BY <3>2, FS_EmptySet
    <3>. QED
      BY <3>3 DEF UsersIn
  <2>. QED
    BY <2>1
<1> DEFINE F == [h \in c.inUse |-> CHOOSE t \in Threads : use[t] = h]
<1>3. F \in Injection(c.inUse, Threads)
  <2>1. \A h \in c.inUse : F[h] \in Threads /\ use[F[h]] = h
    BY <1>2
  <2>2. F \in [c.inUse -> Threads]
    BY <2>1
  <2> HIDE DEF F
  <2>. QED
    BY <2>1, <2>2 DEF Injection, IsInjective
<1>4. IsFiniteSet(Threads) /\ Cardinality(Threads) \in Nat
  BY CacheAssumption, FS_CardinalityType
<1>5. IsFiniteSet(c.inUse) /\ Cardinality(c.inUse) <= Cardinality(Threads)
  BY <1>3, <1>4, FS_Injection
<1>6. ASSUME c.lru = <<>> PROVE c.usage = Cardinality(c.inUse)
  <2>1. ToSet(c.lru) = {}
    BY <1>6 DEF ToSet
  <2>2. InCache(c) = c.inUse
    BY <1>1, <2>1 DEF GoodLists
  <2>. QED
    BY <2>2 DEF GoodCache
<1>. QED
  BY <1>4, <1>5, <1>6, FS_CardinalityType

LEMMA MaxOfTwo ==
    ASSUME NEW a \in Int, NEW b \in Int
    PROVE  Max({a, b}) = IF a >= b THEN a ELSE b
<1> DEFINE m == IF a >= b THEN a ELSE b
<1>1. m \in {a, b} /\ \A y \in {a, b} : m >= y
  OBVIOUS
<1>2. \A x \in {a, b} : (\A y \in {a, b} : x >= y) => x = m
  OBVIOUS
<1>. QED
  BY <1>1, <1>2 DEF Max

LEMMA MinOfTwo ==
    ASSUME NEW a \in Int, NEW b \in Int
    PROVE  Min({a, b}) = IF a <= b THEN a ELSE b
<1> DEFINE m == IF a <= b THEN a ELSE b
<1>1. m \in {a, b} /\ \A y \in {a, b} : m <= y
  OBVIOUS
<1>2. \A x \in {a, b} : (\A y \in {a, b} : x <= y) => x = m
  OBVIOUS
<1>. QED
  BY <1>1, <1>2 DEF Min

\* The loop at the end of Insert: the cache has no more than its capacity, or
\* all of it is in use.
LEMMA ExcessEvicted ==
    ASSUME NEW c, NEW use, GoodCache(c, use)
    PROVE  /\ GoodCache(EvictExcess(c), use) /\ Fewer(c, EvictExcess(c))
           /\ EvictExcess(c).usage <= Max({Capacity, Cardinality(Threads)})
<1> DEFINE n == Min({Len(c.lru), Max({0, Excess(c)})})
           d == EvictOldest(c, n)
<1>1. c.usage \in Nat /\ Len(c.lru) \in Nat /\ Capacity \in Nat
  BY CacheFinite, CacheAssumption DEF GoodCache, GoodLists
<1>2. Max({0, Excess(c)}) = IF c.usage <= Capacity THEN 0 ELSE c.usage - Capacity
  BY <1>1, MaxOfTwo DEF Excess
<1>3. /\ n \in 0..Len(c.lru)
      /\ n = Len(c.lru) \/ c.usage - n <= Capacity
  <2>1. n = IF Len(c.lru) <= Max({0, Excess(c)}) THEN Len(c.lru) ELSE Max({0, Excess(c)})
    <3> DEFINE m == Max({0, Excess(c)})
    <3>1. m \in Int /\ n = Min({Len(c.lru), m})
      BY <1>1, <1>2
    <3> HIDE DEF m, n
    <3>2. n = IF Len(c.lru) <= m THEN Len(c.lru) ELSE m
      BY <1>1, <3>1, MinOfTwo
    <3>. QED
      BY <3>2 DEF m
  <2> HIDE DEF n
  <2>. QED
    BY <1>1, <1>2, <2>1
<1>4. EvictExcess(c) = d
  BY DEF EvictExcess
<1> HIDE DEF n, d
<1>5. /\ GoodCache(d, use) /\ Fewer(c, d) /\ d.usage = c.usage - n /\ Len(d.lru) = Len(c.lru) - n
  BY <1>3, OldestEvicted DEF d
<1>6. Cardinality(Threads) \in Nat
  BY CacheAssumption, FS_CardinalityType
<1>7. d.usage <= Capacity \/ d.usage <= Cardinality(Threads)
  <2>1. CASE n = Len(c.lru)
    <3>1. Len(d.lru) = 0
      BY <1>1, <1>5, <2>1
    <3>2. d.lru \in Seq(DOMAIN d.handles)
      BY <1>5 DEF GoodCache, GoodLists
    <3>3. d.lru = <<>>
      BY <3>1, <3>2
    <3>. QED
      BY <1>5, <3>3, UsedBounded
  <2>2. CASE c.usage - n <= Capacity
    BY <1>5, <2>2
  <2>. QED
    BY <1>3, <2>1, <2>2
<1>8. d.usage \in Int
  BY <1>1, <1>3, <1>5
<1>. QED
  BY <1>1, <1>4, <1>5, <1>6, <1>7, <1>8, MaxOfTwo

LEMMA CapacityOrThreads ==
    Max({Capacity, Cardinality(Threads)}) \in Nat
<1>1. Capacity \in Nat /\ Cardinality(Threads) \in Nat
  BY CacheAssumption, FS_CardinalityType
<1>. QED
  BY <1>1, MaxOfTwo

\* The thread t, which uses none, inserts the file as h.
Inserting(c, use, t, file, h) ==
    /\ GoodCache(c, use) /\ t \in Threads /\ use[t] = 0
    /\ file \in TableFiles /\ h \in 1..MaxOpens \ DOMAIN c.handles
    /\ c.usage <= Max({Capacity, Cardinality(Threads)})

\* In d, h has the file and every other entry the file it had.
FilesKept(c, file, h, d) ==
    \A g \in DOMAIN d.handles :
        d.handles[g].file = IF g = h THEN file ELSE c.handles[g].file

\* Insert, by a thread that has opened the file: its entry is there and holds
\* the file, whatever was replaced and evicted for it.
LEMMA TableInserted ==
    ASSUME NEW c, NEW use, NEW t, NEW file, NEW h, Inserting(c, use, t, file, h)
    PROVE  /\ GoodCache(InsertTable(c, file, h), [use EXCEPT ![t] = h])
           /\ InsertTable(c, file, h).usage <= Max({Capacity, Cardinality(Threads)})
           /\ DOMAIN InsertTable(c, file, h).table \subseteq DOMAIN c.table \cup {file}
           /\ FilesKept(c, file, h, InsertTable(c, file, h))
<1> USE DEF Inserting
<1> DEFINE used == [use EXCEPT ![t] = h]
           d == InsertTable(c, file, h)
<1>1. CASE Capacity = 0
  <2> DEFINE new == With(c.handles, h, [file |-> file, refs |-> 1, inCache |-> FALSE])
  <2>1. d = [c EXCEPT !.handles = new]
    BY <1>1 DEF InsertTable
  <2>2. PICK a, l, u, b, n :
           c = [handles |-> a, lru |-> l, inUse |-> u, table |-> b, usage |-> n]
    BY DEF GoodCache, Fields
  <2>3. c.lru = l /\ c.inUse = u /\ c.table = b /\ c.usage = n
    BY <2>2
  <2> HIDE DEF new, d
  <2>4. d = [handles |-> new, lru |-> c.lru, inUse |-> c.inUse, table |-> c.table,
             usage |-> c.usage]
    BY <2>1, <2>2, <2>3
  <2>5. d.handles = new /\ d.table = c.table /\ d.usage = c.usage
    BY <2>4
  <2>6. GoodCache(d, used)
    <3>1. d = Added(c, file, h, FALSE)
      BY <2>4 DEF new, Added
    <3>. QED
      BY <3>1, EntryAdded
  <2>7. /\ DOMAIN new = DOMAIN c.handles \cup {h} /\ new[h].file = file
        /\ \A g \in DOMAIN c.handles : g # h /\ new[g] = c.handles[g]
    BY DEF new, With
  <2>. QED
    BY <2>5, <2>6, <2>7 DEF d, FilesKept
<1>2. CASE Capacity # 0
  <2> DEFINE old == Erase(c, file)
             new == With(old.handles, h, [file |-> file, refs |-> 2, inCache |-> TRUE])
             files == With(old.table, file, h)
             e == [handles |-> new, lru |-> old.lru, inUse |-> old.inUse \cup {h},
                   table |-> files, usage |-> old.usage + 1]
  <2>1. GoodCache(old, use) /\ Fewer(c, old) /\ file \notin DOMAIN old.table
    BY FileErased
  <2>2. d = EvictExcess([old EXCEPT !.handles = new, !.inUse = @ \cup {h}, !.table = files,
                                    !.usage = @ + 1])
    BY <1>2 DEF InsertTable
  <2>3. [old EXCEPT !.handles = new, !.inUse = @ \cup {h}, !.table = files, !.usage = @ + 1] = e
    <3>1. PICK a, l, u, b, n :
             old = [handles |-> a, lru |-> l, inUse |-> u, table |-> b, usage |-> n]
      BY <2>1 DEF GoodCache, Fields
    <3>2. old.lru = l /\ old.inUse = u /\ old.usage = n
      BY <3>1
    <3> HIDE DEF old, new, files
    <3>3. e = [handles |-> new, lru |-> l, inUse |-> u \cup {h}, table |-> files, usage |-> n + 1]
      BY <3>2
    <3> HIDE DEF e
    <3>4. [old EXCEPT !.handles = new, !.inUse = @ \cup {h}, !.table = files, !.usage = @ + 1]
            = [handles |-> new, lru |-> l, inUse |-> u \cup {h}, table |-> files, usage |-> n + 1]
      <4>1. ASSUME NEW x,
                   x = [old EXCEPT !.handles = new, !.inUse = @ \cup {h}, !.table = files,
                                   !.usage = @ + 1]
            PROVE  x = [handles |-> new, lru |-> l, inUse |-> u \cup {h}, table |-> files,
                        usage |-> n + 1]
        <5> DEFINE m == n + 1
                   v == u \cup {h}
        <5>1. x = [old EXCEPT !.handles = new, !.inUse = v, !.table = files, !.usage = m]
          BY <3>2, <4>1
        <5> HIDE DEF m, v
        <5>2. x = [handles |-> new, lru |-> l, inUse |-> v, table |-> files, usage |-> m]
          BY <3>1, <5>1
        <5>. QED
          BY <5>2 DEF m, v
      <4>. QED
        BY <4>1
    <3>. QED
      BY <3>3, <3>4
  <2>4. h \notin DOMAIN old.handles
    BY <2>1 DEF Fewer
  <2>5. GoodCache(e, used)
    <3>1. e = Added(old, file, h, TRUE)
      BY DEF Added
    <3> HIDE DEF e, old
    <3>2. h \in 1..MaxOpens \ DOMAIN old.handles /\ TRUE \in BOOLEAN
      BY <2>4
    <3>3. TRUE => file \notin DOMAIN old.table
      BY <2>1
    <3>4. GoodCache(old, use)
      BY <2>1
    <3>5. GoodCache(Added(old, file, h, TRUE), used)
      BY <3>2, <3>3, <3>4, EntryAdded
    <3>. QED
      BY <3>1, <3>5
  <2>6. e.handles = new /\ e.table = files
    OBVIOUS
  <2>7. /\ DOMAIN new = DOMAIN old.handles \cup {h} /\ new[h].file = file
        /\ \A g \in DOMAIN old.handles : g # h => new[g] = old.handles[g]
        /\ DOMAIN files = DOMAIN old.table \cup {file}
    BY DEF With
  <2> HIDE DEF e, old, new, files
  <2>8. d = EvictExcess(e)
    BY <2>2, <2>3
  <2> HIDE DEF d
  <2>9. /\ GoodCache(d, used) /\ Fewer(e, d)
        /\ d.usage <= Max({Capacity, Cardinality(Threads)})
    BY <2>5, <2>8, ExcessEvicted
  <2>10. DOMAIN d.table \subseteq DOMAIN c.table \cup {file}
    BY <2>1, <2>6, <2>7, <2>9 DEF Fewer
  <2>11. ASSUME NEW g \in DOMAIN d.handles
         PROVE  d.handles[g].file = IF g = h THEN file ELSE c.handles[g].file
    <3>1. g \in DOMAIN new /\ d.handles[g].file = new[g].file
      BY <2>6, <2>9 DEF Fewer
    <3>2. CASE g = h
      BY <2>7, <3>1, <3>2
    <3>3. CASE g # h
      <4>1. g \in DOMAIN old.handles /\ new[g] = old.handles[g]
        BY <2>7, <3>1, <3>3
      <4>. QED
        BY <2>1, <3>1, <3>3, <4>1 DEF Fewer
    <3>. QED
      BY <3>2, <3>3
  <2>. QED
    BY <2>9, <2>10, <2>11 DEF d, FilesKept
<1>. QED
  BY <1>1, <1>2

\* The handle each thread uses.
Using == [t \in Threads |-> IF readers[t].state = "using" THEN readers[t].handle ELSE 0]

ReadersGood ==
    /\ readers \in [Threads -> [state : {"idle", "opening", "using"}, file : TableFiles \cup {0},
                                handle : 0..MaxOpens]]
    /\ \A t \in Threads : readers[t].state = "using" =>
          /\ readers[t].handle \in DOMAIN handles
          /\ handles[readers[t].handle].file = readers[t].file
    /\ \A t \in Threads : readers[t].state # "idle" => readers[t].file \in TableFiles \ deleted
    /\ \A t \in Threads : readers[t].state = "idle" => readers[t] = NotReading

\* The inductive invariant: the cache is good for the handles that threads use,
\* and no file that a thread reads or opens has been deleted.
CacheInv ==
    /\ GoodCache(Cache, Using) /\ ReadersGood
    /\ EvictedStaysOut /\ OpenTablesBounded

LEMMA SetCache ==
    ASSUME NEW c, Fields(c), Set(c)
    PROVE  Cache' = c
BY DEF Fields, Set, Cache

\* What a reader uses stays, with its file, when entries leave the cache.
LEMMA ReadersKept ==
    ASSUME CacheInv, NEW c, GoodCache(c, Using), Fewer(Cache, c), Set(c), UNCHANGED readers,
           deleted' \in SUBSET (deleted \cup {f \in TableFiles : MayEvict(f)}),
           deleted' \cap DOMAIN c.table = {}
    PROVE  CacheInv'
<1>1. Cache' = c /\ Using' = Using
  BY SetCache DEF GoodCache, Using
<1>2. handles' = c.handles /\ table' = c.table /\ usage' = c.usage
  BY DEF Set
<1>3. GoodCache(Cache, Using)'
  BY <1>1
<1>4. ReadersGood'
  <2>1. ASSUME NEW t \in Threads, readers[t].state = "using"
        PROVE  /\ readers[t].handle \in DOMAIN c.handles
               /\ c.handles[readers[t].handle].file = readers[t].file
    <3>1. Using[t] = readers[t].handle /\ Using[t] \in DOMAIN handles
          /\ handles[Using[t]].file = readers[t].file
      BY <2>1 DEF Using, CacheInv, ReadersGood
    <3>2. Using[t] \in {0} \cup DOMAIN c.handles /\ 0 \notin DOMAIN handles
      BY DEF GoodCache, GoodHandles, CacheInv, Cache
    <3>3. Using[t] \in DOMAIN c.handles
      BY <3>1, <3>2
    <3>4. c.handles[Using[t]].file = handles[Using[t]].file
      BY <3>3 DEF Fewer, Cache
    <3>. QED
      BY <3>1, <3>3, <3>4
  <2>2. ASSUME NEW t \in Threads, readers[t].state # "idle"
        PROVE  readers[t].file \in TableFiles \ deleted'
    BY <2>2 DEF MayEvict, CacheInv, ReadersGood
  <2>. QED
    BY <1>2, <2>1, <2>2 DEF ReadersGood, CacheInv
<1>5. EvictedStaysOut'
  BY <1>2 DEF EvictedStaysOut
<1>6. OpenTablesBounded'
  <2>1. usage' <= usage /\ usage \in Nat /\ usage' \in Nat
    <3>1. usage = Cardinality(InCache(Cache)) /\ usage' = Cardinality(InCache(c))
      BY <1>2 DEF GoodCache, CacheInv, Cache
    <3>2. Cardinality(InCache(Cache)) \in Nat /\ Cardinality(InCache(c)) \in Nat
      BY CacheFinite DEF CacheInv
    <3>. QED
      BY <1>2, <3>1, <3>2 DEF Fewer, Cache
  <2>2. Max({Capacity, Cardinality(Threads)}) \in Int
    BY CapacityOrThreads
  <2>. QED
    BY <2>1, <2>2 DEF OpenTablesBounded, CacheInv
<1>. QED
  BY <1>3, <1>4, <1>5, <1>6 DEF CacheInv

LEMMA LookupKeeps ==
    ASSUME CacheInv, NEW t \in Threads, NEW file \in TableFiles, Lookup(t, file)
    PROVE  CacheInv'
<1>1. /\ GoodCache(Cache, Using) /\ ReadersGood
      /\ readers[t] = NotReading /\ file \notin deleted /\ deleted' = deleted
      /\ readers[t].state = "idle" /\ Using[t] = 0
  BY DEF CacheInv, Lookup, NotReading, Using
<1>2. CASE file \in DOMAIN table
  <2> DEFINE h == table[file]
             c == Ref(Cache, h)
  <2>1. /\ readers' = [readers EXCEPT ![t] = [state |-> "using", file |-> file, handle |-> h]]
        /\ Set(c)
    BY <1>2 DEF Lookup
  <2>2. h \in DOMAIN handles /\ handles[h].file = file /\ h \in 1..MaxOpens
    BY <1>1, <1>2 DEF GoodCache, GoodTable, GoodHandles, InCache, Cache
  <2> HIDE DEF c, h
  <2>3. Using' = [Using EXCEPT ![t] = h]
    BY <1>1, <2>1 DEF Using, ReadersGood
  <2>4. GoodCache(c, Using') /\ SameEntries(Cache, c) /\ DOMAIN c.handles = DOMAIN handles
    <3>1. DOMAIN Cache.handles = DOMAIN handles
      BY DEF Cache
    <3>. QED
      BY <1>1, <2>2, <2>3, <3>1, RefGood DEF c
  <2>5. Cache' = c /\ GoodCache(Cache, Using)'
    BY <2>1, <2>4, SetCache DEF GoodCache
  <2>6. /\ table' = table /\ usage' = usage /\ DOMAIN handles' = DOMAIN handles
        /\ \A g \in DOMAIN handles : handles'[g].file = handles[g].file
    BY <2>1, <2>4 DEF SameEntries, Set, Cache
  <2>7. ReadersGood'
    BY <1>1, <2>1, <2>2, <2>6 DEF ReadersGood, NotReading
  <2>. QED
    BY <1>1, <2>5, <2>6, <2>7 DEF CacheInv, EvictedStaysOut, OpenTablesBounded
<1>3. CASE file \notin DOMAIN table
  <2>1. /\ readers' = [readers EXCEPT ![t] = [state |-> "opening", file |-> file, handle |-> 0]]
        /\ UNCHANGED cacheVars
    BY <1>3 DEF Lookup
  <2>2. Using' = Using
    BY <1>1, <2>1 DEF Using, ReadersGood
  <2>3. Cache' = Cache /\ handles' = handles /\ table' = table /\ usage' = usage
    BY <2>1 DEF cacheVars, Cache
  <2>4. GoodCache(Cache, Using)'
    BY <1>1, <2>2, <2>3
  <2>5. ReadersGood'
    BY <1>1, <2>1, <2>3, CacheAssumption DEF ReadersGood, NotReading
  <2>. QED
    BY <1>1, <2>3, <2>4, <2>5 DEF CacheInv, EvictedStaysOut, OpenTablesBounded
<1>. QED
  BY <1>2, <1>3

LEMMA FindTableKeeps ==
    ASSUME CacheInv, NEW t \in Threads, FindTable(t)
    PROVE  CacheInv'
<1> DEFINE file == readers[t].file
<1>1. /\ GoodCache(Cache, Using) /\ ReadersGood /\ EvictedStaysOut /\ OpenTablesBounded
      /\ readers[t].state = "opening" /\ deleted' = deleted /\ Using[t] = 0
      /\ file \in TableFiles \ deleted
  BY DEF CacheInv, FindTable, ReadersGood, Using
<1>2. CASE readers' = [readers EXCEPT ![t] = NotReading] /\ UNCHANGED cacheVars
  <2>1. Using' = Using
    BY <1>1, <1>2 DEF Using, ReadersGood, NotReading
  <2>2. Cache' = Cache /\ handles' = handles /\ table' = table /\ usage' = usage
    BY <1>2 DEF cacheVars, Cache
  <2>3. GoodCache(Cache, Using)'
    BY <1>1, <2>1, <2>2
  <2>4. ReadersGood'
    BY <1>1, <1>2, <2>2, CacheAssumption DEF ReadersGood, NotReading
  <2>. QED
    BY <1>1, <2>2, <2>3, <2>4 DEF CacheInv, EvictedStaysOut, OpenTablesBounded
<1>3. ASSUME NEW h \in 1 .. MaxOpens \ Opened, Set(InsertTable(Cache, file, h)),
             readers' = [readers EXCEPT ![t].state = "using", ![t].handle = h]
      PROVE  CacheInv'
  <2> DEFINE c == InsertTable(Cache, file, h)
  <2>1. h \notin DOMAIN handles /\ \A s \in Threads : readers[s].handle # h
    BY DEF Opened
  <2>2. readers' = [readers EXCEPT ![t] = [state |-> "using", file |-> file, handle |-> h]]
    <3> DEFINE r == readers[t]
    <3>1. r = [state |-> r.state, file |-> r.file, handle |-> r.handle]
      BY <1>1 DEF ReadersGood
    <3>2. [[r EXCEPT !.state = "using"] EXCEPT !.handle = h]
            = [state |-> "using", file |-> r.file, handle |-> h]
      <4> HIDE DEF r
      <4>1. ASSUME NEW x, x = [[r EXCEPT !.state = "using"] EXCEPT !.handle = h]
            PROVE  x = [state |-> "using", file |-> r.file, handle |-> h]
        BY <3>1, <4>1
      <4>. QED
        BY <4>1
    <3>3. readers' = [readers EXCEPT ![t] = [[r EXCEPT !.state = "using"] EXCEPT !.handle = h]]
      BY <1>1, <1>3 DEF ReadersGood
    <3>. QED
      BY <3>2, <3>3
  <2>3. Using' = [Using EXCEPT ![t] = h]
    BY <1>1, <2>2 DEF Using, ReadersGood
  <2> HIDE DEF c, file
  <2>4. /\ GoodCache(c, Using')
        /\ c.usage <= Max({Capacity, Cardinality(Threads)})
        /\ DOMAIN c.table \subseteq DOMAIN table \cup {file}
        /\ \A g \in DOMAIN c.handles :
              c.handles[g].file = IF g = h THEN file ELSE handles[g].file
    <3>1. /\ Cache.handles = handles /\ Cache.table = table /\ Cache.usage = usage
      BY DEF Cache
    <3>2. h \in 1..MaxOpens \ DOMAIN Cache.handles
      BY <2>1, <3>1
    <3>3. Cache.usage <= Max({Capacity, Cardinality(Threads)})
      BY <1>1, <3>1 DEF OpenTablesBounded
    <3>4. file \in TableFiles
      BY <1>1
    <3>5. /\ GoodCache(c, Using')
          /\ c.usage <= Max({Capacity, Cardinality(Threads)})
          /\ DOMAIN c.table \subseteq DOMAIN Cache.table \cup {file}
          /\ \A g \in DOMAIN c.handles :
                c.handles[g].file = IF g = h THEN file ELSE Cache.handles[g].file
      <4>1. GoodCache(Cache, Using) /\ Using[t] = 0
        BY <1>1
      <4>2. Inserting(Cache, Using, t, file, h)
        BY <3>2, <3>3, <3>4, <4>1 DEF Inserting
      <4>3. GoodCache(c, Using')
        BY <2>3, <4>2, TableInserted DEF c
      <4>4. c.usage <= Max({Capacity, Cardinality(Threads)})
        BY <4>2, TableInserted DEF c
      <4>5. DOMAIN c.table \subseteq DOMAIN Cache.table \cup {file}
        BY <4>2, TableInserted DEF c
      <4>6. FilesKept(Cache, file, h, c)
        BY <4>2, TableInserted DEF c
      <4>. QED
        BY <4>3, <4>4, <4>5, <4>6 DEF FilesKept
    <3>. QED
      BY <3>1, <3>5
  <2>5. Cache' = c /\ GoodCache(c, Using')
    BY <1>3, <2>3, <2>4, SetCache DEF GoodCache, c
  <2>6. handles' = c.handles /\ table' = c.table /\ usage' = c.usage
    BY <1>3 DEF Set, c
  <2>7. GoodCache(Cache, Using)'
    BY <2>5
  <2>8. ReadersGood'
    <3>1. ASSUME NEW s \in Threads, readers'[s].state = "using"
          PROVE  readers'[s].handle \in DOMAIN handles'
                 /\ handles'[readers'[s].handle].file = readers'[s].file
      <4>1. Using'[s] = readers'[s].handle
        BY <3>1 DEF Using
      <4>2. readers'[s].handle \in DOMAIN handles'
        <5>1. Using'[s] \in {0} \cup DOMAIN handles'
          BY <2>5, <2>6 DEF GoodCache, GoodHandles
        <5>2. readers'[s].handle # 0
          <6>1. CASE s = t
            BY <1>1, <2>2, <6>1 DEF ReadersGood
          <6>2. CASE s # t
            <7>1. readers'[s] = readers[s]
              BY <1>1, <2>2, <6>2 DEF ReadersGood
            <7>2. readers[s].handle \in DOMAIN handles
              BY <1>1, <3>1, <7>1 DEF ReadersGood
            <7>. QED
              BY <1>1, <7>1, <7>2 DEF GoodCache, GoodHandles, Cache
          <6>. QED
            BY <6>1, <6>2
        <5>. QED
          BY <4>1, <5>1, <5>2
      <4>3. CASE s = t
        <5>1. readers'[s].handle = h /\ readers'[s].file = file
          BY <1>1, <2>2, <4>3 DEF ReadersGood
        <5>. QED
          BY <2>4, <2>6, <4>2, <5>1
      <4>4. CASE s # t
        <5>1. readers'[s] = readers[s]
          BY <1>1, <2>2, <4>4 DEF ReadersGood
        <5>2. handles[readers[s].handle].file = readers[s].file /\ readers[s].handle # h
          BY <1>1, <2>1, <3>1, <5>1 DEF ReadersGood
        <5>. QED
          BY <2>4, <2>6, <4>2, <5>1, <5>2
      <4>. QED
        BY <4>3, <4>4
    <3>2. readers' \in [Threads -> [state : {"idle", "opening", "using"},
                                    file : TableFiles \cup {0}, handle : 0..MaxOpens]]
      BY <1>1, <2>2 DEF ReadersGood
    <3>3. \A s \in Threads : readers'[s].state # "idle" => readers'[s].file \in TableFiles \ deleted'
      BY <1>1, <2>2 DEF ReadersGood
    <3>4. \A s \in Threads : readers'[s].state = "idle" => readers'[s] = NotReading
      BY <1>1, <2>2 DEF ReadersGood
    <3>. QED
      BY <3>1, <3>2, <3>3, <3>4 DEF ReadersGood
  <2>9. EvictedStaysOut'
    BY <1>1, <2>4, <2>6 DEF EvictedStaysOut
  <2>10. OpenTablesBounded'
    BY <2>4, <2>6 DEF OpenTablesBounded
  <2>. QED
    BY <2>7, <2>8, <2>9, <2>10 DEF CacheInv
<1>. QED
  BY <1>2, <1>3 DEF FindTable

LEMMA ReleaseKeeps ==
    ASSUME CacheInv, NEW t \in Threads, ReleaseTable(t)
    PROVE  CacheInv'
<1> DEFINE c == Unref(Cache, readers[t].handle)
<1>1. /\ GoodCache(Cache, Using) /\ ReadersGood
      /\ readers[t].state = "using" /\ deleted' = deleted /\ Using[t] = readers[t].handle
      /\ readers' = [readers EXCEPT ![t] = NotReading] /\ Set(c)
  BY DEF CacheInv, ReleaseTable, Using
<1>2. Using[t] \in DOMAIN handles /\ Using[t] # 0
  BY <1>1 DEF ReadersGood, GoodCache, GoodHandles, Cache
<1>3. Using' = [Using EXCEPT ![t] = 0]
  BY <1>1 DEF Using, ReadersGood, NotReading
<1>4. GoodCache(c, Using') /\ SameEntries(Cache, c)
  BY <1>1, <1>2, <1>3, UnrefGood
<1> HIDE DEF c
<1>5. Cache' = c /\ GoodCache(Cache, Using)'
  BY <1>1, <1>4, SetCache DEF GoodCache
<1>6. /\ handles' = c.handles /\ table' = table /\ usage' = usage
      /\ \A g \in DOMAIN c.handles : g \in DOMAIN handles /\ c.handles[g].file = handles[g].file
  BY <1>1, <1>4 DEF SameEntries, Set, Cache
<1>7. ReadersGood'
  <2>1. ASSUME NEW s \in Threads, readers'[s].state = "using"
        PROVE  readers'[s].handle \in DOMAIN handles'
               /\ handles'[readers'[s].handle].file = readers'[s].file
    <3>1. s # t /\ readers'[s] = readers[s]
      BY <1>1, <2>1 DEF ReadersGood, NotReading
    <3>2. readers[s].handle \in DOMAIN handles /\ handles[readers[s].handle].file = readers[s].file
      BY <1>1, <2>1, <3>1 DEF ReadersGood
    <3>3. readers[s].handle # 0
      BY <1>1, <3>2 DEF GoodCache, GoodHandles, Cache
    <3>4. Using'[s] = readers[s].handle
      BY <2>1, <3>1 DEF Using
    <3>5. Using'[s] \in {0} \cup DOMAIN c.handles
      BY <1>4 DEF GoodCache, GoodHandles
    <3>. QED
      BY <1>6, <3>1, <3>2, <3>3, <3>4, <3>5
  <2>2. readers' \in [Threads -> [state : {"idle", "opening", "using"},
                                  file : TableFiles \cup {0}, handle : 0..MaxOpens]]
    BY <1>1, CacheAssumption DEF ReadersGood, NotReading
  <2>3. \A s \in Threads : readers'[s].state # "idle" => readers'[s].file \in TableFiles \ deleted'
    BY <1>1 DEF ReadersGood, NotReading
  <2>4. \A s \in Threads : readers'[s].state = "idle" => readers'[s] = NotReading
    BY <1>1 DEF ReadersGood
  <2>. QED
    BY <2>1, <2>2, <2>3, <2>4 DEF ReadersGood
<1>. QED
  BY <1>1, <1>5, <1>6, <1>7 DEF CacheInv, EvictedStaysOut, OpenTablesBounded

LEMMA EvictKeeps ==
    ASSUME CacheInv, NEW file \in TableFiles, Evict(file)
    PROVE  CacheInv'
<1> DEFINE c == Erase(Cache, file)
<1>1. GoodCache(c, Using) /\ Fewer(Cache, c) /\ file \notin DOMAIN c.table
  BY FileErased DEF CacheInv
<1>2. Set(c) /\ deleted' = deleted \cup {file} /\ readers' = readers /\ MayEvict(file)
  BY DEF Evict
<1> HIDE DEF c
<1>3. deleted' \cap DOMAIN c.table = {}
  BY <1>1, <1>2 DEF CacheInv, EvictedStaysOut, Fewer, Cache
<1>. QED
  BY <1>1, <1>2, <1>3, ReadersKept

LEMMA PruneKeeps ==
    ASSUME CacheInv, Prune
    PROVE  CacheInv'
<1> DEFINE c == EvictOldest(Cache, Len(lru))
<1>1. Cache.lru = lru /\ Len(lru) \in 0..Len(Cache.lru)
  BY DEF Cache, CacheInv, GoodCache, GoodLists
<1>2. GoodCache(c, Using) /\ Fewer(Cache, c)
  BY <1>1, OldestEvicted DEF CacheInv
<1>3. Set(c) /\ deleted' = deleted /\ readers' = readers
  BY DEF Prune
<1> HIDE DEF c
<1>4. deleted' \cap DOMAIN c.table = {}
  BY <1>2, <1>3 DEF CacheInv, EvictedStaysOut, Fewer, Cache
<1>. QED
  BY <1>2, <1>3, <1>4, ReadersKept

LEMMA CacheInvInit == CacheInit => CacheInv
<1> SUFFICES ASSUME CacheInit PROVE CacheInv
  OBVIOUS
<1>1. /\ handles = <<>> /\ lru = <<>> /\ inUse = {} /\ table = <<>> /\ usage = 0
      /\ readers = [t \in Threads |-> NotReading] /\ deleted = {}
  BY DEF CacheInit
<1>2. DOMAIN handles = {} /\ DOMAIN table = {}
  BY <1>1
<1>3. InCache(Cache) = {}
  BY <1>2 DEF InCache, Cache
<1>4. GoodHandles(Cache, Using)
  <2>1. Using \in [Threads -> {0}]
    BY <1>1 DEF Using, NotReading
  <2>2. handles \in [DOMAIN handles -> Handle]
    BY <1>1
  <2>. QED
    BY <1>2, <2>1, <2>2 DEF GoodHandles, Cache
<1>5. GoodTable(Cache)
  <2>1. table \in [DOMAIN table -> {}]
    BY <1>1
  <2>. QED
    BY <1>2, <1>3, <2>1 DEF GoodTable, Cache
<1>6. GoodLists(Cache)
  BY <1>1, <1>3 DEF GoodLists, Cache, Distinct, ToSet
<1>7. GoodCache(Cache, Using)
  BY <1>1, <1>3, <1>4, <1>5, <1>6, FS_EmptySet DEF GoodCache, Fields, Cache
<1>8. ReadersGood
  BY <1>1, CacheAssumption DEF ReadersGood, NotReading
<1>. QED
  BY <1>1, <1>7, <1>8, CapacityOrThreads DEF CacheInv, EvictedStaysOut, OpenTablesBounded

LEMMA CacheInvNext == CacheInv /\ [CacheNext]_tableVars => CacheInv'
<1> SUFFICES ASSUME CacheInv, [CacheNext]_tableVars PROVE CacheInv'
  OBVIOUS
<1>1. ASSUME NEW t \in Threads, FindTable(t) PROVE CacheInv'
  BY <1>1, FindTableKeeps
<1>2. ASSUME NEW t \in Threads, ReleaseTable(t) PROVE CacheInv'
  BY <1>2, ReleaseKeeps
<1>3. ASSUME NEW t \in Threads, NEW f \in TableFiles, Lookup(t, f) PROVE CacheInv'
  BY <1>3, LookupKeeps
<1>4. ASSUME NEW f \in TableFiles, Evict(f) PROVE CacheInv'
  BY <1>4, EvictKeeps
<1>5. CASE Prune
  BY <1>5, PruneKeeps
<1>6. CASE UNCHANGED tableVars
  <2>1. Cache' = Cache /\ Using' = Using
    BY <1>6 DEF tableVars, cacheVars, Cache, Using
  <2>2. GoodCache(Cache, Using)'
    BY <2>1 DEF CacheInv
  <2>. QED
    BY <1>6, <2>2 DEF CacheInv, tableVars, cacheVars, ReadersGood, EvictedStaysOut, OpenTablesBounded
<1>. QED
  BY <1>1, <1>2, <1>3, <1>4, <1>5, <1>6 DEF CacheNext

\* What the run checks follows.
LEMMA CacheInvImplies == CacheInv => CacheConsistent
<1> SUFFICES ASSUME CacheInv PROVE CacheConsistent
  OBVIOUS
<1>1. /\ GoodHandles(Cache, Using) /\ GoodTable(Cache) /\ GoodLists(Cache) /\ ReadersGood
      /\ usage = Cardinality(InCache(Cache))
  BY DEF CacheInv, GoodCache, Cache
<1>2. /\ Cache.handles = handles /\ Cache.lru = lru /\ Cache.inUse = inUse /\ Cache.table = table
  BY DEF Cache
<1>3. InCache(Cache) = {h \in DOMAIN handles : handles[h].inCache}
  BY <1>2 DEF InCache
<1>4. Range(table) = InCache(Cache)
  <2>1. \A f \in DOMAIN table : table[f] \in InCache(Cache)
    BY <1>1, <1>2 DEF GoodTable
  <2>2. \A h \in InCache(Cache) : \E f \in DOMAIN table : table[f] = h
    BY <1>1, <1>2 DEF GoodTable
  <2>. QED
    BY <2>1, <2>2 DEF Range
<1>5. lru \in Seq(DOMAIN handles) /\ Distinct(lru) /\ Len(lru) \in Nat
  BY <1>1, <1>2 DEF GoodLists
<1>6. Cardinality(ToSet(lru)) = Len(lru)
  <2> DEFINE F == [i \in 1..Len(lru) |-> lru[i]]
  <2>1. F \in Bijection(1..Len(lru), ToSet(lru))
    BY <1>5 DEF Bijection, Injection, Surjection, IsInjective, ToSet, Distinct
  <2>2. IsFiniteSet(1..Len(lru)) /\ Cardinality(1..Len(lru)) = Len(lru)
    <3> DEFINE N == Len(lru)
    <3>1. N \in Nat
      BY <1>5
    <3> HIDE DEF N
    <3>2. IsFiniteSet(1..N) /\ Cardinality(1..N) = N
      BY <3>1, FS_Interval
    <3>. QED
      BY <3>2 DEF N
  <2>. QED
    BY <2>1, <2>2, FS_Bijection DEF ExistsBijection
<1>7. /\ ToSet(lru) = {h \in InCache(Cache) : handles[h].refs = 1}
      /\ inUse = {h \in InCache(Cache) : handles[h].refs # 1}
  BY <1>1, <1>2 DEF GoodLists
<1>8. handles \in [DOMAIN handles -> Handle]
  BY <1>1, <1>2 DEF GoodHandles
<1>9. CacheTypeOK
  <2>1. \A h \in DOMAIN handles : handles[h].refs \in Nat \ {0} /\ handles[h].file \in TableFiles
    BY <1>8 DEF Handle
  <2>2. Range(table) = ToSet(lru) \cup inUse /\ ToSet(lru) \cap inUse = {}
    BY <1>4, <1>7
  <2>3. \A f \in DOMAIN table : handles[table[f]].file = f
    BY <1>1, <1>2 DEF GoodTable
  <2>. QED
    BY <1>1, <1>3, <1>4, <1>6, <2>1, <2>2, <2>3 DEF CacheTypeOK
<1>10. ReferencesCounted
  <2>1. ASSUME NEW h \in DOMAIN handles
        PROVE  /\ handles[h].refs = Cardinality(Users(h)) + (IF handles[h].inCache THEN 1 ELSE 0)
               /\ (h \in ToSet(lru)) <=> (handles[h].refs = 1 /\ handles[h].inCache)
    <3>1. h # 0
      BY <1>1, <1>2 DEF GoodHandles
    <3>2. Users(h) = UsersIn(Using, h)
      BY <3>1 DEF Users, UsersIn, Using
    <3>. QED
      BY <1>1, <1>2, <1>3, <1>7, <3>2 DEF GoodHandles
  <2>. QED
    BY <2>1 DEF ReferencesCounted
<1>11. NoUseAfterFree
  BY <1>1 DEF NoUseAfterFree, ReadersGood
<1>. QED
  BY <1>9, <1>10, <1>11 DEF CacheConsistent, CacheInv

\* For any threads, table files and capacity: references are counted, no table
\* is freed while a thread uses it, no deleted file comes back into the cache,
\* and open tables are bounded by the capacity or the threads (FindTable, Evict
\* and the LRU cache's Insert, Unref and FinishErase).
THEOREM CacheStaysConsistent == CacheSpec => []CacheConsistent
<1>. QED
  BY CacheInvInit, CacheInvNext, CacheInvImplies, PTL DEF CacheSpec

=============================================================================
