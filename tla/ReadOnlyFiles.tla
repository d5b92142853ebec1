---------------------------- MODULE ReadOnlyFiles ----------------------------
(***************************************************************************)
(* NewRandomAccessFile of PosixEnv and the two kinds of file it makes      *)
(* (util/env_posix.cc).  Two counters, each a Limiter, say how many files  *)
(* may be mapped and how many may keep a descriptor; a Limiter takes a     *)
(* unit first and gives it back if there was none, in two atomic steps     *)
(* between which other threads see the counter too low, even below zero.   *)
(***************************************************************************)
EXTENDS Integers, FiniteSets

CONSTANTS
    Slots,          \* threads, each with a file at a time
    MaxMmaps,       \* limit of mmap_limiter_
    MaxOpenFiles    \* limit of fd_limiter_

ASSUME LimitsAssumption ==
    IsFiniteSet(Slots) /\ MaxMmaps \in Nat /\ MaxOpenFiles \in Nat

VARIABLES
    mmapsAllowed,   \* acquires_allowed_ of mmap_limiter_
    filesAllowed,   \* acquires_allowed_ of fd_limiter_
    fileOf          \* where each slot's file is in its life

filesVars == <<mmapsAllowed, filesAllowed, fileOf>>

FilesInit ==
    /\ mmapsAllowed = MaxMmaps
    /\ filesAllowed = MaxOpenFiles
    /\ fileOf = [s \in Slots |-> "none"]

-----------------------------------------------------------------------------
FileAt(s, where) == fileOf[s] = where
FileTo(s, where) == fileOf' = [fileOf EXCEPT ![s] = where]

\* Mutant: a unit is found although the counter is at zero.
HadUnitAtZero(allowed) == allowed >= 0

\* Acquire: the value before fetch_sub.
HadUnit(allowed) == allowed > 0

\* open(): the descriptor is the caller's until a file owns it.
OpenFile(s) ==
    /\ FileAt(s, "none") /\ FileTo(s, "opened")
    /\ UNCHANGED <<mmapsAllowed, filesAllowed>>

\* mmap_limiter_.Acquire, its fetch_sub.
AcquireMmap(s) ==
    /\ FileAt(s, "opened")
    /\ mmapsAllowed' = mmapsAllowed - 1
    /\ FileTo(s, IF HadUnit(mmapsAllowed) THEN "mapping" ELSE "no mmap")
    /\ UNCHANGED filesAllowed

\* Its fetch_add when there was none: NewRandomAccessFile turns to fd_limiter_.
RefuseMmap(s) ==
    /\ FileAt(s, "no mmap")
    /\ mmapsAllowed' = mmapsAllowed + 1
    /\ FileTo(s, "without mmap")
    /\ UNCHANGED filesAllowed

\* GetFileSize and mmap succeed; the descriptor is closed.
Map(s) ==
    /\ FileAt(s, "mapping") /\ FileTo(s, "mapped")
    /\ UNCHANGED <<mmapsAllowed, filesAllowed>>

AfterMapFails(allowed) == allowed + 1

\* GetFileSize or mmap fails: the descriptor is closed and the unit released.
MapFails(s) ==
    /\ FileAt(s, "mapping")
    /\ mmapsAllowed' = AfterMapFails(mmapsAllowed)
    /\ FileTo(s, "none")
    /\ UNCHANGED filesAllowed

\* PosixRandomAccessFile: fd_limiter_.Acquire, its fetch_sub.
AcquireFile(s) ==
    /\ FileAt(s, "without mmap")
    /\ filesAllowed' = filesAllowed - 1
    /\ FileTo(s, IF HadUnit(filesAllowed) THEN "permanent" ELSE "no file")
    /\ UNCHANGED mmapsAllowed

\* has_permanent_fd_ is false: the descriptor is closed.
RefusedFileBecomes == "temporary"

RefuseFile(s) ==
    /\ FileAt(s, "no file")
    /\ filesAllowed' = filesAllowed + 1
    /\ FileTo(s, RefusedFileBecomes)
    /\ UNCHANGED mmapsAllowed

\* Read of a file without a permanent descriptor opens it and closes it.
BeginRead(s) ==
    /\ FileAt(s, "temporary") /\ FileTo(s, "reading")
    /\ UNCHANGED <<mmapsAllowed, filesAllowed>>

EndRead(s) ==
    /\ FileAt(s, "reading") /\ FileTo(s, "temporary")
    /\ UNCHANGED <<mmapsAllowed, filesAllowed>>

\* The destructors: munmap or close, then Release.
Unmap(s) ==
    /\ FileAt(s, "mapped") /\ FileTo(s, "releasing mmap")
    /\ UNCHANGED <<mmapsAllowed, filesAllowed>>

ReleaseMmap(s) ==
    /\ FileAt(s, "releasing mmap")
    /\ mmapsAllowed' = mmapsAllowed + 1
    /\ FileTo(s, "none")
    /\ UNCHANGED filesAllowed

CloseFile(s) ==
    /\ FileAt(s, "permanent") /\ FileTo(s, "releasing file")
    /\ UNCHANGED <<mmapsAllowed, filesAllowed>>

ReleaseFile(s) ==
    /\ FileAt(s, "releasing file")
    /\ filesAllowed' = filesAllowed + 1
    /\ FileTo(s, "none")
    /\ UNCHANGED mmapsAllowed

DestroyTemporary(s) ==
    /\ FileAt(s, "temporary") /\ FileTo(s, "none")
    /\ UNCHANGED <<mmapsAllowed, filesAllowed>>

FileStep(s) ==
    \/ OpenFile(s) \/ AcquireMmap(s) \/ RefuseMmap(s) \/ Map(s) \/ MapFails(s)
    \/ AcquireFile(s) \/ RefuseFile(s) \/ BeginRead(s) \/ EndRead(s)
    \/ Unmap(s) \/ ReleaseMmap(s) \/ CloseFile(s) \/ ReleaseFile(s) \/ DestroyTemporary(s)

FilesNext == \E s \in Slots : FileStep(s)

FilesSpec == FilesInit /\ [][FilesNext]_filesVars

-----------------------------------------------------------------------------
States ==
    {"none", "opened", "mapping", "no mmap", "without mmap", "mapped", "releasing mmap",
     "permanent", "releasing file", "no file", "temporary", "reading"}

In(states) == {s \in Slots : fileOf[s] \in states}

\* The counters stay in range: no lower than minus the number of threads
\* inside Acquire (Limiter's int never wraps around).
FilesTypeOK ==
    /\ fileOf \in [Slots -> States]
    /\ mmapsAllowed \in -Cardinality(Slots) .. MaxMmaps
    /\ filesAllowed \in -Cardinality(Slots) .. MaxOpenFiles

\* "Limit maximum number of resources to |max_acquires|": the files that are
\* mapped, and the descriptors that files keep, never exceed their limits,
\* although Acquire lets the counter pass through wrong values.
WithinLimits ==
    /\ Cardinality(In({"mapping", "mapped", "releasing mmap"})) <= MaxMmaps
    /\ Cardinality(In({"permanent", "releasing file"})) <= MaxOpenFiles

\* Nothing leaks: once no thread is between the steps of a call, the counters
\* are the limits less what is held, so the whole limit is available again
\* when all files are gone.
UnitsAccounted ==
    In({"mapping", "no mmap", "no file", "releasing mmap", "releasing file"}) = {} =>
        /\ mmapsAllowed = MaxMmaps - Cardinality(In({"mapped"}))
        /\ filesAllowed = MaxOpenFiles - Cardinality(In({"permanent"}))

\* The limits on mappings and descriptors are kept and given back in full,
\* although each is an atomic counter that passes through wrong values.
LimitsKept == FilesTypeOK /\ WithinLimits /\ UnitsAccounted
=============================================================================
