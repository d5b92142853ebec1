------------------------------ MODULE MCParts ------------------------------
(***************************************************************************)
(* Parts of the libraries that share no state with anything else: the      *)
(* cache of open tables, the lock file, the limits on open files, the      *)
(* formats of logs and of tables, nanopb's integers, streams and ownership *)
(* of memory.                                                              *)
(* One of them takes its steps, the others rest in their initial state.    *)
(***************************************************************************)
EXTENDS TableCache, FileLocks, ReadOnlyFiles, LogFile, SortedTable,
        PbVarint, PbStream, PbRelease

CONSTANTS p1, p2, c1, c2, c3

VARIABLE part       \* the module that takes its steps

partVars == <<tableVars, locksVars, filesVars, logVars, sortedVars,
              varintVars, streamVars, releaseVars>>

Parts == {"table cache", "lock file", "open files", "log", "table", "varint", "stream", "release"}

PartsInit ==
    /\ part \in Parts
    /\ CacheInit /\ LocksInit /\ FilesInit /\ LogInit /\ SortedInit
    /\ VarintInit /\ StreamInit /\ ReleaseInit

\* What the parts that rest leave unchanged.
Rest(p, itsVars) == part # p => UNCHANGED itsVars

PartsNext ==
    /\ UNCHANGED part
    /\ \/ part = "table cache" /\ CacheNext
       \/ part = "lock file" /\ LocksNext
       \/ part = "open files" /\ FilesNext
       \/ part = "log" /\ LogNext
       \/ part = "table" /\ SortedNext
       \/ part = "varint" /\ VarintNext
       \/ part = "stream" /\ StreamNext
       \/ part = "release" /\ ReleaseNext
    /\ Rest("table cache", tableVars) /\ Rest("lock file", locksVars)
    /\ Rest("open files", filesVars) /\ Rest("log", logVars)
    /\ Rest("table", sortedVars) /\ Rest("varint", varintVars)
    /\ Rest("stream", streamVars) /\ Rest("release", releaseVars)

PartsSpec == PartsInit /\ [][PartsNext]_<<part, partVars>>

-----------------------------------------------------------------------------
(* The readers of tables are alike.                                        *)

Symmetric == Permutations(Threads)

(* Two processes, the first with two threads.                              *)

MCProcesses == {p1, p2}
MCCallers == {c1, c2, c3}
MCProcessOf == [c \in MCCallers |-> IF c = c3 THEN p2 ELSE p1]

(* User keys of which one begins another, with room for a shorter key      *)
(* between two and after the last; the shorter keys are looked for too,    *)
(* although they were not added.                                           *)

MCTableUsers == {<<0, 3>>, <<2>>, <<2, 3>>}
MCSoughtUsers == MCTableUsers \cup {<<1>>, <<3>>}

(* Numbers at the limits of every width and group; streams whose fifth     *)
(* byte, across bit 32, takes many values and the others few.              *)

MCValues ==
    {{}, {0}, {6}, {7}, {14}, {15}, {31}, {32}, {62}, {63}, {0, 7}, {0, 63}, {0, 31}}
        \cup {0..n : n \in {6, 7, 14, 15, 30, 31, 62, 63}}
        \cup {n..63 : n \in {6, 7, 14, 15, 30, 31, 32, 62}}

MCPayloads(n) ==
    IF n <= 4 THEN {{}, 0..6}
    ELSE IF n = 5 THEN {{}, {3}, 0..3, 0..6, {4}, {3, 4}}
    ELSE {{}, 0..6, {0}}

=============================================================================
