----------------------------- MODULE PosixFiles -----------------------------
(***************************************************************************)
(* The files of a leveldb database as env_posix.cc leaves them to the file *)
(* system: what a reader of the directory sees now, and what a failure of  *)
(* the machine may leave of it.                                            *)
(*                                                                         *)
(* fs is a record.  fs.dirs lists the states of the directory since it was *)
(* last forced to the disk, the last one being what is seen now; the disk  *)
(* keeps their order, so a failure leaves one of them.  fs.files gives the *)
(* records of each file and how many of them are on the disk: a failure    *)
(* leaves a prefix of the others.                                          *)
(***************************************************************************)
EXTENDS Naturals, Sequences, FiniteSets, SequencesExt

CONSTANT FsyncForcesNames   \* the file system's fsync of a file also forces the
                            \* changes of directories made before it

ASSUME FsyncAssumption == FsyncForcesNames \in BOOLEAN

LogFile(n) == [kind |-> "log", num |-> n]
TableFile(n) == [kind |-> "table", num |-> n]
DescriptorFile(n) == [kind |-> "manifest", num |-> n]

EmptyDisk == [dirs |-> <<[names |-> {}, current |-> 0]>>, files |-> <<>>]

Dir(fs) == fs.dirs[Len(fs.dirs)]
FileExists(fs, f) == f \in Dir(fs).names
Records(fs, f) == fs.files[f].data

\* Contents of a file that no possible directory names is gone.
Trimmed(fs) ==
    LET named == UNION {fs.dirs[i].names : i \in DOMAIN fs.dirs}
    IN  [fs EXCEPT !.files = [f \in DOMAIN fs.files \cap named |-> fs.files[f]]]

With(files, f, contents) ==
    [g \in DOMAIN files \cup {f} |-> IF g = f THEN contents ELSE files[g]]

\* open(O_TRUNC | O_CREAT).
NewWritableFile(fs, f) ==
    [dirs |-> IF FileExists(fs, f)
              THEN fs.dirs
              ELSE Append(fs.dirs, [Dir(fs) EXCEPT !.names = @ \cup {f}]),
     files |-> With(fs.files, f, [data |-> <<>>, synced |-> 0])]

\* Append and Flush: the records are in the operating system's cache.
AddRecords(fs, f, records) == [fs EXCEPT !.files[f].data = @ \o records]

\* fsync of the directory.
SyncDir(fs) == Trimmed([fs EXCEPT !.dirs = <<Dir(fs)>>])

\* Sync of a manifest forces the directory first; on a journaling file system
\* every fsync does.
SyncsDir(f) == f.kind = "manifest" \/ FsyncForcesNames

Sync(fs, f) ==
    LET disk == IF SyncsDir(f) THEN SyncDir(fs) ELSE fs
    IN  [disk EXCEPT !.files[f].synced = Len(disk.files[f].data)]

\* SetCurrentFile: a temporary file is written, synced and renamed.
SetCurrentFile(fs, n) == [fs EXCEPT !.dirs = Append(@, [Dir(fs) EXCEPT !.current = n])]

\* Files are unlinked one by one.
DeleteFiles(fs, gone) ==
    LET s == SetToSeq(gone \cap Dir(fs).names)
        after(i) == [Dir(fs) EXCEPT !.names = @ \ {s[j] : j \in 1 .. i}]
    IN  [fs EXCEPT !.dirs = @ \o [i \in 1 .. Len(s) |-> after(i)]]

\* What the disk may hold after the machine died.
AfterPowerFailure(fs) ==
    UNION {LET names == fs.dirs[i].names
               loose == {f \in names : fs.files[f].synced < Len(fs.files[f].data)}
               kept(f) == fs.files[f].synced .. Len(fs.files[f].data)
               lengths == {len \in [loose -> UNION {kept(f) : f \in loose}] :
                             \A f \in loose : len[f] \in kept(f)}
               cut(len, f) == IF f \in loose THEN len[f] ELSE Len(fs.files[f].data)
           IN  {[dirs |-> <<fs.dirs[i]>>,
                 files |-> [f \in names |-> [data |-> SubSeq(fs.files[f].data, 1, cut(len, f)),
                                             synced |-> cut(len, f)]]] : len \in lengths}
           : i \in DOMAIN fs.dirs}
=============================================================================
