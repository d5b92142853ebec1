---------------------------- MODULE DBImplProofs ----------------------------
(***************************************************************************)
(* Proofs about the life of a leveldb database on disk (DBImpl): for every *)
(* number of writes, deaths and I/O errors, every size of the memtable and *)
(* both kinds of file system, what is in use exists, no number is used     *)
(* twice and no acknowledged write is lost when only the process dies.     *)
(*                                                                         *)
(* Inv relates three things.  DiskInv is about the disk alone: a failure   *)
(* may bring back an earlier state of the directory and any of the edits   *)
(* that were not synced, so each manifest that CURRENT may come to name    *)
(* must be ahead of the tables its edits name and of the batches in the    *)
(* files below them.  Typed and Steps are about the process alone.         *)
(* ProcessInv relates the two: the numbers the process will give next are  *)
(* above all that an open may meet, and what it uses is there.             *)
(*                                                                         *)
(* The lemmas go from the disk's operations (an operation touches one      *)
(* file, or appends to a manifest, or changes the directory) to the steps  *)
(* of the process; a step that touches a file which neither an open nor    *)
(* the process uses (Harmless) disturbs nothing.                           *)
(*                                                                         *)
(* KeepsInv adds where the batches are: those of the memtables in logs     *)
(* that no manifest gives up, those of the current version in tables that  *)
(* the manifest names, and, while no process has finished an open, all     *)
(* that is due in what the next open will find.                            *)
(***************************************************************************)
EXTENDS DBImpl, SequenceTheorems, FiniteSetTheorems, WellFoundedInduction, TLAPS

-----------------------------------------------------------------------------
(* Disks.                                                                  *)

File == [kind : {"log", "table", "manifest"}, num : Nat]
EditRecord ==
    [added : SUBSET Nat, deleted : SUBSET Nat, log : Nat, next : Nat, last : Nat,
     numbers : BOOLEAN]
Directory == [names : SUBSET File, current : Nat]

Dirs(disk) == {disk.dirs[i] : i \in DOMAIN disk.dirs}
Files(disk) == DOMAIN disk.files
Currents(disk) == {d.current : d \in Dirs(disk)} \ {0}
EditsIn(disk, c) == Records(disk, DescriptorFile(c))
Synced(disk, f) == disk.files[f].synced

\* What a file holds.
Item(f) == IF f.kind = "manifest" THEN EditRecord \cup {TornEdit} ELSE Batch
Content(f) == {c \in [data : Seq(Item(f)), synced : Nat] : c.synced <= Len(c.data)}

\* A disk: the directory's states are finite sets of files that have contents,
\* a manifest has edits and the other files have batches.
DirsTyped(disk) ==
    /\ disk.dirs \in Seq(Directory) /\ disk.dirs # <<>>
    /\ \A d \in Dirs(disk) : IsFiniteSet(d.names) /\ d.names \subseteq Files(disk)
IsFunction(f) == f = [x \in DOMAIN f |-> f[x]]
FilesTyped(disk) ==
    /\ IsFunction(disk.files) /\ Files(disk) \subseteq File
    /\ \A f \in Files(disk) : disk.files[f] \in Content(f)
DiskTyped(disk) ==
    /\ disk = [dirs |-> disk.dirs, files |-> disk.files]
    /\ DirsTyped(disk)
    /\ FilesTyped(disk)

LEMMA FileTypes ==
    ASSUME NEW n \in Nat
    PROVE  /\ LogFile(n) \in File /\ LogFile(n).kind = "log" /\ LogFile(n).num = n
           /\ TableFile(n) \in File /\ TableFile(n).kind = "table" /\ TableFile(n).num = n
           /\ DescriptorFile(n) \in File /\ DescriptorFile(n).kind = "manifest"
           /\ DescriptorFile(n).num = n
BY DEF LogFile, TableFile, DescriptorFile, File

LEMMA FileNames ==
    ASSUME NEW f \in File
    PROVE  /\ f.num \in Nat /\ f.kind \in {"log", "table", "manifest"}
           /\ f.kind = "log" => f = LogFile(f.num)
           /\ f.kind = "table" => f = TableFile(f.num)
           /\ f.kind = "manifest" => f = DescriptorFile(f.num)
BY DEF LogFile, TableFile, DescriptorFile, File

LEMMA FilesDiffer ==
    ASSUME NEW m \in Nat, NEW n \in Nat
    PROVE  /\ LogFile(m) # TableFile(n) /\ LogFile(m) # DescriptorFile(n)
           /\ TableFile(m) # DescriptorFile(n)
           /\ LogFile(m) = LogFile(n) => m = n
           /\ TableFile(m) = TableFile(n) => m = n
           /\ DescriptorFile(m) = DescriptorFile(n) => m = n
BY FileTypes

LEMMA EditsNotTorn == TornEdit \notin EditRecord
<1>. SUFFICES ASSUME TornEdit \in EditRecord PROVE FALSE
  OBVIOUS
<1>1. DOMAIN TornEdit = {"torn"}
  BY DEF TornEdit
<1>2. DOMAIN TornEdit = {"added", "deleted", "log", "next", "last", "numbers"}
  BY DEF EditRecord
<1>. QED
  BY <1>1, <1>2

\* What the parts of a disk are.
LEMMA DirParts ==
    ASSUME NEW D, DirsTyped(D)
    PROVE  /\ DOMAIN D.dirs = 1 .. Len(D.dirs) /\ Len(D.dirs) \in Nat /\ Len(D.dirs) >= 1
           /\ Dir(D) \in Dirs(D) /\ Dirs(D) \subseteq Directory
           /\ \A d \in Dirs(D) : d.current \in Nat /\ d.names \subseteq File
                                 /\ d = [names |-> d.names, current |-> d.current]
<1>1. DOMAIN D.dirs = 1 .. Len(D.dirs) /\ Len(D.dirs) \in Nat /\ Len(D.dirs) >= 1
  BY LenProperties, EmptySeq DEF DirsTyped
<1>2. Dir(D) \in Dirs(D)
  BY <1>1 DEF Dir, Dirs
<1>3. Dirs(D) \subseteq Directory
  BY <1>1, ElementOfSeq DEF Dirs, DirsTyped
<1>4. \A d \in Dirs(D) : d.current \in Nat /\ d.names \subseteq File
                         /\ d = [names |-> d.names, current |-> d.current]
  BY <1>3 DEF Directory
<1>. QED
  BY <1>1, <1>2, <1>3, <1>4

LEMMA FileParts ==
    ASSUME NEW D, FilesTyped(D), NEW f \in Files(D)
    PROVE  /\ f \in File
           /\ D.files[f].data = Records(D, f)
           /\ Records(D, f) \in Seq(Item(f))
           /\ D.files[f] = [data |-> Records(D, f), synced |-> Synced(D, f)]
           /\ Synced(D, f) \in Nat /\ Len(Records(D, f)) \in Nat
           /\ Synced(D, f) <= Len(Records(D, f))
           /\ DOMAIN Records(D, f) = 1 .. Len(Records(D, f))
           /\ \A i \in DOMAIN Records(D, f) : Records(D, f)[i] \in Item(f)
<1>1. f \in File /\ D.files[f] \in Content(f)
  BY DEF FilesTyped
<1>2. Records(D, f) \in Seq(Item(f))
  BY <1>1 DEF Content, Records
<1>3. /\ Len(Records(D, f)) \in Nat /\ DOMAIN Records(D, f) = 1 .. Len(Records(D, f))
      /\ \A i \in DOMAIN Records(D, f) : Records(D, f)[i] \in Item(f)
  BY <1>2, LenProperties, ElementOfSeq
<1>. QED
  BY <1>1, <1>2, <1>3 DEF Content, Records, Synced

LEMMA ContentMade ==
    ASSUME NEW f, NEW s \in Seq(Item(f)), NEW n \in Nat, n <= Len(s)
    PROVE  [data |-> s, synced |-> n] \in Content(f)
BY DEF Content

\* The directory changes.
LEMMA DirsAppended ==
    ASSUME NEW D, DirsTyped(D), NEW new \in Directory, IsFiniteSet(new.names),
           NEW E, E.dirs = Append(D.dirs, new), Files(D) \subseteq Files(E),
           new.names \subseteq Files(E)
    PROVE  DirsTyped(E) /\ Dir(E) = new /\ Dirs(E) = Dirs(D) \cup {new}
<1>1. /\ E.dirs \in Seq(Directory) /\ E.dirs # <<>> /\ Len(E.dirs) = Len(D.dirs) + 1
      /\ \A i \in 1 .. Len(D.dirs) : E.dirs[i] = D.dirs[i]
      /\ E.dirs[Len(D.dirs) + 1] = new
  BY AppendProperties DEF DirsTyped
<1>2. DOMAIN E.dirs = 1 .. Len(D.dirs) + 1
  BY <1>1, LenProperties
<1>3. DOMAIN D.dirs = 1 .. Len(D.dirs) /\ Len(D.dirs) \in Nat
  BY DirParts
<1>4. Dirs(E) = Dirs(D) \cup {new}
  BY <1>1, <1>2, <1>3, SMTT(30) DEF Dirs
<1>5. \A d \in Dirs(E) : IsFiniteSet(d.names) /\ d.names \subseteq Files(E)
  BY <1>4 DEF DirsTyped
<1>. QED
  BY <1>1, <1>4, <1>5 DEF DirsTyped, Dir

\* A file gets new contents.
LEMMA FileReplaced ==
    ASSUME NEW D, FilesTyped(D), NEW f \in File, NEW c \in Content(f), NEW E,
           IsFunction(E.files), Files(E) = Files(D) \cup {f}, E.files[f] = c,
           \A g \in Files(D) : g # f => E.files[g] = D.files[g]
    PROVE  FilesTyped(E)
BY DEF FilesTyped

\* open(O_TRUNC | O_CREAT).
LEMMA NewFileDisk ==
    ASSUME NEW D, DiskTyped(D), NEW f \in File, NEW E, E = NewWritableFile(D, f)
    PROVE  /\ DiskTyped(E)
           /\ Files(E) = Files(D) \cup {f}
           /\ Records(E, f) = <<>> /\ Synced(E, f) = 0
           /\ \A g \in Files(D) : g # f => E.files[g] = D.files[g]
           /\ Dir(E).names = Dir(D).names \cup {f} /\ Dir(E).current = Dir(D).current
           /\ Dirs(E) = Dirs(D) \cup {Dir(E)}
<1>. DEFINE new == [Dir(D) EXCEPT !.names = @ \cup {f}]
            dirs == IF FileExists(D, f) THEN D.dirs ELSE Append(D.dirs, new)
            empty == [data |-> <<>>, synced |-> 0]
            files == [g \in Files(D) \cup {f} |-> IF g = f THEN empty ELSE D.files[g]]
<1>0. DirsTyped(D) /\ FilesTyped(D)
  BY DEF DiskTyped
<1>1. E = [dirs |-> dirs, files |-> files] /\ E.dirs = dirs /\ E.files = files
  BY DEF NewWritableFile, With, Files
<1>2. empty \in Content(f)
  <2>1. <<>> \in Seq(Item(f)) /\ 0 \in Nat /\ 0 <= Len(<<>>)
    OBVIOUS
  <2>. QED
    BY <2>1, ContentMade
<1>3. /\ FilesTyped(E) /\ Files(E) = Files(D) \cup {f} /\ E.files[f] = empty
      /\ \A g \in Files(D) : g # f => E.files[g] = D.files[g]
  <2>. HIDE DEF empty
  <2>1. /\ Files(E) = Files(D) \cup {f} /\ E.files[f] = empty /\ IsFunction(E.files)
        /\ \A g \in Files(D) : g # f => E.files[g] = D.files[g]
    BY <1>1 DEF Files, IsFunction
  <2>. QED
    BY <1>0, <1>2, <2>1, FileReplaced
<1>4. /\ new \in Directory /\ IsFiniteSet(new.names) /\ new.names = Dir(D).names \cup {f}
      /\ new.current = Dir(D).current /\ new.names \subseteq Files(E)
  <2>1. Dir(D) \in Dirs(D) /\ Dir(D) \in Directory
    BY <1>0, DirParts
  <2>2. new = [names |-> Dir(D).names \cup {f}, current |-> Dir(D).current]
    BY <2>1 DEF Directory
  <2>3. IsFiniteSet(Dir(D).names) /\ Dir(D).names \subseteq Files(D)
    BY <1>0, <2>1 DEF DirsTyped
  <2>4. IsFiniteSet(Dir(D).names \cup {f})
    BY <2>3, FS_AddElement
  <2>. QED
    BY <1>3, <2>1, <2>2, <2>3, <2>4 DEF Directory
<1>. HIDE DEF new
<1>5. DirsTyped(E) /\ Dir(E) = new /\ Dirs(E) = Dirs(D) \cup {new}
  <2>1. CASE FileExists(D, f)
    <3>1. new = Dir(D)
      <4>1. Dir(D).names \cup {f} = Dir(D).names
        BY <2>1 DEF FileExists
      <4>2. Dir(D) = [names |-> Dir(D).names, current |-> Dir(D).current]
        BY <1>0, DirParts
      <4>3. new = [names |-> Dir(D).names, current |-> Dir(D).current]
        BY <4>1, <4>2 DEF new
      <4>. QED
        BY <4>2, <4>3
    <3>2. E.dirs = D.dirs
      BY <1>1, <2>1
    <3>3. Dir(E) = Dir(D) /\ Dirs(E) = Dirs(D)
      BY <3>2 DEF Dir, Dirs
    <3>4. DirsTyped(E)
      BY <1>0, <1>3, <3>2, <3>3 DEF DirsTyped
    <3>. QED
      BY <1>0, <3>1, <3>3, <3>4, DirParts
  <2>2. CASE ~FileExists(D, f)
    <3>1. E.dirs = Append(D.dirs, new)
      BY <1>1, <2>2
    <3>. QED
      BY <1>0, <1>3, <1>4, <3>1, DirsAppended
  <2>. QED
    BY <2>1, <2>2
<1>6. DiskTyped(E)
  BY <1>1, <1>3, <1>5 DEF DiskTyped
<1>. QED
  BY <1>3, <1>4, <1>5, <1>6 DEF Records, Synced

\* Append and Flush.
LEMMA AddRecordsDisk ==
    ASSUME NEW D, DiskTyped(D), NEW f \in Files(D), NEW s \in Seq(Item(f)),
           NEW E, E = AddRecords(D, f, s)
    PROVE  /\ DiskTyped(E)
           /\ Files(E) = Files(D)
           /\ Records(E, f) = Records(D, f) \o s /\ Synced(E, f) = Synced(D, f)
           /\ \A g \in Files(D) : g # f => E.files[g] = D.files[g]
           /\ Dir(E) = Dir(D) /\ Dirs(E) = Dirs(D)
<1>. DEFINE c == [data |-> Records(D, f) \o s, synced |-> Synced(D, f)]
            files == [g \in Files(D) \cup {f} |-> IF g = f THEN c ELSE D.files[g]]
<1>0. DirsTyped(D) /\ FilesTyped(D) /\ D = [dirs |-> D.dirs, files |-> D.files]
  BY DEF DiskTyped
<1>1. c \in Content(f)
  <2>0. /\ Records(D, f) \in Seq(Item(f)) /\ Synced(D, f) \in Nat /\ Len(Records(D, f)) \in Nat
        /\ Synced(D, f) <= Len(Records(D, f))
    BY <1>0, FileParts
  <2>1. Records(D, f) \o s \in Seq(Item(f)) /\ Len(Records(D, f) \o s) = Len(Records(D, f)) + Len(s)
        /\ Len(s) \in Nat
    BY <2>0, ConcatProperties, LenProperties
  <2>2. Synced(D, f) \in Nat /\ Synced(D, f) <= Len(Records(D, f)) + Len(s)
    BY <2>0, <2>1
  <2>. QED
    BY <2>0, <2>1, <2>2, ContentMade
<1>2. E = [dirs |-> D.dirs, files |-> files] /\ E.dirs = D.dirs /\ E.files = files
  <2>1. D.files[f] = [data |-> Records(D, f), synced |-> Synced(D, f)]
    BY <1>0, FileParts
  <2>2. [D.files[f] EXCEPT !.data = @ \o s] = c
    <3>1. D.files[f].data = Records(D, f)
      BY DEF Records
    <3>. DEFINE t == D.files[f].data \o s
    <3>2. [D.files[f] EXCEPT !.data = t] = [data |-> t, synced |-> Synced(D, f)]
      <4>. HIDE DEF t
      <4>. QED
        BY <2>1
    <3>3. [data |-> t, synced |-> Synced(D, f)] = c
      BY <3>1
    <3>. QED
      BY <3>2, <3>3, Zenon
  <2>3. [D.files EXCEPT ![f].data = @ \o s] = files
    <3>1. D.files = [g \in Files(D) |-> D.files[g]]
      BY <1>0 DEF FilesTyped, IsFunction, Files
    <3>2. \A g \in Files(D) : g \in Files(D) \cup {f}
      OBVIOUS
    <3>. HIDE DEF c
    <3>. QED
      BY <2>2, <3>1
  <2>4. ASSUME NEW new PROVE [D EXCEPT !.files = new] = [dirs |-> D.dirs, files |-> new]
    BY <1>0
  <2>5. E = [dirs |-> D.dirs, files |-> files]
    <3>. HIDE DEF files
    <3>1. E = [D EXCEPT !.files = files]
      BY <2>3 DEF AddRecords
    <3>. QED
      BY <2>4, <3>1
  <2>. QED
    BY <2>5
<1>. HIDE DEF c
<1>3. /\ FilesTyped(E) /\ Files(E) = Files(D) /\ E.files[f] = c
      /\ \A g \in Files(D) : g # f => E.files[g] = D.files[g]
  <2>1. f \in File /\ Files(D) \cup {f} = Files(D)
    BY <1>0, FileParts
  <2>2. /\ Files(E) = Files(D) \cup {f} /\ E.files[f] = c /\ IsFunction(E.files)
        /\ \A g \in Files(D) : g # f => E.files[g] = D.files[g]
    BY <1>2 DEF Files, IsFunction
  <2>3. FilesTyped(E)
    BY <1>0, <1>1, <2>1, <2>2, FileReplaced
  <2>. QED
    BY <2>1, <2>2, <2>3
<1>4. Dir(E) = Dir(D) /\ Dirs(E) = Dirs(D) /\ DirsTyped(E)
  BY <1>0, <1>2, <1>3, SMTT(30) DEF Dir, Dirs, DirsTyped
<1>5. DiskTyped(E)
  BY <1>2, <1>3, <1>4 DEF DiskTyped
<1>. QED
  BY <1>3, <1>4, <1>5 DEF Records, Synced, c

\* fsync of the directory.
LEMMA SyncDirDisk ==
    ASSUME NEW D, DiskTyped(D), NEW E, E = SyncDir(D)
    PROVE  /\ DiskTyped(E)
           /\ Files(E) = Dir(D).names
           /\ \A g \in Files(E) : E.files[g] = D.files[g]
           /\ Dir(E) = Dir(D) /\ Dirs(E) = {Dir(D)}
<1>. DEFINE named == UNION {<<Dir(D)>>[i].names : i \in DOMAIN <<Dir(D)>>}
            files == [g \in Dir(D).names |-> D.files[g]]
<1>0. /\ DirsTyped(D) /\ FilesTyped(D) /\ D = [dirs |-> D.dirs, files |-> D.files]
      /\ Dir(D) \in Dirs(D) /\ Dir(D) \in Directory
  BY DirParts DEF DiskTyped
<1>1. Dir(D).names \subseteq Files(D) /\ IsFiniteSet(Dir(D).names)
  BY <1>0 DEF DirsTyped
<1>2. Files(D) \cap named = Dir(D).names
  <2>1. named = Dir(D).names
    <3>1. \A x : x \in named <=> x \in Dir(D).names
      <4>. HIDE DEF Dir
      <4>1. DOMAIN <<Dir(D)>> = {1} /\ <<Dir(D)>>[1] = Dir(D)
        BY Z3
      <4>. QED
        BY <4>1
    <3>. QED
      BY <3>1
  <2>. QED
    BY <1>1, <2>1
<1>3. E = [dirs |-> <<Dir(D)>>, files |-> files] /\ E.dirs = <<Dir(D)>> /\ E.files = files
  <2>1. [D EXCEPT !.dirs = <<Dir(D)>>] = [dirs |-> <<Dir(D)>>, files |-> D.files]
    BY <1>0
  <2>2. Trimmed([dirs |-> <<Dir(D)>>, files |-> D.files])
          = [dirs |-> <<Dir(D)>>, files |-> [g \in Files(D) \cap named |-> D.files[g]]]
    BY DEF Trimmed, Files
  <2>3. E = [dirs |-> <<Dir(D)>>, files |-> files]
    BY <1>2, <2>1, <2>2 DEF SyncDir
  <2>. QED
    BY <2>3
<1>4. /\ Files(E) = Dir(D).names /\ \A g \in Files(E) : E.files[g] = D.files[g]
      /\ IsFunction(E.files)
  BY <1>3 DEF Files, IsFunction
<1>5. FilesTyped(E)
  BY <1>0, <1>1, <1>4 DEF FilesTyped
<1>6. Dir(E) = Dir(D) /\ Dirs(E) = {Dir(D)} /\ E.dirs \in Seq(Directory) /\ E.dirs # <<>>
  <2>. DEFINE d == Dir(D)
  <2>1. E.dirs = <<d>> /\ d \in Directory
    BY <1>0, <1>3
  <2>. HIDE DEF d
  <2>2. <<d>>[1] = d /\ Len(<<d>>) = 1 /\ DOMAIN <<d>> = {1} /\ <<d>> \in Seq(Directory) /\ <<d>> # <<>>
    BY <2>1
  <2>3. E.dirs[Len(E.dirs)] = d /\ {E.dirs[i] : i \in DOMAIN E.dirs} = {d}
    BY <2>1, <2>2
  <2>. QED
    BY <2>1, <2>2, <2>3 DEF d, Dir, Dirs
<1>7. DirsTyped(E)
  BY <1>1, <1>4, <1>6 DEF DirsTyped
<1>. QED
  BY <1>3, <1>4, <1>5, <1>6, <1>7 DEF DiskTyped

\* fsync; the directory may be forced with it.
LEMMA SyncDisk ==
    ASSUME NEW D, DiskTyped(D), NEW f \in Dir(D).names, NEW E, E = Sync(D, f)
    PROVE  /\ DiskTyped(E)
           /\ Files(E) \subseteq Files(D) /\ f \in Files(E)
           /\ Records(E, f) = Records(D, f) /\ Synced(E, f) = Len(Records(D, f))
           /\ \A g \in Files(E) : g # f => E.files[g] = D.files[g]
           /\ Dir(E) = Dir(D) /\ Dirs(E) \subseteq Dirs(D)
           /\ SyncsDir(f) => Dirs(E) = {Dir(D)} /\ Files(E) = Dir(D).names
           /\ ~SyncsDir(f) => Dirs(E) = Dirs(D) /\ Files(E) = Files(D)
<1>. DEFINE disk == IF SyncsDir(f) THEN SyncDir(D) ELSE D
            c == [data |-> Records(D, f), synced |-> Len(Records(D, f))]
<1>0. Dir(D).names \subseteq Files(D) /\ Dir(D) \in Dirs(D)
  BY DirParts DEF DiskTyped, DirsTyped
<1>1. /\ DiskTyped(disk) /\ f \in Files(disk) /\ Files(disk) \subseteq Files(D)
      /\ \A g \in Files(disk) : disk.files[g] = D.files[g]
      /\ Dir(disk) = Dir(D) /\ Dirs(disk) \subseteq Dirs(D)
      /\ SyncsDir(f) => Dirs(disk) = {Dir(D)} /\ Files(disk) = Dir(D).names
      /\ ~SyncsDir(f) => Dirs(disk) = Dirs(D) /\ Files(disk) = Files(D)
  <2>1. CASE SyncsDir(f)
    <3>1. disk = SyncDir(D)
      BY <2>1
    <3>. HIDE DEF disk
    <3>. QED
      BY <1>0, <2>1, <3>1, SyncDirDisk
  <2>2. CASE ~SyncsDir(f)
    BY <1>0, <2>2
  <2>. QED
    BY <2>1, <2>2
<1>2. E = [disk EXCEPT !.files[f].synced = Len(disk.files[f].data)]
  BY DEF Sync
<1>. HIDE DEF disk
<1>3. DirsTyped(disk) /\ FilesTyped(disk) /\ disk = [dirs |-> disk.dirs, files |-> disk.files]
  BY <1>1 DEF DiskTyped
<1>4. Records(disk, f) = Records(D, f) /\ c \in Content(f) /\ f \in File
  <2>1. Records(disk, f) = Records(D, f)
    BY <1>1 DEF Records
  <2>2. Records(disk, f) \in Seq(Item(f)) /\ Len(Records(disk, f)) \in Nat /\ f \in File
    BY <1>1, <1>3, FileParts
  <2>3. Len(Records(disk, f)) <= Len(Records(disk, f))
    BY <2>2
  <2>. QED
    BY <2>1, <2>2, <2>3, ContentMade
<1>5. E = [dirs |-> disk.dirs,
           files |-> [g \in Files(disk) \cup {f} |-> IF g = f THEN c ELSE disk.files[g]]]
  <2>1. disk.files[f] = [data |-> Records(disk, f), synced |-> Synced(disk, f)]
    BY <1>1, <1>3, FileParts
  <2>2. [disk.files[f] EXCEPT !.synced = Len(disk.files[f].data)] = c
    BY <1>4, <2>1
  <2>3. disk.files = [g \in Files(disk) |-> disk.files[g]]
    BY <1>3 DEF FilesTyped, IsFunction, Files
  <2>. HIDE DEF c
  <2>4. [disk.files EXCEPT ![f].synced = Len(disk.files[f].data)]
          = [g \in Files(disk) \cup {f} |-> IF g = f THEN c ELSE disk.files[g]]
    BY <1>1, <2>2, <2>3
  <2>5. E = [dirs |-> disk.dirs, files |-> [disk.files EXCEPT ![f].synced = Len(disk.files[f].data)]]
    BY <1>2, <1>3
  <2>. QED
    BY <2>4, <2>5
<1>6. E.dirs = disk.dirs
  BY <1>5
<1>7. E.files = [g \in Files(disk) \cup {f} |-> IF g = f THEN c ELSE disk.files[g]]
  BY <1>5
<1>. HIDE DEF c
<1>8. /\ FilesTyped(E) /\ Files(E) = Files(disk) /\ E.files[f] = c
      /\ \A g \in Files(disk) : g # f => E.files[g] = disk.files[g]
  <2>1. Files(disk) \cup {f} = Files(disk)
    BY <1>1
  <2>2. /\ Files(E) = Files(disk) \cup {f} /\ E.files[f] = c /\ IsFunction(E.files)
        /\ \A g \in Files(disk) : g # f => E.files[g] = disk.files[g]
    BY <1>7 DEF Files, IsFunction
  <2>3. FilesTyped(E)
    BY <1>3, <1>4, <2>2, FileReplaced
  <2>. QED
    BY <2>1, <2>2, <2>3
<1>9. Dir(E) = Dir(disk) /\ Dirs(E) = Dirs(disk) /\ DirsTyped(E)
  BY <1>3, <1>6, <1>8 DEF Dir, Dirs, DirsTyped
<1>10. DiskTyped(E)
  BY <1>5, <1>6, <1>7, <1>8, <1>9 DEF DiskTyped
<1>11. Records(E, f) = Records(D, f) /\ Synced(E, f) = Len(Records(D, f))
  BY <1>8 DEF Records, Synced, c
<1>. QED
  BY <1>1, <1>8, <1>9, <1>10, <1>11

\* A temporary file is renamed.
LEMMA SetCurrentDisk ==
    ASSUME NEW D, DiskTyped(D), NEW n \in Nat, NEW E, E = SetCurrentFile(D, n)
    PROVE  /\ DiskTyped(E)
           /\ Files(E) = Files(D) /\ \A g \in Files(D) : E.files[g] = D.files[g]
           /\ Dir(E).names = Dir(D).names /\ Dir(E).current = n
           /\ Dirs(E) = Dirs(D) \cup {Dir(E)}
<1>. DEFINE new == [Dir(D) EXCEPT !.current = n]
<1>0. /\ DirsTyped(D) /\ FilesTyped(D) /\ D = [dirs |-> D.dirs, files |-> D.files]
      /\ Dir(D) \in Dirs(D) /\ Dir(D) \in Directory
  BY DirParts DEF DiskTyped
<1>1. E = [dirs |-> Append(D.dirs, new), files |-> D.files]
  BY <1>0 DEF SetCurrentFile
<1>2. E.dirs = Append(D.dirs, new) /\ E.files = D.files
  BY <1>1
<1>3. /\ new \in Directory /\ new.names = Dir(D).names /\ new.current = n
      /\ IsFiniteSet(new.names) /\ new.names \subseteq Files(D)
  BY <1>0 DEF Directory, DirsTyped
<1>. HIDE DEF new
<1>4. Files(E) = Files(D) /\ FilesTyped(E)
  BY <1>0, <1>2 DEF Files, FilesTyped
<1>5. DirsTyped(E) /\ Dir(E) = new /\ Dirs(E) = Dirs(D) \cup {new}
  BY <1>0, <1>2, <1>3, <1>4, DirsAppended
<1>. QED
  BY <1>1, <1>2, <1>3, <1>4, <1>5 DEF DiskTyped

\* A finite set's elements, in some order.
LEMMA SetToSeqProperties ==
    ASSUME NEW S, IsFiniteSet(S)
    PROVE  /\ SetToSeq(S) \in Seq(S)
           /\ Range1(SetToSeq(S)) = S
<1>. DEFINE n == Cardinality(S)
<1>1. n \in Nat /\ ExistsBijection(1 .. n, S)
  BY FS_CardinalityType
<1>2. \E f \in [1 .. n -> S] : IsInjective(f)
  <2>1. PICK f : f \in Bijection(1 .. n, S)
    BY <1>1 DEF ExistsBijection
  <2>2. f \in [1 .. n -> S] /\ IsInjective(f)
    BY <2>1 DEF Bijection, Injection, IsInjective
  <2>. QED
    BY <2>2
<1>3. SetToSeq(S) \in [1 .. n -> S] /\ IsInjective(SetToSeq(S))
  BY <1>2 DEF SetToSeq
<1>4. SetToSeq(S) \in Injection(1 .. n, S)
  BY <1>3 DEF Injection, IsInjective
<1>5. Cardinality(1 .. n) = n
  BY <1>1, FS_Interval
<1>6. SetToSeq(S) \in Surjection(1 .. n, S)
  BY <1>4, <1>5, FS_Injection
<1>7. SetToSeq(S) \in Seq(S)
  BY <1>1, <1>3, SeqDef
<1>8. Range1(SetToSeq(S)) = S
  BY <1>3, <1>6 DEF Surjection, Range1
<1>. QED
  BY <1>7, <1>8

\* What a sequence holds is finite.
LEMMA ImageFinite ==
    ASSUME NEW s, NEW S, s \in Seq(S), NEW J \in SUBSET DOMAIN s
    PROVE  IsFiniteSet({s[i] : i \in J})
<1>. DEFINE T == {s[i] : i \in J}
            f == [i \in J |-> s[i]]
<1>1. DOMAIN s = 1 .. Len(s) /\ Len(s) \in Nat
  BY LenProperties
<1>2. IsFiniteSet(J)
  <2>1. IsFiniteSet(1 .. Len(s)) /\ J \in SUBSET (1 .. Len(s))
    BY <1>1, FS_Interval
  <2>. QED
    BY <2>1, FS_Subset
<1>3. f \in Surjection(J, T)
  BY DEF Surjection
<1>. QED
  BY <1>2, <1>3, FS_Surjection

LEMMA RangeFinite ==
    ASSUME NEW S, NEW s \in Seq(S)
    PROVE  IsFiniteSet(Range1(s)) /\ Range1(s) \subseteq S
<1>1. IsFiniteSet(Range1(s))
  BY ImageFinite DEF Range1
<1>2. Range1(s) \subseteq S
  BY LenProperties, ElementOfSeq DEF Range1
<1>. QED
  BY <1>1, <1>2

\* The directory changes several times.
LEMMA DirsExtended ==
    ASSUME NEW D, DirsTyped(D), NEW tail \in Seq(Directory), NEW E, E.dirs = D.dirs \o tail,
           Files(D) = Files(E), \A i \in 1 .. Len(tail) : IsFiniteSet(tail[i].names)
                                                     /\ tail[i].names \subseteq Files(D)
    PROVE  /\ DirsTyped(E)
           /\ Dirs(E) = Dirs(D) \cup {tail[i] : i \in 1 .. Len(tail)}
           /\ Dir(E) = IF tail = <<>> THEN Dir(D) ELSE tail[Len(tail)]
<1>. DEFINE m == Len(D.dirs)
            n == Len(tail)
<1>1. D.dirs \in Seq(Directory) /\ m \in Nat /\ m >= 1 /\ DOMAIN D.dirs = 1 .. m /\ n \in Nat
  BY DirParts, LenProperties DEF DirsTyped
<1>2. /\ E.dirs \in Seq(Directory) /\ Len(E.dirs) = m + n /\ DOMAIN E.dirs = 1 .. m + n
      /\ \A i \in 1 .. m + n : E.dirs[i] = IF i <= m THEN D.dirs[i] ELSE tail[i - m]
  <2>1. /\ E.dirs \in Seq(Directory) /\ Len(E.dirs) = m + n
        /\ \A i \in 1 .. m + n : E.dirs[i] = IF i <= m THEN D.dirs[i] ELSE tail[i - m]
    BY <1>1, ConcatProperties
  <2>. QED
    BY <2>1, LenProperties
<1>. HIDE DEF m, n
<1>3. Dirs(E) \subseteq Dirs(D) \cup {tail[i] : i \in 1 .. n}
  <2>1. ASSUME NEW i \in 1 .. m + n PROVE E.dirs[i] \in Dirs(D) \cup {tail[k] : k \in 1 .. n}
    <3>1. CASE i <= m
      <4>1. i \in 1 .. m
        BY <1>1, <3>1
      <4>. QED
        BY <1>1, <1>2, <3>1, <4>1 DEF Dirs
    <3>2. CASE ~(i <= m)
      <4>1. i - m \in 1 .. n
        BY <1>1, <3>2
      <4>. QED
        BY <1>2, <3>2, <4>1
    <3>. QED
      BY <3>1, <3>2
  <2>. QED
    BY <1>2, <2>1 DEF Dirs
<1>4. Dirs(D) \subseteq Dirs(E)
  <2>1. ASSUME NEW i \in 1 .. m PROVE D.dirs[i] \in Dirs(E)
    <3>1. i \in 1 .. m + n /\ i <= m
      BY <1>1
    <3>. QED
      BY <1>2, <3>1 DEF Dirs
  <2>. QED
    BY <1>1, <2>1 DEF Dirs
<1>5. {tail[i] : i \in 1 .. n} \subseteq Dirs(E)
  <2>1. ASSUME NEW i \in 1 .. n PROVE tail[i] \in Dirs(E)
    <3>. DEFINE k == m + i
    <3>1. k \in 1 .. m + n /\ ~(k <= m) /\ k - m = i
      BY <1>1
    <3>. HIDE DEF k
    <3>2. E.dirs[k] = tail[i]
      BY <1>2, <3>1
    <3>. QED
      BY <1>2, <3>1, <3>2 DEF Dirs
  <2>. QED
    BY <2>1
<1>6. Dir(E) = IF tail = <<>> THEN Dir(D) ELSE tail[n]
  <2>1. Dir(E) = E.dirs[m + n] /\ m + n \in 1 .. m + n
    BY <1>1, <1>2 DEF Dir
  <2>2. CASE tail = <<>>
    <3>1. n = 0
      BY <2>2 DEF n
    <3>2. m + n = m /\ m <= m
      BY <1>1, <3>1
    <3>. QED
      BY <1>2, <2>1, <2>2, <3>2 DEF Dir, m
  <2>3. CASE tail # <<>>
    <3>1. n # 0
      BY <2>3, EmptySeq DEF n
    <3>. DEFINE k == m + n
    <3>2. k \in 1 .. m + n /\ ~(k <= m) /\ k - m = n /\ Dir(E) = E.dirs[k]
      BY <1>1, <2>1, <3>1
    <3>. HIDE DEF k
    <3>3. E.dirs[k] = tail[n]
      BY <1>2, <3>2
    <3>. QED
      BY <2>3, <3>2, <3>3
  <2>. QED
    BY <2>2, <2>3
<1>7. E.dirs # <<>>
  <2>1. Len(E.dirs) # 0
    BY <1>1, <1>2
  <2>. QED
    BY <2>1, EmptySeq
<1>8. \A d \in Dirs(E) : IsFiniteSet(d.names) /\ d.names \subseteq Files(E)
  BY <1>3 DEF DirsTyped, n
<1>. QED
  BY <1>2, <1>3, <1>4, <1>5, <1>6, <1>7, <1>8 DEF DirsTyped, n

\* Files are unlinked one by one.
LEMMA DeleteFilesDisk ==
    ASSUME NEW D, DiskTyped(D), NEW gone, NEW E, E = DeleteFiles(D, gone)
    PROVE  /\ DiskTyped(E)
           /\ Files(E) = Files(D) /\ \A f \in Files(D) : E.files[f] = D.files[f]
           /\ Dir(E).names = Dir(D).names \ gone /\ Dir(E).current = Dir(D).current
           /\ Dirs(D) \subseteq Dirs(E)
           /\ \A d \in Dirs(E) : d \in Dirs(D) \/ (/\ d.current = Dir(D).current
                                                   /\ Dir(D).names \ gone \subseteq d.names
                                                   /\ d.names \subseteq Dir(D).names)
<1>. DEFINE S == gone \cap Dir(D).names
            s == SetToSeq(S)
            n == Len(s)
            left(i) == Dir(D).names \ {s[j] : j \in 1 .. i}
            tail == [i \in 1 .. n |-> [Dir(D) EXCEPT !.names = left(i)]]
            dirs == D.dirs \o tail
<1>0. /\ DirsTyped(D) /\ FilesTyped(D) /\ D = [dirs |-> D.dirs, files |-> D.files]
      /\ Dir(D) \in Dirs(D) /\ Dir(D) \in Directory
      /\ Dir(D) = [names |-> Dir(D).names, current |-> Dir(D).current]
  BY DirParts DEF DiskTyped
<1>1. IsFiniteSet(Dir(D).names) /\ IsFiniteSet(S) /\ Dir(D).names \subseteq Files(D)
  <2>1. IsFiniteSet(Dir(D).names) /\ Dir(D).names \subseteq Files(D)
    BY <1>0 DEF DirsTyped
  <2>. QED
    BY <2>1, FS_Subset
<1>2. s \in Seq(S) /\ Range1(s) = S
  BY <1>1, SetToSeqProperties
<1>4. E = [dirs |-> dirs, files |-> D.files]
  <2>1. DeleteFiles(D, gone) = [D EXCEPT !.dirs = @ \o tail]
    BY Zenon DEF DeleteFiles
  <2>2. [D EXCEPT !.dirs = dirs] = [dirs |-> dirs, files |-> D.files]
    <3>. HIDE DEF dirs
    <3>. QED
      BY <1>0
  <2>. QED
    BY <2>1, <2>2, Zenon
<1>5. E.dirs = dirs /\ E.files = D.files
  <2>. HIDE DEF dirs
  <2>. QED
    BY <1>4
<1>. HIDE DEF s
<1>3. n \in Nat /\ DOMAIN s = 1 .. n /\ \A j \in 1 .. n : s[j] \in S
  BY <1>2, LenProperties, ElementOfSeq
<1>. HIDE DEF n
<1>6. ASSUME NEW i \in 1 .. n
      PROVE  /\ tail[i] \in Directory /\ IsFiniteSet(tail[i].names)
             /\ tail[i].current = Dir(D).current
             /\ tail[i].names \subseteq Dir(D).names /\ Dir(D).names \ gone \subseteq tail[i].names
             /\ i = n => tail[i].names = Dir(D).names \ gone
  <2>. DEFINE names == left(i)
  <2>1. tail[i] = [Dir(D) EXCEPT !.names = names]
    OBVIOUS
  <2>2. tail[i] = [names |-> names, current |-> Dir(D).current]
    <3>. HIDE DEF names, tail
    <3>. QED
      BY <1>0, <2>1
  <2>3. {s[j] : j \in 1 .. i} \subseteq gone
    BY <1>3
  <2>4. i = n => {s[j] : j \in 1 .. i} = S
    BY <1>2, <1>3 DEF Range1
  <2>5. names \subseteq Dir(D).names /\ Dir(D).names \ gone \subseteq names
        /\ (i = n => names = Dir(D).names \ gone)
    BY <2>3, <2>4
  <2>. HIDE DEF names, tail
  <2>6. IsFiniteSet(names)
    BY <1>1, <2>5, FS_Subset
  <2>7. tail[i].names = names /\ tail[i].current = Dir(D).current
    BY <2>2
  <2>8. tail[i] \in Directory
    BY <1>0, <2>2, <2>5 DEF Directory
  <2>. QED
    BY <2>5, <2>6, <2>7, <2>8
<1>7. IsFunction(tail) /\ DOMAIN tail = 1 .. n
  BY DEF IsFunction
<1>. HIDE DEF tail
<1>8. tail \in Seq(Directory) /\ Len(tail) = n
  <2>1. tail \in [1 .. n -> Directory]
    BY <1>6, <1>7 DEF IsFunction
  <2>2. tail \in Seq(Directory)
    BY <1>3, <2>1, SeqDef
  <2>3. Len(tail) \in Nat /\ 1 .. Len(tail) = 1 .. n
    BY <1>7, <2>2, LenProperties
  <2>. QED
    BY <1>3, <2>2, <2>3
<1>9. /\ DirsTyped(E) /\ Dirs(E) = Dirs(D) \cup {tail[i] : i \in 1 .. Len(tail)}
      /\ Dir(E) = IF tail = <<>> THEN Dir(D) ELSE tail[Len(tail)]
      /\ Files(E) = Files(D)
  <2>1. Files(D) = Files(E)
    BY <1>5 DEF Files
  <2>2. \A i \in 1 .. Len(tail) : IsFiniteSet(tail[i].names) /\ tail[i].names \subseteq Files(D)
    BY <1>1, <1>6, <1>8
  <2>. QED
    BY <1>0, <1>5, <1>8, <2>1, <2>2, DirsExtended, ZenonT(60)
<1>10. Dir(E).names = Dir(D).names \ gone /\ Dir(E).current = Dir(D).current
  <2>1. CASE tail = <<>>
    <3>1. n = 0
      BY <1>8, <2>1
    <3>2. S = {}
      BY <1>2, <1>3, <3>1 DEF Range1
    <3>. QED
      BY <1>9, <2>1, <3>2
  <2>2. CASE tail # <<>>
    <3>1. n # 0
      BY <1>8, <2>2, EmptySeq
    <3>2. n \in 1 .. n
      BY <1>3, <3>1
    <3>. QED
      BY <1>6, <1>8, <1>9, <2>2, <3>2
  <2>. QED
    BY <2>1, <2>2
<1>11. \A d \in Dirs(E) : d \in Dirs(D) \/ (/\ d.current = Dir(D).current
                                            /\ Dir(D).names \ gone \subseteq d.names
                                            /\ d.names \subseteq Dir(D).names)
  BY <1>6, <1>8, <1>9
<1>12. DiskTyped(E)
  <2>1. FilesTyped(E)
    BY <1>0, <1>5, <1>9 DEF FilesTyped
  <2>2. E = [dirs |-> E.dirs, files |-> E.files]
    BY <1>4, <1>5
  <2>. QED
    BY <1>9, <2>1, <2>2 DEF DiskTyped
<1>. QED
  BY <1>5, <1>9, <1>10, <1>11, <1>12

\* What the disk may hold after the machine died.
LEMMA PowerFailureDisk ==
    ASSUME NEW D, DiskTyped(D), NEW E \in AfterPowerFailure(D)
    PROVE  /\ DiskTyped(E)
           /\ \E d \in Dirs(D) : Dirs(E) = {d} /\ Dir(E) = d /\ Files(E) = d.names
           /\ Files(E) \subseteq Files(D)
           /\ \A f \in Files(E) : \E n \in Synced(D, f) .. Len(Records(D, f)) :
                 Records(E, f) = SubSeq(Records(D, f), 1, n) /\ Synced(E, f) = n
<1>0. DirsTyped(D) /\ FilesTyped(D) /\ DOMAIN D.dirs = 1 .. Len(D.dirs)
  BY DirParts DEF DiskTyped
<1>1. PICK i \in DOMAIN D.dirs :
        LET names == D.dirs[i].names
            loose == {f \in names : D.files[f].synced < Len(D.files[f].data)}
            kept(f) == D.files[f].synced .. Len(D.files[f].data)
            lengths == {len \in [loose -> UNION {kept(f) : f \in loose}] :
                          \A f \in loose : len[f] \in kept(f)}
            cut(len, f) == IF f \in loose THEN len[f] ELSE Len(D.files[f].data)
        IN  \E len \in lengths :
              E = [dirs |-> <<D.dirs[i]>>,
                   files |-> [f \in names |-> [data |-> SubSeq(D.files[f].data, 1, cut(len, f)),
                                               synced |-> cut(len, f)]]]
  BY ZenonT(60) DEF AfterPowerFailure
<1>. DEFINE d == D.dirs[i]
            loose == {f \in d.names : D.files[f].synced < Len(D.files[f].data)}
<1>2. d \in Dirs(D) /\ d \in Directory /\ d.names \subseteq Files(D) /\ IsFiniteSet(d.names)
  BY <1>0, DirParts DEF Dirs, DirsTyped
<1>3. PICK len : /\ \A f \in loose : len[f] \in D.files[f].synced .. Len(D.files[f].data)
                 /\ E = [dirs |-> <<d>>,
                         files |-> [f \in d.names |->
                                     [data |-> SubSeq(D.files[f].data, 1,
                                                IF f \in loose THEN len[f] ELSE Len(D.files[f].data)),
                                      synced |-> IF f \in loose THEN len[f]
                                                 ELSE Len(D.files[f].data)]]]
  BY <1>1
<1>. DEFINE cut == [f \in d.names |-> IF f \in loose THEN len[f] ELSE Len(D.files[f].data)]
            c == [f \in d.names |-> [data |-> SubSeq(Records(D, f), 1, cut[f]), synced |-> cut[f]]]
<1>4. E.dirs = <<d>> /\ E.files = c /\ E = [dirs |-> E.dirs, files |-> E.files]
  BY <1>3 DEF Records
<1>5. ASSUME NEW f \in d.names
      PROVE  /\ cut[f] \in Synced(D, f) .. Len(Records(D, f))
             /\ c[f] \in Content(f)
  <2>0. f \in Files(D)
    BY <1>2
  <2>1. /\ Records(D, f) \in Seq(Item(f)) /\ Synced(D, f) \in Nat /\ Len(Records(D, f)) \in Nat
        /\ Synced(D, f) <= Len(Records(D, f)) /\ DOMAIN Records(D, f) = 1 .. Len(Records(D, f))
        /\ \A k \in DOMAIN Records(D, f) : Records(D, f)[k] \in Item(f)
    BY <1>0, <2>0, FileParts
  <2>2. cut[f] \in Synced(D, f) .. Len(Records(D, f))
    BY <1>3, <2>1 DEF Synced, Records
  <2>. HIDE DEF cut
  <2>3. cut[f] \in Nat /\ \A k \in 1 .. cut[f] : Records(D, f)[k] \in Item(f)
    BY <2>1, <2>2
  <2>4. /\ SubSeq(Records(D, f), 1, cut[f]) \in Seq(Item(f))
        /\ Len(SubSeq(Records(D, f), 1, cut[f])) = cut[f]
    BY <2>3, SubSeqProperties
  <2>5. cut[f] <= Len(SubSeq(Records(D, f), 1, cut[f]))
    BY <2>3, <2>4
  <2>6. c[f] \in Content(f)
    BY <2>3, <2>4, <2>5, ContentMade
  <2>. QED
    BY <2>2, <2>6
<1>. HIDE DEF cut
<1>6. /\ Files(E) = d.names /\ IsFunction(E.files)
      /\ \A f \in d.names : E.files[f] = c[f] /\ Records(E, f) = SubSeq(Records(D, f), 1, cut[f])
                            /\ Synced(E, f) = cut[f]
  <2>1. DOMAIN c = d.names /\ IsFunction(c)
    BY DEF IsFunction
  <2>2. \A f \in d.names : c[f].data = SubSeq(Records(D, f), 1, cut[f]) /\ c[f].synced = cut[f]
    OBVIOUS
  <2>. HIDE DEF c
  <2>. QED
    BY <1>4, <2>1, <2>2 DEF Files, Records, Synced
<1>. HIDE DEF c, d
<1>7. Dirs(E) = {d} /\ Dir(E) = d /\ E.dirs \in Seq(Directory) /\ E.dirs # <<>>
  <2>1. E.dirs = <<d>>
    BY <1>4
  <2>2. <<d>>[1] = d /\ Len(<<d>>) = 1 /\ DOMAIN <<d>> = {1} /\ <<d>> \in Seq(Directory) /\ <<d>> # <<>>
    BY <1>2
  <2>3. E.dirs[Len(E.dirs)] = d /\ {E.dirs[k] : k \in DOMAIN E.dirs} = {d}
    BY <2>1, <2>2
  <2>. QED
    BY <2>1, <2>2, <2>3 DEF Dir, Dirs
<1>8. DiskTyped(E)
  <2>1. DirsTyped(E)
    BY <1>2, <1>6, <1>7 DEF DirsTyped
  <2>2. FilesTyped(E)
    BY <1>0, <1>2, <1>5, <1>6 DEF FilesTyped
  <2>. QED
    BY <1>4, <2>1, <2>2 DEF DiskTyped
<1>. QED
  BY <1>2, <1>5, <1>6, <1>7, <1>8

-----------------------------------------------------------------------------
(* What an open may meet: every manifest that CURRENT may name, in one of  *)
(* the directory's states, is ahead of the files its edits name and of     *)
(* what is in them.                                                        *)

Numbered(g) == g # TornEdit /\ g.numbers

\* CURRENT moves forward, and names a file that is there.
DirsRight(disk) ==
    \A d \in Dirs(disk) :
        /\ d.current <= Dir(disk).current
        /\ d.current # 0 => DescriptorFile(d.current) \in d.names
        /\ d.current = 0 => d.names \subseteq {DescriptorFile(1)}
FirstDir(disk) == Dir(disk).current = 0 => Files(disk) \subseteq {DescriptorFile(1)}

TableBelow(disk, t, n, s) ==
    /\ t > 0 /\ t < n
    /\ TableFile(t) \in Files(disk) => \A b \in ReadTable(disk, t) : b.seq <= s
LogsBelow(disk, n, s) ==
    \A m \in Nat : LogFile(m) \in Files(disk) /\ m < n => \A b \in ReadLog(disk, m) : b.seq <= s

\* The k-th edit of c is not after the l-th of d.
Before(c, k, d, l) == c < d \/ (c = d /\ k <= l)

EditsRight(disk) ==
    \A d \in Currents(disk) : \A l \in DOMAIN EditsIn(disk, d) :
       LET g == EditsIn(disk, d)[l]
       IN  Numbered(g) => d < g.next /\ g.log < g.next /\ LogsBelow(disk, g.log, g.last)
PairsRight(disk) ==
    \A d \in Currents(disk) : \A l \in DOMAIN EditsIn(disk, d) :
    \A c \in Currents(disk) : \A k \in DOMAIN EditsIn(disk, c) :
       LET g == EditsIn(disk, d)[l]
           e == EditsIn(disk, c)[k]
       IN  Numbered(g) /\ e # TornEdit /\ Before(c, k, d, l) =>
           /\ \A t \in e.added : TableBelow(disk, t, g.next, g.last)
           /\ e.numbers => e.next <= g.next

\* The tables that some edit names.
Named(disk) ==
    {t \in Nat : \E c \in Currents(disk) : \E k \in DOMAIN EditsIn(disk, c) :
                     EditsIn(disk, c)[k] # TornEdit /\ t \in EditsIn(disk, c)[k].added}

NextsUpTo(disk, n) ==
    \A c \in Currents(disk) : \A k \in DOMAIN EditsIn(disk, c) :
       Numbered(EditsIn(disk, c)[k]) => EditsIn(disk, c)[k].next <= n
LogsUpTo(disk, n) ==
    \A c \in Currents(disk) : \A k \in DOMAIN EditsIn(disk, c) :
       Numbered(EditsIn(disk, c)[k]) => EditsIn(disk, c)[k].log <= n

DiskInv(disk) ==
    DiskTyped(disk) /\ DirsRight(disk) /\ FirstDir(disk) /\ EditsRight(disk) /\ PairsRight(disk)

\* The batches that an open may meet.
Logged(disk) == UNION {ReadLog(disk, m) : m \in {n \in Nat : LogFile(n) \in Files(disk)}}
Tabled(disk) == UNION {ReadTable(disk, t) : t \in {u \in Named(disk) : TableFile(u) \in Files(disk)}}

-----------------------------------------------------------------------------
(* The process.                                                            *)

Found == IF phase = "up" THEN {} ELSE recovered
Reading == IF held = NoReader THEN {} ELSE held
Writing == IF writer.step = "idle" THEN {} ELSE {writer.batch}

WriteRecord == [step : {"idle", "logged", "synced"}, batch : Batch, sync : BOOLEAN]
FlushRecord == [step : {"none", "build", "apply"}, out : Nat]
CompactionRecord ==
    [step : {"none", "running", "written", "apply"}, inputs : SUBSET Nat, base : SUBSET Nat,
     out : Nat]
ApplyRecord ==
    [step : {"none", "append", "sync", "current", "install", "failed"}, edit : EditRecord,
     for : {"none", "open", "flush", "compaction"}]

TypedMemory ==
    /\ phase \in {"down", "recovering", "opening", "up"}
    /\ mem \in Seq(Batch) /\ imm \in Seq(Batch) /\ hasImm \in BOOLEAN /\ logNumber \in Nat
TypedVersion ==
    /\ version \in SUBSET Nat /\ held \in SUBSET Nat /\ pending \in SUBSET Nat
    /\ toRecover \in SUBSET Nat /\ recovered \in SUBSET Nat
    /\ nextFile \in Nat /\ nextFile > 0 /\ lastSequence \in Nat /\ versionLog \in Nat
    /\ manifest \in Nat /\ bgError \in BOOLEAN
TypedWork ==
    /\ writer \in WriteRecord /\ flush \in FlushRecord
    /\ comp \in CompactionRecord /\ apply \in ApplyRecord
TypedHistory ==
    /\ written \in 0 .. MaxWrites /\ safe \subseteq 1 .. written /\ limbo \subseteq 1 .. written
    /\ writer.step # "idle" => writer.batch.id \in 1 .. written
Typed == TypedMemory /\ TypedVersion /\ TypedWork /\ TypedHistory

Quiet ==
    /\ mem = <<>> /\ imm = <<>> /\ hasImm = FALSE /\ held = NoReader /\ pending = {}
    /\ bgError = FALSE
    /\ writer = NoWrite /\ flush = NoFlush /\ comp = NoCompaction

Steps ==
    /\ phase # "up" => Quiet
    /\ phase \in {"down", "recovering"} => apply = NoApply /\ logNumber = 0
    /\ phase = "down" => version = {} /\ recovered = {} /\ toRecover = {} /\ logNumber = 0 /\ nextFile = 2
    /\ phase \in {"opening", "up"} => toRecover = {}
    /\ apply.step = "none" <=> apply.for = "none"
    /\ apply.step = "current" => apply.for = "open"
    /\ apply.for = "open" <=> phase = "opening"
    /\ apply.for = "flush" <=> flush.step = "apply"
    /\ apply.for = "compaction" <=> comp.step = "apply"
    /\ flush.step = "none" => flush = NoFlush
    /\ comp.step = "none" => comp = NoCompaction
    /\ apply.step = "none" => apply = NoApply
    /\ flush.step # "none" => hasImm /\ comp.step # "apply"
    /\ ~hasImm => imm = <<>>
    /\ writer.step = "idle" => writer = NoWrite
    /\ writer.step # "idle" => writer.batch.seq = lastSequence + 1

Numbers(disk) ==
    phase # "down" =>
      /\ manifest < nextFile /\ Dir(disk).current > 0
      /\ phase = "up" => Dir(disk).current = manifest
      /\ phase # "up" => Dir(disk).current <= manifest
      /\ phase # "up" /\ apply.step # "install" => Dir(disk).current < manifest
      /\ phase = "opening" /\ apply.step = "install" => Dir(disk).current = manifest
      /\ \A t \in Named(disk) : t > 0 /\ t < nextFile
      /\ NextsUpTo(disk, nextFile)
      /\ phase = "recovering" => versionLog < nextFile
      /\ phase \in {"opening", "up"} => versionLog <= logNumber /\ logNumber < nextFile
                                        /\ LogsUpTo(disk, logNumber)
      /\ \A m \in Nat : LogFile(m) \in Files(disk) => m < nextFile \/ m \in toRecover
      /\ version \cup Found \cup pending \cup comp.base \cup Reading \subseteq 1 .. nextFile - 1

LastEdit(disk) == Edits(disk)[Len(Edits(disk))]

\* Deleted logs, which the death of the machine may bring back, are not needed.
LogsGone(disk) ==
    /\ phase # "down" =>
          /\ \A m \in Nat : LogFile(m) \in Files(disk) \ Dir(disk).names => m < versionLog
          /\ Edits(disk) # <<>> /\ LastEdit(disk) # TornEdit => LastEdit(disk).log >= versionLog
    /\ phase = "down" /\ Readable(disk) =>
          \A m \in Nat : LogFile(m) \in Files(disk) \ Dir(disk).names => m < LastEdit(disk).log

\* The tables that a flush and a compaction make.
Outputs(disk) ==
    /\ flush.step = "build" => flush.out \in pending /\ flush.out \notin Named(disk)
    /\ flush.step = "apply" =>
          /\ flush.out \in 1 .. nextFile - 1 /\ flush.out \notin version /\ flush.out \notin pending
          /\ FileExists(disk, TableFile(flush.out))
    /\ comp.step # "none" =>
          /\ comp.out \in pending /\ comp.out # flush.out
          /\ comp.inputs \subseteq version /\ comp.out \notin comp.base
          /\ FileExists(disk, TableFile(comp.out))
          /\ Cardinality(comp.inputs) = 2
    /\ comp.step \in {"running", "written"} => comp.out \notin Named(disk)
    /\ pending \cap version = {}
OutputsWritten(disk) ==
    /\ flush.step = "apply" => ReadTable(disk, flush.out) = Range1(imm)
    /\ comp.step = "running" => Records(disk, TableFile(comp.out)) = <<>>
    /\ comp.step \in {"written", "apply"} =>
          ReadTable(disk, comp.out) = UNION {ReadTable(disk, t) : t \in comp.inputs}

InUse(disk) ==
    /\ phase # "down" => \A t \in version \cup Found \cup comp.base \cup Reading :
                            FileExists(disk, TableFile(t))
    /\ phase \in {"opening", "up"} => FileExists(disk, LogFile(logNumber))

SeqsBelow(disk) ==
    phase # "down" =>
       /\ \A t \in version \cup Found \cup Named(disk) : TableFile(t) \in Files(disk) =>
             \A b \in ReadTable(disk, t) : b.seq <= lastSequence
       /\ \A b \in Range1(mem) \cup Range1(imm) : b.seq <= lastSequence
       /\ \A m \in Nat \ toRecover : LogFile(m) \in Files(disk) =>
             \A b \in ReadLog(disk, m) : b.seq <= lastSequence \/ (m = logNumber /\ b \in Writing)

\* A sequence number is given to one batch, among those a reader or an open
\* may meet.
Unique(S) == \A a, b \in S : a.seq = b.seq => a = b
Shown(disk) == Range1(mem) \cup Range1(imm) \cup UNION {ReadTable(disk, t) : t \in version}
BatchesUnique(disk) == Unique(Logged(disk) \cup Tabled(disk) \cup Shown(disk) \cup Writing)

\* What was recovered is still in the logs.
LoggedNow(disk) == UNION {ReadLog(disk, m) : m \in {n \in Nat : FileExists(disk, LogFile(n))}}
RecoveredRight(disk) ==
    /\ \A t \in Found : ReadTable(disk, t) \subseteq LoggedNow(disk)
    /\ \A m \in toRecover : FileExists(disk, LogFile(m))

\* The edit being applied is ahead of everything it will follow.
EditAhead(disk, c, V, e) ==
    /\ e \in EditRecord /\ e.numbers /\ V \subseteq Nat
    /\ c < e.next /\ e.log < e.next
    /\ NextsUpTo(disk, e.next)
    /\ LogsBelow(disk, e.log, e.last)
    /\ \A t \in Named(disk) \cup V \cup e.added : TableBelow(disk, t, e.next, e.last)
EditRight(disk) ==
    apply.step # "none" =>
       LET e == apply.edit
       IN  /\ EditAhead(disk, manifest, version, e)
           /\ e.next <= nextFile /\ e.log <= logNumber /\ versionLog <= e.log
           /\ apply.for = "open" => e.added = recovered /\ e.deleted = {} /\ e.log = logNumber
           /\ apply.for = "flush" => e.added = {flush.out} /\ e.deleted = {} /\ e.log = logNumber
           /\ apply.for = "compaction" =>
                 e.added = {comp.out} /\ e.deleted = comp.inputs /\ e.log = versionLog
EditWritten(disk) ==
    /\ apply.for = "open" /\ apply.step \in {"sync", "current", "install"} =>
          /\ FileExists(disk, DescriptorFile(manifest))
          /\ EditsIn(disk, manifest) = <<Snapshot(version), apply.edit>>
    /\ apply.step \in {"sync", "current", "install"} =>
          EditsIn(disk, manifest) # <<>> /\ EditsIn(disk, manifest)[Len(EditsIn(disk, manifest))] = apply.edit

ProcessInv(disk) ==
    /\ Numbers(disk) /\ LogsGone(disk) /\ Outputs(disk) /\ OutputsWritten(disk) /\ InUse(disk)
    /\ SeqsBelow(disk) /\ BatchesUnique(disk) /\ RecoveredRight(disk) /\ EditRight(disk)
    /\ EditWritten(disk)

Inv == DiskInv(fs) /\ Typed /\ Steps /\ ProcessInv(fs)

-----------------------------------------------------------------------------
(* Sequences and what is read of them.                                     *)

\* The log reader stops at part of a record.
Seen(s) == {s[i] : i \in {j \in DOMAIN s : \A k \in 1 .. j : s[k] # Torn}}

LEMMA SeenLog == \A D, m : ReadLog(D, m) = Seen(Records(D, LogFile(m)))
BY DEF ReadLog, Seen

\* s is what t starts with.
Prefix(s, t) == DOMAIN s \subseteq DOMAIN t /\ \A i \in DOMAIN s : s[i] = t[i]

LEMMA SeenOfPrefix ==
    ASSUME NEW S, NEW s \in Seq(S), NEW t \in Seq(S), Prefix(s, t)
    PROVE  Seen(s) \subseteq Seen(t) /\ Range1(s) \subseteq Range1(t)
<1>1. DOMAIN s = 1 .. Len(s) /\ Len(s) \in Nat
  BY LenProperties
<1>2. Range1(s) \subseteq Range1(t)
  BY DEF Prefix, Range1
<1>3. Seen(s) \subseteq Seen(t)
  <2>1. ASSUME NEW j \in DOMAIN s, \A k \in 1 .. j : s[k] # Torn
        PROVE  s[j] = t[j] /\ j \in DOMAIN t /\ \A k \in 1 .. j : t[k] # Torn
    <3>1. \A k \in 1 .. j : k \in DOMAIN s
      BY <1>1
    <3>. QED
      BY <2>1, <3>1 DEF Prefix
  <2>. QED
    BY <2>1 DEF Seen
<1>. QED
  BY <1>2, <1>3

LEMMA SeenInRange ==
    ASSUME NEW S, NEW s \in Seq(S)
    PROVE  Seen(s) \subseteq Range1(s) \ {Torn} /\ Seen(s) \subseteq S /\ IsFiniteSet(Seen(s))
<1>1. DOMAIN s = 1 .. Len(s) /\ Len(s) \in Nat
  BY LenProperties
<1>2. Seen(s) \subseteq Range1(s) \ {Torn}
  <2>1. \A j \in DOMAIN s : j \in 1 .. j
    BY <1>1
  <2>. QED
    BY <2>1 DEF Seen, Range1
<1>3. Range1(s) \subseteq S
  BY RangeFinite
<1>4. IsFiniteSet(Seen(s))
  BY ImageFinite DEF Seen
<1>. QED
  BY <1>2, <1>3, <1>4

LEMMA EmptySeen == Seen(<<>>) = {} /\ Range1(<<>>) = {}
BY DEF Seen, Range1

\* One more record.
LEMMA OneMore ==
    ASSUME NEW S, NEW s \in Seq(S), NEW b \in S
    PROVE  /\ s \o <<b>> \in Seq(S) /\ Len(s \o <<b>>) = Len(s) + 1 /\ Len(s) \in Nat
           /\ DOMAIN s = 1 .. Len(s) /\ DOMAIN (s \o <<b>>) = 1 .. Len(s) + 1
           /\ \A i \in 1 .. Len(s) : (s \o <<b>>)[i] = s[i]
           /\ (s \o <<b>>)[Len(s) + 1] = b
           /\ Prefix(s, s \o <<b>>)
           /\ Range1(s \o <<b>>) = Range1(s) \cup {b}
<1>. DEFINE t == s \o <<b>>
            n == Len(s)
            u == <<b>>
<1>1. n \in Nat /\ DOMAIN s = 1 .. n
  BY LenProperties
<1>2. u \in Seq(S) /\ Len(u) = 1 /\ u[1] = b
  OBVIOUS
<1>. HIDE DEF u
<1>3. /\ t \in Seq(S) /\ Len(t) = n + 1
      /\ \A i \in 1 .. n + 1 : t[i] = IF i <= n THEN s[i] ELSE u[i - n]
  BY <1>2, ConcatProperties DEF u
<1>4. DOMAIN t = 1 .. n + 1
  BY <1>3, LenProperties
<1>. HIDE DEF n, t
<1>5. \A i \in 1 .. n : t[i] = s[i]
  <2>1. \A i \in 1 .. n : i \in 1 .. n + 1 /\ i <= n
    BY <1>1
  <2>. QED
    BY <1>3, <2>1
<1>6. t[n + 1] = b
  <2>. DEFINE k == n + 1
  <2>1. k \in 1 .. n + 1 /\ ~(k <= n) /\ k - n = 1
    BY <1>1
  <2>. HIDE DEF k
  <2>2. t[k] = b
    BY <1>2, <1>3, <2>1
  <2>. QED
    BY <2>2 DEF k
<1>7. DOMAIN t = DOMAIN s \cup {n + 1}
  BY <1>1, <1>4
<1>8. Prefix(s, t)
  BY <1>1, <1>5, <1>7 DEF Prefix
<1>9. Range1(t) = Range1(s) \cup {b}
  BY <1>1, <1>5, <1>6, <1>7 DEF Range1
<1>. QED
  BY <1>1, <1>3, <1>4, <1>5, <1>6, <1>8, <1>9 DEF n, t

LEMMA SeenOneMore ==
    ASSUME NEW S, NEW s \in Seq(S), NEW b \in S
    PROVE  /\ Seen(s) \subseteq Seen(s \o <<b>>)
           /\ Seen(s \o <<b>>) \subseteq Seen(s) \cup ({b} \ {Torn})
           /\ Torn \notin Range1(s) /\ b # Torn => b \in Seen(s \o <<b>>)
<1>. DEFINE t == s \o <<b>>
            n == Len(s)
<1>1. /\ t \in Seq(S) /\ Len(t) = n + 1 /\ n \in Nat
      /\ DOMAIN s = 1 .. n /\ DOMAIN t = 1 .. n + 1
      /\ \A i \in 1 .. n : t[i] = s[i]
      /\ t[n + 1] = b
      /\ Prefix(s, t)
  BY OneMore
<1>. HIDE DEF t, n
<1>2. Seen(s) \subseteq Seen(t)
  BY <1>1, SeenOfPrefix
<1>3. ASSUME NEW j \in 1 .. n + 1, \A k \in 1 .. j : t[k] # Torn
      PROVE  t[j] \in Seen(s) \cup ({b} \ {Torn})
  <2>1. CASE j = n + 1
    BY <1>1, <1>3, <2>1
  <2>2. CASE j # n + 1
    <3>1. j \in 1 .. n /\ \A k \in 1 .. j : k \in 1 .. n
      BY <1>1, <2>2
    <3>2. j \in DOMAIN s /\ (\A k \in 1 .. j : s[k] # Torn) /\ t[j] = s[j]
      BY <1>1, <1>3, <3>1
    <3>. QED
      BY <3>2 DEF Seen
  <2>. QED
    BY <2>1, <2>2
<1>4. Seen(t) \subseteq Seen(s) \cup ({b} \ {Torn})
  BY <1>1, <1>3 DEF Seen
<1>5. ASSUME Torn \notin Range1(s), b # Torn PROVE b \in Seen(t)
  <2>1. \A k \in 1 .. n + 1 : t[k] # Torn
    <3>1. ASSUME NEW k \in 1 .. n + 1 PROVE t[k] # Torn
      <4>1. k \in 1 .. n \/ k = n + 1
        BY <1>1
      <4>. QED
        BY <1>1, <1>5, <4>1 DEF Range1
    <3>. QED
      BY <3>1
  <2>2. n + 1 \in DOMAIN t
    BY <1>1
  <2>. QED
    BY <1>1, <2>1, <2>2 DEF Seen
<1>. QED
  BY <1>2, <1>4, <1>5 DEF t

\* What the records of a file are.
LEMMA ReadTypes ==
    ASSUME NEW D, DiskTyped(D)
    PROVE  /\ \A m \in Nat : LogFile(m) \in Files(D) =>
                 /\ Records(D, LogFile(m)) \in Seq(Batch)
                 /\ ReadLog(D, m) \subseteq Batch \ {Torn} /\ IsFiniteSet(ReadLog(D, m))
           /\ \A t \in Nat : TableFile(t) \in Files(D) =>
                 /\ Records(D, TableFile(t)) \in Seq(Batch)
                 /\ ReadTable(D, t) \subseteq Batch /\ IsFiniteSet(ReadTable(D, t))
           /\ \A c \in Nat : DescriptorFile(c) \in Files(D) =>
                 /\ EditsIn(D, c) \in Seq(EditRecord \cup {TornEdit})
                 /\ DOMAIN EditsIn(D, c) = 1 .. Len(EditsIn(D, c)) /\ Len(EditsIn(D, c)) \in Nat
                 /\ \A k \in DOMAIN EditsIn(D, c) :
                       EditsIn(D, c)[k] # TornEdit => EditsIn(D, c)[k] \in EditRecord
<1>0. FilesTyped(D)
  BY DEF DiskTyped
<1>1. ASSUME NEW m \in Nat, LogFile(m) \in Files(D)
      PROVE  /\ Records(D, LogFile(m)) \in Seq(Batch)
             /\ ReadLog(D, m) \subseteq Batch \ {Torn} /\ IsFiniteSet(ReadLog(D, m))
  <2>1. Records(D, LogFile(m)) \in Seq(Batch)
    BY <1>0, <1>1, FileParts, FileTypes DEF Item
  <2>. QED
    BY <2>1, SeenInRange, SeenLog
<1>2. ASSUME NEW t \in Nat, TableFile(t) \in Files(D)
      PROVE  /\ Records(D, TableFile(t)) \in Seq(Batch)
             /\ ReadTable(D, t) \subseteq Batch /\ IsFiniteSet(ReadTable(D, t))
  <2>1. Records(D, TableFile(t)) \in Seq(Batch)
    BY <1>0, <1>2, FileParts, FileTypes DEF Item
  <2>. QED
    BY <2>1, RangeFinite DEF ReadTable
<1>3. ASSUME NEW c \in Nat, DescriptorFile(c) \in Files(D)
      PROVE  /\ EditsIn(D, c) \in Seq(EditRecord \cup {TornEdit})
             /\ DOMAIN EditsIn(D, c) = 1 .. Len(EditsIn(D, c)) /\ Len(EditsIn(D, c)) \in Nat
             /\ \A k \in DOMAIN EditsIn(D, c) :
                   EditsIn(D, c)[k] # TornEdit => EditsIn(D, c)[k] \in EditRecord
  <2>1. EditsIn(D, c) \in Seq(EditRecord \cup {TornEdit})
    <3>1. Item(DescriptorFile(c)) = EditRecord \cup {TornEdit}
      BY FileTypes DEF Item
    <3>2. EditsIn(D, c) \in Seq(Item(DescriptorFile(c)))
      BY <1>0, <1>3, FileParts DEF EditsIn
    <3>. QED
      BY <3>1, <3>2
  <2>. QED
    BY <2>1, LenProperties, ElementOfSeq
<1>. QED
  BY <1>1, <1>2, <1>3

-----------------------------------------------------------------------------
(* Steps of the disk.                                                      *)

\* The manifests that CURRENT may name.
LEMMA CurrentFacts ==
    ASSUME NEW D, DiskTyped(D), DirsRight(D), NEW c \in Currents(D)
    PROVE  /\ c \in Nat /\ c > 0 /\ c <= Dir(D).current
           /\ DescriptorFile(c) \in Files(D) /\ DescriptorFile(c) \in File
           /\ EditsIn(D, c) \in Seq(EditRecord \cup {TornEdit})
           /\ DOMAIN EditsIn(D, c) = 1 .. Len(EditsIn(D, c)) /\ Len(EditsIn(D, c)) \in Nat
           /\ \A k \in DOMAIN EditsIn(D, c) :
                  EditsIn(D, c)[k] # TornEdit => EditsIn(D, c)[k] \in EditRecord
<1>1. PICK d \in Dirs(D) : c = d.current /\ c # 0
  BY DEF Currents
<1>2. d.current \in Nat /\ d.names \subseteq Files(D)
  BY DirParts DEF DiskTyped, DirsTyped
<1>3. c \in Nat /\ c > 0 /\ c <= Dir(D).current /\ DescriptorFile(c) \in Files(D)
  BY <1>1, <1>2 DEF DirsRight
<1>. QED
  BY <1>3, ReadTypes, FileTypes

LEMMA CurrentOfDir ==
    ASSUME NEW D, DiskTyped(D), Dir(D).current # 0
    PROVE  Dir(D).current \in Currents(D) /\ Dir(D).current \in Nat
BY DirParts DEF DiskTyped, Currents

\* E shows an open nothing that D does not, but what B adds to log m.
Within(D, E, m, B) ==
    /\ Currents(E) \subseteq Currents(D)
    /\ \A c \in Currents(E) : Prefix(EditsIn(E, c), EditsIn(D, c))
    /\ \A n \in Nat : LogFile(n) \in Files(E) =>
          \A b \in ReadLog(E, n) : \/ LogFile(n) \in Files(D) /\ b \in ReadLog(D, n)
                                   \/ n = m /\ b \in B
    /\ \A t \in Named(D) : TableFile(t) \in Files(E) =>
          TableFile(t) \in Files(D) /\ ReadTable(E, t) \subseteq ReadTable(D, t)

LEMMA WithinKeeps ==
    ASSUME NEW D, NEW E, DiskTyped(D), DiskTyped(E), DirsRight(D), DirsRight(E), NEW m, NEW B,
           Within(D, E, m, B), EditsRight(D), PairsRight(D),
           B = {} \/ (m \in Nat /\ LogsUpTo(D, m))
    PROVE  /\ EditsRight(E) /\ PairsRight(E)
           /\ Named(E) \subseteq Named(D)
           /\ Logged(E) \subseteq Logged(D) \cup B
           /\ Tabled(E) \subseteq Tabled(D)
           /\ \A n : NextsUpTo(D, n) => NextsUpTo(E, n)
           /\ \A n : LogsUpTo(D, n) => LogsUpTo(E, n)
           /\ \A n, s : LogsBelow(D, n, s) /\ (B = {} \/ (n \in Nat /\ n <= m)) => LogsBelow(E, n, s)
           /\ \A t \in Named(D) : \A n, s : TableBelow(D, t, n, s) => TableBelow(E, t, n, s)
<1>1. \A c \in Currents(E) : /\ c \in Currents(D) /\ c \in Nat
                             /\ \A k \in DOMAIN EditsIn(E, c) : k \in DOMAIN EditsIn(D, c)
                                                       /\ EditsIn(E, c)[k] = EditsIn(D, c)[k]
  BY CurrentFacts DEF Within, Prefix
<1>2. Named(E) \subseteq Named(D)
  BY <1>1 DEF Named
<1>3. Logged(E) \subseteq Logged(D) \cup B
  BY DEF Within, Logged
<1>4. Tabled(E) \subseteq Tabled(D)
  BY <1>2 DEF Within, Tabled
<1>5. \A n : NextsUpTo(D, n) => NextsUpTo(E, n)
  BY <1>1 DEF NextsUpTo
<1>6. \A n : LogsUpTo(D, n) => LogsUpTo(E, n)
  BY <1>1 DEF LogsUpTo
<1>7. ASSUME NEW n, NEW s, LogsBelow(D, n, s), B = {} \/ (n \in Nat /\ n <= m)
      PROVE  LogsBelow(E, n, s)
  <2>. SUFFICES ASSUME NEW k \in Nat, LogFile(k) \in Files(E), k < n, NEW b \in ReadLog(E, k)
                PROVE  b.seq <= s
    BY DEF LogsBelow
  <2>1. CASE LogFile(k) \in Files(D) /\ b \in ReadLog(D, k)
    BY <1>7, <2>1 DEF LogsBelow
  <2>2. CASE k = m /\ b \in B
    <3>1. n \in Nat /\ n <= m /\ m \in Nat
      BY <1>7, <2>2
    <3>. QED
      BY <2>2, <3>1
  <2>. QED
    BY <2>1, <2>2 DEF Within
<1>8. ASSUME NEW t \in Named(D), NEW n, NEW s, TableBelow(D, t, n, s)
      PROVE  TableBelow(E, t, n, s)
  BY <1>8 DEF Within, TableBelow
<1>9. EditsRight(E)
  <2>. SUFFICES ASSUME NEW d \in Currents(E), NEW l \in DOMAIN EditsIn(E, d),
                       Numbered(EditsIn(E, d)[l])
                PROVE  /\ d < EditsIn(E, d)[l].next /\ EditsIn(E, d)[l].log < EditsIn(E, d)[l].next
                       /\ LogsBelow(E, EditsIn(E, d)[l].log, EditsIn(E, d)[l].last)
    BY DEF EditsRight
  <2>. DEFINE g == EditsIn(D, d)[l]
  <2>1. d \in Currents(D) /\ l \in DOMAIN EditsIn(D, d) /\ EditsIn(E, d)[l] = g
    BY <1>1
  <2>2. Numbered(g) /\ g \in EditRecord
    BY <2>1, CurrentFacts DEF Numbered
  <2>3. d < g.next /\ g.log < g.next /\ LogsBelow(D, g.log, g.last)
    BY <2>1, <2>2 DEF EditsRight
  <2>4. B = {} \/ (g.log \in Nat /\ g.log <= m)
    BY <2>1, <2>2 DEF LogsUpTo, EditRecord
  <2>5. LogsBelow(E, g.log, g.last)
    BY <1>7, <2>3, <2>4
  <2>. QED
    BY <2>1, <2>3, <2>5
<1>10. PairsRight(E)
  <2>. SUFFICES ASSUME NEW d \in Currents(E), NEW l \in DOMAIN EditsIn(E, d),
                       NEW c \in Currents(E), NEW k \in DOMAIN EditsIn(E, c),
                       Numbered(EditsIn(E, d)[l]), EditsIn(E, c)[k] # TornEdit, Before(c, k, d, l)
                PROVE  /\ \A t \in EditsIn(E, c)[k].added :
                             TableBelow(E, t, EditsIn(E, d)[l].next, EditsIn(E, d)[l].last)
                       /\ EditsIn(E, c)[k].numbers => EditsIn(E, c)[k].next <= EditsIn(E, d)[l].next
    BY DEF PairsRight
  <2>. DEFINE g == EditsIn(D, d)[l]
              e == EditsIn(D, c)[k]
  <2>1. /\ d \in Currents(D) /\ l \in DOMAIN EditsIn(D, d) /\ EditsIn(E, d)[l] = g
        /\ c \in Currents(D) /\ k \in DOMAIN EditsIn(D, c) /\ EditsIn(E, c)[k] = e
    BY <1>1
  <2>2. e \in EditRecord /\ Numbered(g) /\ e # TornEdit
    BY <2>1, CurrentFacts
  <2>3. (\A t \in e.added : TableBelow(D, t, g.next, g.last)) /\ (e.numbers => e.next <= g.next)
    BY <2>1, <2>2 DEF PairsRight
  <2>4. \A t \in e.added : t \in Named(D)
    BY <2>1, <2>2 DEF Named, EditRecord
  <2>. QED
    BY <1>8, <2>1, <2>3, <2>4
<1>. QED
  BY <1>2, <1>3, <1>4, <1>5, <1>6, <1>7, <1>8, <1>9, <1>10

\* E has more edits in manifest c, which no manifest follows: snapshots of
\* tables in V, part of an edit, or e.
Gains(D, E, c, V, e) ==
    /\ c \in Nat /\ \A d \in Currents(D) : d <= c
    /\ Currents(E) \subseteq Currents(D) \cup {c}
    /\ \A d \in Currents(E) \ {c} : EditsIn(E, d) = EditsIn(D, d)
    /\ \A k \in DOMAIN EditsIn(E, c) :
          IF c \in Currents(D) /\ k \in DOMAIN EditsIn(D, c)
          THEN EditsIn(E, c)[k] = EditsIn(D, c)[k]
          ELSE \/ EditsIn(E, c)[k] = TornEdit
               \/ EditsIn(E, c)[k] # TornEdit /\ EditsIn(E, c)[k].numbers = FALSE
                  /\ EditsIn(E, c)[k].added \subseteq V
               \/ EditsIn(E, c)[k] = e /\ \A j \in DOMAIN EditsIn(E, c) : j <= k
    /\ \A n \in Nat : LogFile(n) \in Files(E) =>
          LogFile(n) \in Files(D) /\ ReadLog(E, n) \subseteq ReadLog(D, n)
    /\ \A t \in Nat : TableFile(t) \in Files(E) =>
          TableFile(t) \in Files(D) /\ ReadTable(E, t) \subseteq ReadTable(D, t)

LEMMA GainsKeep ==
    ASSUME NEW D, NEW E, DiskTyped(D), DiskTyped(E), DirsRight(D), DirsRight(E),
           NEW c, NEW V, NEW e, Gains(D, E, c, V, e), EditAhead(D, c, V, e),
           EditsRight(D), PairsRight(D)
    PROVE  /\ EditsRight(E) /\ PairsRight(E)
           /\ Named(E) \subseteq Named(D) \cup V \cup e.added
           /\ Logged(E) \subseteq Logged(D)
           /\ Tabled(E) \subseteq Tabled(D) \cup UNION {ReadTable(D, t) : t \in {u \in V \cup e.added :
                                                                          TableFile(u) \in Files(D)}}
           /\ \A n : NextsUpTo(D, n) /\ e.next <= n => NextsUpTo(E, n)
           /\ \A n : LogsUpTo(D, n) /\ e.log <= n => LogsUpTo(E, n)
           /\ \A n, s : LogsBelow(D, n, s) => LogsBelow(E, n, s)
           /\ \A t \in Nat : \A n, s : TableBelow(D, t, n, s) => TableBelow(E, t, n, s)
<1>. DEFINE Old(d, k) == d \in Currents(D) /\ k \in DOMAIN EditsIn(D, d)
            New(d, k) == /\ ~Old(d, k) /\ d = c
                         /\ \/ EditsIn(E, c)[k].numbers = FALSE /\ EditsIn(E, c)[k].added \subseteq V
                            \/ EditsIn(E, c)[k] = e /\ \A j \in DOMAIN EditsIn(E, c) : j <= k
<1>0. c \in Nat /\ e \in EditRecord /\ e.numbers /\ e # TornEdit /\ V \subseteq Nat
  BY EditsNotTorn DEF Gains, EditAhead
<1>1. ASSUME NEW d \in Currents(E), NEW k \in DOMAIN EditsIn(E, d), EditsIn(E, d)[k] # TornEdit
      PROVE  /\ EditsIn(E, d)[k] \in EditRecord /\ d \in Nat /\ k \in Nat
             /\ \/ Old(d, k) /\ EditsIn(E, d)[k] = EditsIn(D, d)[k]
                \/ New(d, k)
  <2>1. EditsIn(E, d)[k] \in EditRecord /\ d \in Nat /\ k \in Nat
    BY <1>1, CurrentFacts
  <2>2. CASE d = c
    BY <1>1, <2>1, <2>2 DEF Gains
  <2>3. CASE d # c
    BY <1>1, <2>1, <2>3 DEF Gains
  <2>. QED
    BY <2>1, <2>2, <2>3
<1>2. ASSUME NEW d, NEW k, Old(d, k) PROVE d \in Nat /\ d <= c /\ k \in 1 .. Len(EditsIn(D, d))
  BY <1>2, CurrentFacts DEF Gains
<1>3. ASSUME NEW d \in Currents(E), NEW k \in DOMAIN EditsIn(E, d), EditsIn(E, d)[k] # TornEdit
      PROVE  EditsIn(E, d)[k].added \subseteq Named(D) \cup V \cup e.added
  <2>1. CASE Old(d, k) /\ EditsIn(E, d)[k] = EditsIn(D, d)[k]
    BY <1>1, <1>3, <2>1 DEF Named, EditRecord
  <2>2. CASE New(d, k)
    BY <2>2
  <2>. QED
    BY <1>1, <1>3, <2>1, <2>2
<1>4. Named(E) \subseteq Named(D) \cup V \cup e.added
  BY <1>3 DEF Named
<1>5. Logged(E) \subseteq Logged(D)
  BY DEF Gains, Logged
<1>6. Tabled(E) \subseteq Tabled(D) \cup UNION {ReadTable(D, t) : t \in {u \in V \cup e.added :
                                                                          TableFile(u) \in Files(D)}}
  <2>. SUFFICES ASSUME NEW t \in Named(E), TableFile(t) \in Files(E), NEW b \in ReadTable(E, t)
                PROVE  b \in Tabled(D) \cup UNION {ReadTable(D, u) : u \in {u \in V \cup e.added :
                                                                          TableFile(u) \in Files(D)}}
    BY DEF Tabled
  <2>1. t \in Nat
    BY DEF Named
  <2>2. TableFile(t) \in Files(D) /\ b \in ReadTable(D, t)
    BY <2>1 DEF Gains
  <2>. QED
    BY <1>4, <2>2 DEF Tabled
<1>7. ASSUME NEW n, NextsUpTo(D, n), e.next <= n PROVE NextsUpTo(E, n)
  <2>. SUFFICES ASSUME NEW d \in Currents(E), NEW k \in DOMAIN EditsIn(E, d),
                       Numbered(EditsIn(E, d)[k])
                PROVE  EditsIn(E, d)[k].next <= n
    BY DEF NextsUpTo
  <2>. QED
    BY <1>1, <1>7 DEF NextsUpTo, Numbered
<1>8. ASSUME NEW n, LogsUpTo(D, n), e.log <= n PROVE LogsUpTo(E, n)
  <2>. SUFFICES ASSUME NEW d \in Currents(E), NEW k \in DOMAIN EditsIn(E, d),
                       Numbered(EditsIn(E, d)[k])
                PROVE  EditsIn(E, d)[k].log <= n
    BY DEF LogsUpTo
  <2>. QED
    BY <1>1, <1>8 DEF LogsUpTo, Numbered
<1>9. ASSUME NEW n, NEW s, LogsBelow(D, n, s) PROVE LogsBelow(E, n, s)
  BY <1>9 DEF Gains, LogsBelow
<1>10. ASSUME NEW t \in Nat, NEW n, NEW s, TableBelow(D, t, n, s) PROVE TableBelow(E, t, n, s)
  BY <1>10 DEF Gains, TableBelow
<1>11. EditsRight(E)
  <2>. SUFFICES ASSUME NEW d \in Currents(E), NEW l \in DOMAIN EditsIn(E, d),
                       Numbered(EditsIn(E, d)[l])
                PROVE  /\ d < EditsIn(E, d)[l].next /\ EditsIn(E, d)[l].log < EditsIn(E, d)[l].next
                       /\ LogsBelow(E, EditsIn(E, d)[l].log, EditsIn(E, d)[l].last)
    BY DEF EditsRight
  <2>1. CASE Old(d, l) /\ EditsIn(E, d)[l] = EditsIn(D, d)[l]
    BY <1>9, <2>1 DEF EditsRight
  <2>2. CASE New(d, l)
    <3>1. EditsIn(E, d)[l] = e
      BY <2>2 DEF Numbered
    <3>2. d = c
      BY <2>2
    <3>. QED
      BY <1>9, <3>1, <3>2 DEF EditAhead
  <2>. QED
    BY <1>1, <2>1, <2>2 DEF Numbered
<1>12. PairsRight(E)
  <2>. SUFFICES ASSUME NEW d \in Currents(E), NEW l \in DOMAIN EditsIn(E, d),
                       NEW b \in Currents(E), NEW k \in DOMAIN EditsIn(E, b),
                       Numbered(EditsIn(E, d)[l]), EditsIn(E, b)[k] # TornEdit, Before(b, k, d, l)
                PROVE  /\ \A t \in EditsIn(E, b)[k].added :
                             TableBelow(E, t, EditsIn(E, d)[l].next, EditsIn(E, d)[l].last)
                       /\ EditsIn(E, b)[k].numbers => EditsIn(E, b)[k].next <= EditsIn(E, d)[l].next
    BY DEF PairsRight
  <2>. DEFINE g == EditsIn(E, d)[l]
              f == EditsIn(E, b)[k]
  <2>0. /\ f \in EditRecord /\ g \in EditRecord /\ g # TornEdit /\ g.numbers
        /\ b \in Nat /\ k \in Nat /\ d \in Nat /\ l \in Nat
    BY <1>1 DEF Numbered
  <2>1. CASE New(d, l)
    <3>1. g = e
      BY <2>0, <2>1
    <3>2. \A t \in f.added : TableBelow(D, t, e.next, e.last)
      BY <1>3 DEF EditAhead
    <3>3. \A t \in f.added : TableBelow(E, t, e.next, e.last)
      BY <1>10, <2>0, <3>2 DEF EditRecord
    <3>4. f.numbers => f.next <= e.next
      <4>1. CASE Old(b, k) /\ f = EditsIn(D, b)[k]
        BY <4>1 DEF EditAhead, NextsUpTo, Numbered
      <4>2. CASE New(b, k)
        BY <1>0, <4>2 DEF EditRecord
      <4>. QED
        BY <1>1, <4>1, <4>2
    <3>. QED
      BY <3>1, <3>3, <3>4
  <2>2. CASE Old(d, l) /\ g = EditsIn(D, d)[l]
    <3>1. ~New(b, k)
      <4>. SUFFICES ASSUME New(b, k) PROVE FALSE
        OBVIOUS
      <4>1. b = c /\ d <= c /\ l \in 1 .. Len(EditsIn(D, d)) /\ ~Old(c, k)
        BY <1>2, <2>2
      <4>2. d = c /\ k <= l
        BY <1>0, <2>0, <4>1 DEF Before
      <4>3. k \in DOMAIN EditsIn(D, c) /\ c \in Currents(D)
        <5>1. DOMAIN EditsIn(D, c) = 1 .. Len(EditsIn(D, c)) /\ c \in Currents(D)
          BY <2>2, <4>2, CurrentFacts
        <5>2. k \in 1 .. Len(EditsIn(E, b))
          BY CurrentFacts
        <5>. QED
          BY <2>0, <4>1, <4>2, <5>1, <5>2
      <4>. QED
        BY <4>1, <4>3
    <3>2. Old(b, k) /\ f = EditsIn(D, b)[k]
      BY <1>1, <3>1
    <3>3. (\A t \in f.added : TableBelow(D, t, g.next, g.last)) /\ (f.numbers => f.next <= g.next)
      BY <2>2, <3>2 DEF PairsRight
    <3>. QED
      BY <1>10, <2>0, <3>3 DEF EditRecord
  <2>. QED
    BY <1>1, <2>0, <2>1, <2>2
<1>. QED
  BY <1>4, <1>5, <1>6, <1>7, <1>8, <1>9, <1>10, <1>11, <1>12

\* A step that creates, writes or syncs file f.
Touches(D, E, f) ==
    /\ DiskTyped(E)
    /\ Dir(E).names = Dir(D).names \cup {f} /\ Dir(E).current = Dir(D).current
    /\ \A d \in Dirs(E) : d \in Dirs(D) \/ (/\ d.current = Dir(D).current
                                            /\ Dir(D).names \subseteq d.names
                                            /\ d.names \subseteq Dir(D).names \cup {f})
    /\ f \in Files(E) /\ Files(E) \subseteq Files(D) \cup {f}
    /\ \A g \in Files(E) : g # f => E.files[g] = D.files[g]

LEMMA TouchTwice ==
    ASSUME NEW D, NEW E, NEW F, NEW f, Touches(D, E, f), Touches(E, F, f)
    PROVE  Touches(D, F, f)
BY DEF Touches

LEMMA NewFileTouches ==
    ASSUME NEW D, DiskTyped(D), NEW f \in File, NEW E, E = NewWritableFile(D, f)
    PROVE  Touches(D, E, f) /\ Records(E, f) = <<>>
<1>1. /\ DiskTyped(E) /\ Files(E) = Files(D) \cup {f} /\ Records(E, f) = <<>>
      /\ \A g \in Files(D) : g # f => E.files[g] = D.files[g]
      /\ Dir(E).names = Dir(D).names \cup {f} /\ Dir(E).current = Dir(D).current
      /\ Dirs(E) = Dirs(D) \cup {Dir(E)}
  BY NewFileDisk
<1>. QED
  BY <1>1 DEF Touches

LEMMA AddRecordsTouches ==
    ASSUME NEW D, DiskTyped(D), NEW f \in Dir(D).names, NEW s \in Seq(Item(f)),
           NEW E, E = AddRecords(D, f, s)
    PROVE  Touches(D, E, f) /\ Records(E, f) = Records(D, f) \o s
<1>0. f \in Files(D)
  BY DirParts DEF DiskTyped, DirsTyped
<1>1. /\ DiskTyped(E) /\ Files(E) = Files(D) /\ Records(E, f) = Records(D, f) \o s
      /\ \A g \in Files(D) : g # f => E.files[g] = D.files[g]
      /\ Dir(E) = Dir(D) /\ Dirs(E) = Dirs(D)
  BY <1>0, AddRecordsDisk
<1>. QED
  BY <1>0, <1>1 DEF Touches

LEMMA SyncTouches ==
    ASSUME NEW D, DiskTyped(D), NEW f \in Dir(D).names, NEW E, E = Sync(D, f)
    PROVE  Touches(D, E, f) /\ Records(E, f) = Records(D, f)
<1>1. /\ DiskTyped(E) /\ Files(E) \subseteq Files(D) /\ f \in Files(E)
      /\ Records(E, f) = Records(D, f)
      /\ \A g \in Files(E) : g # f => E.files[g] = D.files[g]
      /\ Dir(E) = Dir(D) /\ Dirs(E) \subseteq Dirs(D)
  BY SyncDisk
<1>. QED
  BY <1>1 DEF Touches

\* BuildTable.
LEMMA BuildTableTouches ==
    ASSUME NEW D, DiskTyped(D), NEW t \in Nat, NEW s \in Seq(Batch), NEW E, E = BuildTable(D, t, s)
    PROVE  Touches(D, E, TableFile(t)) /\ Records(E, TableFile(t)) = s
<1>. DEFINE f == TableFile(t)
            D1 == NewWritableFile(D, f)
            D2 == AddRecords(D1, f, s)
<1>0. f \in File /\ Item(f) = Batch
  BY FileTypes DEF Item
<1>1. Touches(D, D1, f) /\ Records(D1, f) = <<>>
  BY <1>0, NewFileTouches
<1>. HIDE DEF D1
<1>2. DiskTyped(D1) /\ f \in Dir(D1).names /\ s \in Seq(Item(f))
  BY <1>0, <1>1 DEF Touches
<1>3. Touches(D1, D2, f) /\ Records(D2, f) = <<>> \o s
  BY <1>1, <1>2, AddRecordsTouches
<1>. HIDE DEF D2
<1>4. DiskTyped(D2) /\ f \in Dir(D2).names
  BY <1>3 DEF Touches
<1>5. E = Sync(D2, f)
  BY DEF BuildTable, D1, D2
<1>6. Touches(D2, E, f) /\ Records(E, f) = Records(D2, f)
  BY <1>4, <1>5, SyncTouches
<1>7. <<>> \o s = s
  BY ConcatEmptySeq
<1>. QED
  BY <1>1, <1>3, <1>6, <1>7, TouchTwice

\* The directory after such a step.
LEMMA TouchDirs ==
    ASSUME NEW D, NEW E, NEW f, DiskTyped(D), DirsRight(D), Touches(D, E, f), Dir(D).current > 0
    PROVE  /\ DirsRight(E) /\ FirstDir(E) /\ Currents(E) \subseteq Currents(D)
           /\ Dir(D).current \in Currents(D) /\ Dir(E).current \in Currents(E)
           /\ Dir(D).current \in Nat
<1>1. Dir(D) \in Dirs(D) /\ Dir(D).current \in Nat /\ Dir(E) \in Dirs(E)
  BY DirParts DEF DiskTyped, Touches
<1>2. DescriptorFile(Dir(D).current) \in Dir(D).names
  BY <1>1 DEF DirsRight
<1>3. DirsRight(E)
  <2>. SUFFICES ASSUME NEW d \in Dirs(E)
                PROVE  /\ d.current <= Dir(E).current
                       /\ d.current # 0 => DescriptorFile(d.current) \in d.names
                       /\ d.current = 0 => d.names \subseteq {DescriptorFile(1)}
    BY DEF DirsRight
  <2>1. CASE d \in Dirs(D)
    BY <2>1 DEF DirsRight, Touches
  <2>2. CASE d.current = Dir(D).current /\ Dir(D).names \subseteq d.names
    BY <1>1, <1>2, <2>2 DEF Touches
  <2>. QED
    BY <2>1, <2>2 DEF Touches
<1>4. Currents(E) \subseteq Currents(D)
  BY <1>1 DEF Currents, Touches
<1>5. FirstDir(E)
  BY DEF FirstDir, Touches
<1>. QED
  BY <1>1, <1>3, <1>4, <1>5 DEF Currents, Touches

\* What an open may meet after such a step.
LEMMA TouchWithin ==
    ASSUME NEW D, NEW E, NEW f, DiskTyped(D), DirsRight(D), Touches(D, E, f), Dir(D).current > 0,
           NEW m, NEW B,
           \A c \in Currents(D) : f = DescriptorFile(c) => Records(E, f) = Records(D, f),
           \A n \in Nat : f = LogFile(n) => \A b \in ReadLog(E, n) :
                 (f \in Files(D) /\ b \in ReadLog(D, n)) \/ (n = m /\ b \in B),
           \A t \in Named(D) : f = TableFile(t) => f \in Files(D) /\ Records(E, f) = Records(D, f)
    PROVE  /\ Within(D, E, m, B)
           /\ \A c \in Currents(E) : EditsIn(E, c) = EditsIn(D, c)
<1>1. Currents(E) \subseteq Currents(D) /\ DirsRight(E)
  BY TouchDirs
<1>2. \A g \in Files(E) : g # f => g \in Files(D) /\ Records(E, g) = Records(D, g)
  BY DEF Touches, Records
<1>3. \A c \in Currents(E) : EditsIn(E, c) = EditsIn(D, c)
  <2>. TAKE c \in Currents(E)
  <2>1. DescriptorFile(c) \in Files(E)
    BY <1>1, CurrentFacts DEF Touches
  <2>. QED
    BY <1>1, <1>2, <2>1 DEF EditsIn
<1>4. \A c \in Currents(E) : Prefix(EditsIn(E, c), EditsIn(D, c))
  BY <1>3 DEF Prefix
<1>5. ASSUME NEW n \in Nat, LogFile(n) \in Files(E), NEW b \in ReadLog(E, n)
      PROVE  (LogFile(n) \in Files(D) /\ b \in ReadLog(D, n)) \/ (n = m /\ b \in B)
  <2>1. CASE LogFile(n) = f
    BY <1>5, <2>1
  <2>2. CASE LogFile(n) # f
    BY <1>2, <1>5, <2>2 DEF ReadLog
  <2>. QED
    BY <2>1, <2>2
<1>6. ASSUME NEW t \in Named(D), TableFile(t) \in Files(E)
      PROVE  TableFile(t) \in Files(D) /\ ReadTable(E, t) \subseteq ReadTable(D, t)
  <2>1. TableFile(t) \in Files(D) /\ Records(E, TableFile(t)) = Records(D, TableFile(t))
    BY <1>2, <1>6
  <2>. QED
    BY <2>1 DEF ReadTable
<1>. QED
  BY <1>1, <1>3, <1>4, <1>5, <1>6 DEF Within

LEMMA EditsFacts == \A D : Edits(D) = LET edits == EditsIn(D, Dir(D).current)
                                      IN  IF edits # <<>> /\ Last(edits) = TornEdit THEN Front(edits) ELSE edits
BY DEF Edits, EditsIn

\* The file that a step touches, when it is one an open or the process uses,
\* keeps its records.
Adding == IF apply.step = "none" THEN {} ELSE apply.edit.added
Harmless(D, E, f) ==
    /\ \A c \in Currents(D) : f = DescriptorFile(c) => Records(E, f) = Records(D, f)
    /\ \A n \in Nat : f = LogFile(n) => f \in Dir(D).names /\ Records(E, f) = Records(D, f)
    /\ \A t \in Named(D) \cup version \cup Found \cup Adding : f = TableFile(t) =>
          f \in Dir(D).names /\ Records(E, f) = Records(D, f)

\* What is used of the tables and the logs.
LEMMA HarmlessReads ==
    ASSUME NEW D, NEW E, NEW f, DiskTyped(D), DirsRight(D), Typed, Touches(D, E, f),
           Harmless(D, E, f), Dir(D).current > 0
    PROVE  /\ \A n \in Nat : LogFile(n) \in Files(E) =>
                 LogFile(n) \in Files(D) /\ ReadLog(E, n) = ReadLog(D, n)
           /\ \A n \in Nat : LogFile(n) \in Dir(E).names <=> LogFile(n) \in Dir(D).names
           /\ \A t \in Named(D) \cup version \cup Found \cup Adding : TableFile(t) \in Files(E) =>
                 TableFile(t) \in Files(D) /\ ReadTable(E, t) = ReadTable(D, t)
           /\ \A c \in Currents(E) : EditsIn(E, c) = EditsIn(D, c)
           /\ Edits(E) = Edits(D)
           /\ Within(D, E, 0, {})
<1>0. Dir(D).names \subseteq Files(D)
  BY DirParts DEF DiskTyped, DirsTyped
<1>1. \A g \in Files(E) : g # f => g \in Files(D) /\ Records(E, g) = Records(D, g)
  BY DEF Touches, Records
<1>2. \A n \in Nat : LogFile(n) \in Files(E) =>
          LogFile(n) \in Files(D) /\ ReadLog(E, n) = ReadLog(D, n)
  <2>1. \A n \in Nat : LogFile(n) \in Files(E) =>
          LogFile(n) \in Files(D) /\ Records(E, LogFile(n)) = Records(D, LogFile(n))
    BY <1>0, <1>1 DEF Harmless
  <2>. QED
    BY <2>1 DEF ReadLog
<1>3. \A n \in Nat : LogFile(n) \in Dir(E).names <=> LogFile(n) \in Dir(D).names
  BY DEF Touches, Harmless
<1>4. \A t \in Named(D) \cup version \cup Found \cup Adding : TableFile(t) \in Files(E) =>
          TableFile(t) \in Files(D) /\ ReadTable(E, t) = ReadTable(D, t)
  <2>1. \A t \in Named(D) \cup version \cup Found \cup Adding : TableFile(t) \in Files(E) =>
          TableFile(t) \in Files(D) /\ Records(E, TableFile(t)) = Records(D, TableFile(t))
    BY <1>0, <1>1 DEF Harmless
  <2>. QED
    BY <2>1 DEF ReadTable
<1>5. Within(D, E, 0, {}) /\ \A c \in Currents(E) : EditsIn(E, c) = EditsIn(D, c)
  <2>1. \A c \in Currents(D) : f = DescriptorFile(c) => Records(E, f) = Records(D, f)
    BY DEF Harmless
  <2>2. \A n \in Nat : f = LogFile(n) => \A b \in ReadLog(E, n) :
                 (f \in Files(D) /\ b \in ReadLog(D, n)) \/ (n = 0 /\ b \in {})
    BY <1>2 DEF Touches
  <2>3. \A t \in Named(D) : f = TableFile(t) => f \in Files(D) /\ Records(E, f) = Records(D, f)
    BY <1>0 DEF Harmless
  <2>. QED
    BY <2>1, <2>2, <2>3, TouchWithin
<1>6. Dir(E).current \in Currents(E) /\ Dir(E).current = Dir(D).current
  BY TouchDirs DEF Touches
<1>7. EditsIn(E, Dir(E).current) = EditsIn(D, Dir(D).current)
  BY <1>5, <1>6
<1>8. Edits(E) = Edits(D)
  BY <1>7, EditsFacts
<1>. QED
  BY <1>2, <1>3, <1>4, <1>5, <1>8

LEMMA HarmlessDisk ==
    ASSUME NEW D, NEW E, NEW f, DiskInv(D), Typed, Touches(D, E, f), Harmless(D, E, f),
           Dir(D).current > 0
    PROVE  /\ DiskInv(E)
           /\ Named(E) \subseteq Named(D)
           /\ Logged(E) \subseteq Logged(D) /\ Tabled(E) \subseteq Tabled(D)
           /\ \A n : NextsUpTo(D, n) => NextsUpTo(E, n)
           /\ \A n : LogsUpTo(D, n) => LogsUpTo(E, n)
           /\ \A n, s : LogsBelow(D, n, s) => LogsBelow(E, n, s)
           /\ \A t \in Named(D) : \A n, s : TableBelow(D, t, n, s) => TableBelow(E, t, n, s)
<1>0. DiskTyped(D) /\ DirsRight(D) /\ EditsRight(D) /\ PairsRight(D) /\ DiskTyped(E)
  BY DEF DiskInv, Touches
<1>1. DirsRight(E) /\ FirstDir(E)
  BY <1>0, TouchDirs
<1>2. Within(D, E, 0, {})
  BY <1>0, HarmlessReads
<1>3. /\ EditsRight(E) /\ PairsRight(E)
      /\ Named(E) \subseteq Named(D)
      /\ Logged(E) \subseteq Logged(D) \cup {}
      /\ Tabled(E) \subseteq Tabled(D)
      /\ \A n : NextsUpTo(D, n) => NextsUpTo(E, n)
      /\ \A n : LogsUpTo(D, n) => LogsUpTo(E, n)
      /\ \A n, s : LogsBelow(D, n, s) => LogsBelow(E, n, s)
      /\ \A t \in Named(D) : \A n, s : TableBelow(D, t, n, s) => TableBelow(E, t, n, s)
  BY <1>0, <1>1, <1>2, WithinKeeps
<1>. QED
  BY <1>0, <1>1, <1>3 DEF DiskInv

\* Such a step of the disk disturbs nothing.
LEMMA HarmlessStep ==
    ASSUME NEW D, NEW E, NEW f, DiskInv(D), Typed, Steps, ProcessInv(D), phase # "down",
           Touches(D, E, f), Harmless(D, E, f)
    PROVE  /\ DiskInv(E)
           /\ Numbers(E) /\ LogsGone(E) /\ Outputs(E) /\ InUse(E) /\ SeqsBelow(E)
           /\ BatchesUnique(E) /\ RecoveredRight(E) /\ EditRight(E)
           /\ (f = DescriptorFile(manifest) => Records(E, f) = Records(D, f)) => EditWritten(E)
           /\ (/\ comp.step # "none" => f # TableFile(comp.out)
               /\ flush.step = "apply" => f # TableFile(flush.out)) => OutputsWritten(E)
<1>0. /\ DiskTyped(D) /\ DirsRight(D) /\ Dir(D).current > 0 /\ Numbers(D)
      /\ Dir(D).names \subseteq Files(D)
  BY DirParts DEF DiskInv, ProcessInv, Numbers, DiskTyped, DirsTyped
<1>1. /\ DiskInv(E)
      /\ Named(E) \subseteq Named(D)
      /\ Logged(E) \subseteq Logged(D) /\ Tabled(E) \subseteq Tabled(D)
      /\ \A n : NextsUpTo(D, n) => NextsUpTo(E, n)
      /\ \A n : LogsUpTo(D, n) => LogsUpTo(E, n)
      /\ \A n, s : LogsBelow(D, n, s) => LogsBelow(E, n, s)
      /\ \A t \in Named(D) : \A n, s : TableBelow(D, t, n, s) => TableBelow(E, t, n, s)
  BY <1>0, HarmlessDisk
<1>2. /\ \A n \in Nat : LogFile(n) \in Files(E) =>
            LogFile(n) \in Files(D) /\ ReadLog(E, n) = ReadLog(D, n)
      /\ \A n \in Nat : LogFile(n) \in Dir(E).names <=> LogFile(n) \in Dir(D).names
      /\ \A t \in Named(D) \cup version \cup Found \cup Adding : TableFile(t) \in Files(E) =>
            TableFile(t) \in Files(D) /\ ReadTable(E, t) = ReadTable(D, t)
      /\ \A c \in Currents(E) : EditsIn(E, c) = EditsIn(D, c)
      /\ Edits(E) = Edits(D)
  BY <1>0, HarmlessReads
<1>3. Dir(E).current = Dir(D).current /\ Dir(D).names \subseteq Dir(E).names /\ Dir(E).names \subseteq Files(E)
  <2>1. DirsTyped(E)
    BY DEF Touches, DiskTyped
  <2>. QED
    BY <2>1, DirParts DEF Touches, DirsTyped
<1>4. \A g : FileExists(D, g) => FileExists(E, g)
  BY <1>3 DEF FileExists
<1>5. \A t \in version \cup Found : /\ FileExists(D, TableFile(t)) /\ TableFile(t) \in Files(E)
                                    /\ ReadTable(E, t) = ReadTable(D, t)
  BY <1>2, <1>3 DEF ProcessInv, InUse, FileExists
<1>6. Numbers(E)
  BY <1>0, <1>1, <1>2, <1>3 DEF Numbers
<1>7. LogsGone(E)
  BY <1>2 DEF ProcessInv, LogsGone, LastEdit
<1>8. Outputs(E)
  BY <1>1, <1>4 DEF ProcessInv, Outputs
<1>9. InUse(E)
  BY <1>4 DEF ProcessInv, InUse
<1>10. SeqsBelow(E)
  BY <1>1, <1>2 DEF ProcessInv, SeqsBelow
<1>11. BatchesUnique(E)
  <2>1. Shown(E) = Shown(D)
    BY <1>5 DEF Shown
  <2>2. Unique(Logged(D) \cup Tabled(D) \cup Shown(D) \cup Writing)
    BY DEF ProcessInv, BatchesUnique
  <2>. QED
    BY <1>1, <2>1, <2>2 DEF BatchesUnique, Unique
<1>12. RecoveredRight(E)
  <2>1. LoggedNow(E) = LoggedNow(D)
    BY <1>2, <1>3 DEF LoggedNow, FileExists
  <2>. QED
    BY <1>4, <1>5, <2>1 DEF ProcessInv, RecoveredRight
<1>13. EditRight(E)
  <2>. SUFFICES ASSUME apply.step # "none" PROVE EditAhead(E, manifest, version, apply.edit)
    BY DEF ProcessInv, EditRight
  <2>. DEFINE e == apply.edit
  <2>1. EditAhead(D, manifest, version, e)
    BY DEF ProcessInv, EditRight
  <2>2. \A t \in Named(E) \cup version \cup e.added : TableBelow(E, t, e.next, e.last)
    <3>1. ASSUME NEW t \in Named(D) PROVE TableBelow(E, t, e.next, e.last)
      BY <1>1, <2>1 DEF EditAhead
    <3>2. ASSUME NEW t \in version \cup e.added PROVE TableBelow(E, t, e.next, e.last)
      <4>1. TableBelow(D, t, e.next, e.last)
        BY <2>1 DEF EditAhead
      <4>2. t \in Named(D) \cup version \cup Found \cup Adding
        BY DEF Adding
      <4>. QED
        BY <1>2, <4>1, <4>2 DEF TableBelow
    <3>. QED
      BY <1>1, <2>1, <3>1, <3>2 DEF EditAhead
  <2>. QED
    BY <1>1, <2>1, <2>2 DEF EditAhead
<1>14. ASSUME f = DescriptorFile(manifest) => Records(E, f) = Records(D, f) PROVE EditWritten(E)
  <2>1. ASSUME DescriptorFile(manifest) \in Dir(D).names
        PROVE  EditsIn(E, manifest) = EditsIn(D, manifest)
    <3>1. DescriptorFile(manifest) \in Files(E)
      BY <1>3, <2>1
    <3>. QED
      BY <1>14, <3>1 DEF Touches, EditsIn, Records
  <2>2. apply.step \in {"sync", "current", "install"} => DescriptorFile(manifest) \in Dir(D).names
    <3>1. CASE apply.step \in {"sync", "current", "install"} /\ apply.for = "open"
      BY <3>1 DEF ProcessInv, EditWritten, FileExists
    <3>2. CASE apply.step \in {"sync", "current", "install"} /\ apply.for # "open"
      <4>1. phase = "up"
        BY <3>2 DEF Steps, Typed, TypedMemory, NoApply
      <4>2. Dir(D).current = manifest /\ Dir(D) \in Dirs(D)
        BY <1>0, <4>1, DirParts DEF Numbers, DiskTyped
      <4>. QED
        BY <1>0, <4>2 DEF DirsRight
    <3>. QED
      BY <3>1, <3>2
  <2>. QED
    BY <1>4, <2>1, <2>2 DEF ProcessInv, EditWritten, FileExists
<1>15. ASSUME comp.step # "none" => f # TableFile(comp.out),
              flush.step = "apply" => f # TableFile(flush.out)
       PROVE  OutputsWritten(E)
  <2>1. \A g : g # f /\ FileExists(D, g) => Records(E, g) = Records(D, g)
    BY <1>3 DEF Touches, FileExists, Records
  <2>2. flush.step = "apply" => ReadTable(E, flush.out) = ReadTable(D, flush.out)
    BY <1>15, <2>1 DEF ProcessInv, Outputs, ReadTable
  <2>3. comp.step # "none" =>
          /\ ReadTable(E, comp.out) = ReadTable(D, comp.out)
          /\ Records(E, TableFile(comp.out)) = Records(D, TableFile(comp.out))
    BY <1>15, <2>1 DEF ProcessInv, Outputs, ReadTable
  <2>4. ASSUME comp.step # "none"
        PROVE  UNION {ReadTable(E, t) : t \in comp.inputs} = UNION {ReadTable(D, t) : t \in comp.inputs}
    <3>1. \A t \in comp.inputs : ReadTable(E, t) = ReadTable(D, t)
      BY <1>5, <2>4 DEF ProcessInv, Outputs
    <3>2. {ReadTable(E, t) : t \in comp.inputs} = {ReadTable(D, t) : t \in comp.inputs}
      BY <3>1
    <3>. QED
      BY <3>2
  <2>. QED
    BY <2>2, <2>3, <2>4 DEF ProcessInv, OutputsWritten
<1>. QED
  BY <1>1, <1>6, <1>7, <1>8, <1>9, <1>10, <1>11, <1>12, <1>13, <1>14, <1>15

-----------------------------------------------------------------------------
(* Steps that leave the disk alone.                                        *)

\* What is between operations.
LEMMA NothingTyped ==
    /\ Torn \in Batch
    /\ NoWrite \in WriteRecord /\ NoFlush \in FlushRecord /\ NoCompaction \in CompactionRecord
    /\ NoApply \in ApplyRecord
    /\ NoReader \in SUBSET Nat
    /\ NoWrite.step = "idle" /\ NoFlush.step = "none" /\ NoCompaction.step = "none"
    /\ NoCompaction.base = {} /\ NoApply.step = "none" /\ NoApply.for = "none"
BY DEF Torn, Batch, NoWrite, NoFlush, NoCompaction, NoApply, Snapshot, EditRecord, NoReader,
       WriteRecord, FlushRecord, CompactionRecord, ApplyRecord

\* Later sequence numbers.
LEMMA SeqsLater ==
    ASSUME NEW D, DiskTyped(D), Typed, SeqsBelow(D), NEW n \in Nat, lastSequence <= n, phase # "down"
    PROVE  /\ \A t \in version \cup Found \cup Named(D) : TableFile(t) \in Files(D) =>
                  \A b \in ReadTable(D, t) : b.seq <= n
           /\ \A b \in Range1(mem) \cup Range1(imm) : b.seq <= n
           /\ \A m \in Nat \ toRecover : LogFile(m) \in Files(D) =>
                  \A b \in ReadLog(D, m) : b.seq <= n \/ (m = logNumber /\ b \in Writing)
<1>1. \A b \in Batch : b.seq \in Nat
  BY DEF Batch
<1>2. lastSequence \in Nat /\ mem \in Seq(Batch) /\ imm \in Seq(Batch)
  BY DEF Typed, TypedMemory, TypedVersion
<1>3. \A t \in version \cup Found \cup Named(D) : TableFile(t) \in Files(D) =>
           \A b \in ReadTable(D, t) : b.seq <= n
  <2>. SUFFICES ASSUME NEW t \in version \cup Found \cup Named(D), TableFile(t) \in Files(D),
                       NEW b \in ReadTable(D, t)
                PROVE  b.seq <= n
    OBVIOUS
  <2>1. t \in Nat
    BY DEF Typed, TypedVersion, Found, Named
  <2>2. b.seq \in Nat
    BY <1>1, <2>1, ReadTypes
  <2>3. b.seq <= lastSequence
    BY DEF SeqsBelow
  <2>. QED
    BY <1>2, <2>2, <2>3
<1>4. \A b \in Range1(mem) \cup Range1(imm) : b.seq <= n
  <2>. SUFFICES ASSUME NEW b \in Range1(mem) \cup Range1(imm) PROVE b.seq <= n
    OBVIOUS
  <2>1. b.seq \in Nat
    BY <1>1, <1>2, RangeFinite
  <2>2. b.seq <= lastSequence
    BY DEF SeqsBelow
  <2>. QED
    BY <1>2, <2>1, <2>2
<1>5. \A m \in Nat \ toRecover : LogFile(m) \in Files(D) =>
           \A b \in ReadLog(D, m) : b.seq <= n \/ (m = logNumber /\ b \in Writing)
  <2>. SUFFICES ASSUME NEW m \in Nat \ toRecover, LogFile(m) \in Files(D), NEW b \in ReadLog(D, m),
                       ~(m = logNumber /\ b \in Writing)
                PROVE  b.seq <= n
    OBVIOUS
  <2>1. b.seq \in Nat
    BY <1>1, ReadTypes
  <2>2. b.seq <= lastSequence
    BY DEF SeqsBelow
  <2>. QED
    BY <1>2, <2>1, <2>2
<1>. QED
  BY <1>3, <1>4, <1>5

LEMMA InsertIntoInv ==
    ASSUME Inv, InsertInto
    PROVE  Inv'
<1>1. DiskInv(fs)'
  BY DEF Inv, InsertInto
<1>2. /\ writer.step # "idle" /\ phase = "up" /\ writer.batch \in Batch
      /\ writer.batch.seq = lastSequence + 1 /\ lastSequence \in Nat /\ writer.batch.id \in 1 .. written
      /\ mem' = Append(mem, writer.batch) /\ mem' \in Seq(Batch) /\ Range1(mem') = Range1(mem) \cup {writer.batch}
  <2>1. /\ writer.step # "idle" /\ phase = "up" /\ writer.batch \in Batch
        /\ writer.batch.seq = lastSequence + 1 /\ lastSequence \in Nat /\ writer.batch.id \in 1 .. written
        /\ mem \in Seq(Batch) /\ mem' = Append(mem, writer.batch)
    BY DEF Inv, InsertInto, recoveryVars, boundVars, Typed, TypedMemory, TypedVersion, TypedWork, TypedHistory, WriteRecord, Steps, Quiet, NoWrite
  <2>2. Append(mem, writer.batch) = mem \o <<writer.batch>>
    BY <2>1, AppendIsConcat
  <2>. QED
    BY <2>1, <2>2, OneMore
<1>3. Typed'
  <2>1. TypedMemory' /\ TypedVersion' /\ TypedWork'
    BY <1>2, NothingTyped DEF Inv, InsertInto, recoveryVars, boundVars, Typed, TypedMemory, TypedVersion, TypedWork
  <2>2. TypedHistory'
    BY <1>2, NothingTyped DEF Inv, InsertInto, recoveryVars, boundVars, Typed, TypedHistory
  <2>. QED
    BY <2>1, <2>2 DEF Typed
<1>4. Steps'
  BY <1>2 DEF Inv, InsertInto, recoveryVars, boundVars, Steps, Quiet, NoWrite
<1>5. Numbers(fs)'
  BY DEF Inv, InsertInto, recoveryVars, boundVars, ProcessInv, Numbers, Found, Reading
<1>6. LogsGone(fs)'
  BY DEF Inv, InsertInto, recoveryVars, boundVars, ProcessInv, LogsGone
<1>7. Outputs(fs)' /\ OutputsWritten(fs)'
  BY DEF Inv, InsertInto, recoveryVars, boundVars, ProcessInv, Outputs, OutputsWritten
<1>8. InUse(fs)'
  BY DEF Inv, InsertInto, recoveryVars, boundVars, ProcessInv, InUse, Found, Reading
<1>9. SeqsBelow(fs)'
  <2>1. DiskTyped(fs) /\ Typed /\ SeqsBelow(fs) /\ lastSequence + 1 \in Nat /\ lastSequence <= lastSequence + 1
    BY <1>2 DEF Inv, DiskInv, ProcessInv
  <2>2. /\ \A t \in version \cup Found \cup Named(fs) : TableFile(t) \in Files(fs) =>
                  \A b \in ReadTable(fs, t) : b.seq <= lastSequence + 1
        /\ \A b \in Range1(mem) \cup Range1(imm) : b.seq <= lastSequence + 1
        /\ \A m \in Nat \ toRecover : LogFile(m) \in Files(fs) =>
                  \A b \in ReadLog(fs, m) : b.seq <= lastSequence + 1 \/ (m = logNumber /\ b \in Writing)
    BY <1>2, <2>1, SeqsLater
  <2>. QED
    BY <1>2, <2>2 DEF Inv, InsertInto, recoveryVars, boundVars, ProcessInv, SeqsBelow, Found, Writing
<1>10. BatchesUnique(fs)'
  BY <1>2 DEF Inv, InsertInto, recoveryVars, boundVars, ProcessInv, BatchesUnique, Shown, Writing, Unique, NoWrite
<1>11. RecoveredRight(fs)'
  BY DEF Inv, InsertInto, recoveryVars, boundVars, ProcessInv, RecoveredRight, Found
<1>12. EditRight(fs)' /\ EditWritten(fs)'
  BY DEF Inv, InsertInto, recoveryVars, boundVars, ProcessInv, EditRight, EditWritten, EditAhead
<1>. QED
  BY <1>1, <1>3, <1>4, <1>5, <1>6, <1>7, <1>8, <1>9, <1>10, <1>11, <1>12 DEF Inv, ProcessInv

\* Later file numbers.
LEMMA NumbersLater ==
    ASSUME NEW D, DiskTyped(D), DirsRight(D), Typed, Numbers(D), phase # "down",
           NEW n \in Nat, nextFile <= n
    PROVE  /\ manifest < n /\ nextFile \in Nat /\ manifest \in Nat
           /\ \A t \in Named(D) : t > 0 /\ t < n
           /\ NextsUpTo(D, n)
           /\ phase \in {"opening", "up"} => logNumber < n
           /\ \A m \in Nat : LogFile(m) \in Files(D) => m < n \/ m \in toRecover
           /\ version \cup Found \cup pending \cup comp.base \cup Reading \subseteq 1 .. n - 1
           /\ \A k \in 1 .. nextFile - 1 : k \in 1 .. n - 1 /\ k # nextFile
<1>1. nextFile \in Nat /\ manifest \in Nat /\ logNumber \in Nat
  BY DEF Typed, TypedMemory, TypedVersion
<1>2. manifest < n
  BY <1>1 DEF Numbers
<1>3. \A t \in Named(D) : t > 0 /\ t < n
  BY <1>1 DEF Numbers, Named
<1>4. NextsUpTo(D, n)
  <2>. SUFFICES ASSUME NEW c \in Currents(D), NEW k \in DOMAIN EditsIn(D, c),
                       Numbered(EditsIn(D, c)[k])
                PROVE  EditsIn(D, c)[k].next <= n
    BY DEF NextsUpTo
  <2>1. EditsIn(D, c)[k] \in EditRecord
    BY CurrentFacts DEF Numbered
  <2>2. EditsIn(D, c)[k].next \in Nat
    BY <2>1 DEF EditRecord
  <2>3. EditsIn(D, c)[k].next <= nextFile
    BY DEF Numbers, NextsUpTo
  <2>. QED
    BY <1>1, <2>2, <2>3
<1>5. phase \in {"opening", "up"} => logNumber < n
  BY <1>1 DEF Numbers
<1>6. \A m \in Nat : LogFile(m) \in Files(D) => m < n \/ m \in toRecover
  BY <1>1 DEF Numbers
<1>7. \A k \in 1 .. nextFile - 1 : k \in 1 .. n - 1 /\ k # nextFile
  BY <1>1
<1>8. version \cup Found \cup pending \cup comp.base \cup Reading \subseteq 1 .. n - 1
  BY <1>7 DEF Numbers
<1>. QED
  BY <1>1, <1>2, <1>3, <1>4, <1>5, <1>6, <1>7, <1>8

\* An edit that is numbered now is ahead of what the disk has.
LEMMA AheadNow ==
    ASSUME NEW D, DiskTyped(D), DirsRight(D), Typed, Numbers(D), SeqsBelow(D), phase # "down",
           toRecover = {}, NEW e \in EditRecord, e.numbers, nextFile <= e.next, e.log < e.next,
           e.last = lastSequence, e.log <= logNumber \/ Writing = {},
           \A t \in e.added : t \in 1 .. e.next - 1 /\ \A b \in ReadTable(D, t) : b.seq <= lastSequence
    PROVE  EditAhead(D, manifest, version, e)
<1>1. e.next \in Nat /\ e.log \in Nat /\ version \subseteq Nat /\ logNumber \in Nat
  BY DEF EditRecord, Typed, TypedMemory, TypedVersion
<1>2. /\ manifest < e.next /\ NextsUpTo(D, e.next)
      /\ \A t \in Named(D) : t > 0 /\ t < e.next
      /\ version \subseteq 1 .. e.next - 1
  BY <1>1, NumbersLater
<1>3. LogsBelow(D, e.log, e.last)
  <2>. SUFFICES ASSUME NEW m \in Nat, LogFile(m) \in Files(D), m < e.log, NEW b \in ReadLog(D, m)
                PROVE  b.seq <= lastSequence
    BY DEF LogsBelow
  <2>1. b.seq <= lastSequence \/ (m = logNumber /\ b \in Writing)
    BY DEF SeqsBelow
  <2>. QED
    BY <1>1, <2>1
<1>4. \A t \in Named(D) \cup version \cup e.added : TableBelow(D, t, e.next, e.last)
  <2>1. \A t \in Named(D) \cup version \cup e.added : t > 0 /\ t < e.next
    <3>1. \A t \in 1 .. e.next - 1 : t > 0 /\ t < e.next
      BY <1>1
    <3>. QED
      BY <1>2, <3>1
  <2>2. \A t \in Named(D) \cup version \cup e.added : TableFile(t) \in Files(D) =>
            \A b \in ReadTable(D, t) : b.seq <= lastSequence
    BY DEF SeqsBelow
  <2>. QED
    BY <2>1, <2>2 DEF TableBelow
<1>. QED
  BY <1>1, <1>2, <1>3, <1>4 DEF EditAhead

LEMMA FlushBeginInv ==
    ASSUME Inv, FlushBegin
    PROVE  Inv'
<1>. DEFINE n == nextFile + 1
<1>0. /\ DiskInv(fs) /\ Typed /\ Steps /\ ProcessInv(fs)
      /\ phase = "up" /\ hasImm /\ flush = NoFlush /\ comp.step # "apply"
      /\ flush' = [step |-> "build", out |-> nextFile] /\ nextFile' = n
      /\ pending' = pending \cup {nextFile}
      /\ UNCHANGED <<fs, phase, mem, imm, hasImm, logNumber, version, lastSequence, versionLog, manifest,
                     bgError, held, writer, comp, apply, toRecover, recovered, written, safe, limbo>>
  BY NothingTyped DEF Inv, FlushBegin, AfterNewFileNumber, memoryVars, recoveryVars, historyVars
<1>1. /\ DiskTyped(fs) /\ DirsRight(fs) /\ Numbers(fs) /\ nextFile \in Nat /\ nextFile > 0
      /\ n \in Nat /\ nextFile <= n /\ nextFile \in 1 .. n - 1
  BY <1>0 DEF DiskInv, ProcessInv, Typed, TypedVersion
<1>2. /\ manifest < n
      /\ \A t \in Named(fs) : t > 0 /\ t < n
      /\ NextsUpTo(fs, n)
      /\ logNumber < n
      /\ \A m \in Nat : LogFile(m) \in Files(fs) => m < n \/ m \in toRecover
      /\ version \cup Found \cup pending \cup comp.base \cup Reading \subseteq 1 .. n - 1
      /\ \A k \in 1 .. nextFile - 1 : k \in 1 .. n - 1 /\ k # nextFile
  BY <1>0, <1>1, NumbersLater
<1>3. DiskInv(fs)'
  BY <1>0
<1>4. Typed'
  BY <1>0, <1>1 DEF Typed, TypedMemory, TypedVersion, TypedWork, TypedHistory, FlushRecord
<1>5. Steps'
  BY <1>0, NothingTyped DEF Steps, Quiet
<1>. HIDE DEF n
<1>6. Numbers(fs)'
  BY <1>0, <1>1, <1>2 DEF ProcessInv, Numbers, Found, Reading
<1>7. Outputs(fs)' /\ OutputsWritten(fs)'
  <2>1. nextFile \notin pending /\ nextFile \notin version /\ nextFile \notin Named(fs)
    BY <1>0, <1>1, <1>2 DEF Numbers
  <2>2. flush'.step = "build" /\ flush'.out = nextFile
    BY <1>0
  <2>3. Outputs(fs) /\ OutputsWritten(fs)
    BY <1>0 DEF ProcessInv
  <2>4. Outputs(fs)'
    BY <1>0, <2>1, <2>2, <2>3 DEF Outputs
  <2>5. OutputsWritten(fs)'
    BY <1>0, <2>2, <2>3 DEF OutputsWritten
  <2>. QED
    BY <2>4, <2>5
<1>8. LogsGone(fs)' /\ InUse(fs)' /\ RecoveredRight(fs)'
  BY <1>0 DEF ProcessInv, LogsGone, InUse, RecoveredRight, Found, Reading
<1>9. SeqsBelow(fs)' /\ BatchesUnique(fs)'
  BY <1>0 DEF ProcessInv, SeqsBelow, BatchesUnique, Found, Writing, Shown
<1>10. EditRight(fs)' /\ EditWritten(fs)'
  <2>1. apply.step = "none" \/ apply.for = "none"
    BY <1>0, NothingTyped DEF Steps, Typed, TypedWork, ApplyRecord
  <2>. QED
    BY <1>0, <2>1 DEF ProcessInv, EditRight, EditWritten, Steps
<1>. QED
  BY <1>3, <1>4, <1>5, <1>6, <1>7, <1>8, <1>9, <1>10 DEF Inv, ProcessInv

LEMMA InstallCompactionResultsInv ==
    ASSUME Inv, InstallCompactionResults
    PROVE  Inv'
<1>. DEFINE e == Edit({comp.out}, comp.inputs, versionLog, nextFile, lastSequence)
<1>0. /\ DiskInv(fs) /\ Typed /\ Steps /\ ProcessInv(fs)
      /\ comp.step = "written" /\ flush = NoFlush
      /\ comp' = [comp EXCEPT !.step = "apply"]
      /\ apply' = [step |-> "append", edit |-> e, for |-> "compaction"]
      /\ UNCHANGED <<fs, phase, mem, imm, hasImm, logNumber, version, nextFile, lastSequence, versionLog,
                     manifest, pending, bgError, held, writer, flush, toRecover, recovered, written,
                     safe, limbo>>
  BY DEF Inv, InstallCompactionResults, BeginApply, memoryVars, recoveryVars, historyVars
<1>1. /\ comp'.step = "apply" /\ comp'.inputs = comp.inputs /\ comp'.base = comp.base
      /\ comp'.out = comp.out /\ comp \in CompactionRecord /\ comp' \in CompactionRecord
      /\ comp.out \in Nat /\ comp.inputs \subseteq Nat
  BY <1>0 DEF Typed, TypedWork, CompactionRecord
<1>2. phase = "up" /\ apply.step = "none" /\ toRecover = {}
  <2>1. phase = "up"
    BY <1>0, NothingTyped DEF Steps, Quiet
  <2>. QED
    BY <1>0, <2>1, NothingTyped DEF Steps, Typed, TypedWork, ApplyRecord
<1>3. /\ e \in EditRecord /\ e.numbers /\ e.next = nextFile /\ e.log = versionLog
      /\ e.last = lastSequence /\ e.added = {comp.out} /\ e.deleted = comp.inputs
  BY <1>0, <1>1 DEF Edit, EditRecord, Typed, TypedVersion
<1>. HIDE DEF e
<1>4. apply'.step = "append" /\ apply'.edit = e /\ apply'.for = "compaction" /\ apply' \in ApplyRecord
  BY <1>0, <1>3 DEF ApplyRecord
<1>5. DiskInv(fs)'
  BY <1>0
<1>6. Typed'
  BY <1>0, <1>1, <1>4 DEF Typed, TypedMemory, TypedVersion, TypedWork, TypedHistory
<1>7. Steps'
  BY <1>0, <1>1, <1>2, <1>4, NothingTyped DEF Steps, Quiet
<1>8. Numbers(fs)' /\ LogsGone(fs)' /\ InUse(fs)' /\ RecoveredRight(fs)'
  BY <1>0, <1>1, <1>2 DEF ProcessInv, Numbers, LogsGone, InUse, RecoveredRight, Found, Reading
<1>9. Outputs(fs)' /\ OutputsWritten(fs)'
  BY <1>0, <1>1, NothingTyped DEF ProcessInv, Outputs, OutputsWritten
<1>10. SeqsBelow(fs)' /\ BatchesUnique(fs)'
  BY <1>0 DEF ProcessInv, SeqsBelow, BatchesUnique, Found, Writing, Shown
<1>11. EditAhead(fs, manifest, version, e)
  <2>1. /\ DiskTyped(fs) /\ DirsRight(fs) /\ Numbers(fs) /\ SeqsBelow(fs) /\ nextFile \in Nat
        /\ versionLog <= logNumber /\ logNumber < nextFile /\ versionLog \in Nat /\ logNumber \in Nat
    BY <1>0, <1>2 DEF DiskInv, ProcessInv, Numbers, Typed, TypedMemory, TypedVersion
  <2>2. comp.out \in 1 .. nextFile - 1
    BY <1>0, <1>2 DEF ProcessInv, Numbers, Outputs
  <2>3. \A b \in ReadTable(fs, comp.out) : b.seq <= lastSequence
    <3>1. ReadTable(fs, comp.out) = UNION {ReadTable(fs, t) : t \in comp.inputs}
      BY <1>0 DEF ProcessInv, OutputsWritten
    <3>2. \A t \in comp.inputs : t \in version /\ TableFile(t) \in Files(fs)
      BY <1>0, <1>2, DirParts DEF ProcessInv, Outputs, InUse, FileExists, DiskInv, DiskTyped, DirsTyped
    <3>3. \A t \in comp.inputs : \A b \in ReadTable(fs, t) : b.seq <= lastSequence
      BY <1>2, <2>1, <3>2 DEF SeqsBelow
    <3>. QED
      BY <3>1, <3>3
  <2>4. e.log < e.next /\ nextFile <= e.next
    BY <1>3, <2>1
  <2>5. \A t \in e.added : t \in 1 .. e.next - 1 /\ \A b \in ReadTable(fs, t) : b.seq <= lastSequence
    BY <1>3, <2>2, <2>3
  <2>. QED
    BY <1>0, <1>2, <1>3, <2>1, <2>4, <2>5, AheadNow
<1>12. EditRight(fs)'
  <2>1. e.next <= nextFile /\ e.log <= logNumber /\ versionLog <= e.log
    BY <1>0, <1>2, <1>3 DEF ProcessInv, Numbers, Typed, TypedVersion
  <2>2. EditAhead(fs', manifest', version', e)
    BY <1>0, <1>11
  <2>. QED
    BY <1>0, <1>1, <1>3, <1>4, <2>1, <2>2 DEF EditRight
<1>13. EditWritten(fs)'
  BY <1>4 DEF EditWritten
<1>. QED
  BY <1>5, <1>6, <1>7, <1>8, <1>9, <1>10, <1>12, <1>13 DEF Inv, ProcessInv

\* Readers.
LEMMA ReaderInv ==
    ASSUME Inv, ReaderBegin \/ ReaderEnd
    PROVE  Inv'
<1>0. /\ DiskInv(fs) /\ Typed /\ Steps /\ ProcessInv(fs)
      /\ phase = "up" /\ held' \in {version, NoReader}
      /\ UNCHANGED <<fs, phase, mem, imm, hasImm, logNumber, version, nextFile, lastSequence, versionLog,
                     manifest, pending, bgError, comp, apply, writer, flush, toRecover, recovered, written,
                     safe, limbo>>
  BY DEF Inv, ReaderBegin, ReaderEnd, Steps, Quiet, memoryVars, versionVars, recoveryVars, historyVars
<1>1. DiskInv(fs)'
  BY <1>0
<1>2. Typed'
  BY <1>0, NothingTyped DEF Typed, TypedMemory, TypedVersion, TypedWork, TypedHistory
<1>3. Steps'
  BY <1>0 DEF Steps, Quiet
<1>4. Numbers(fs)' /\ LogsGone(fs)' /\ InUse(fs)' /\ RecoveredRight(fs)'
  BY <1>0 DEF ProcessInv, Numbers, LogsGone, InUse, RecoveredRight, Found, Reading
<1>5. Outputs(fs)' /\ OutputsWritten(fs)'
  BY <1>0 DEF ProcessInv, Outputs, OutputsWritten
<1>6. SeqsBelow(fs)' /\ BatchesUnique(fs)'
  BY <1>0 DEF ProcessInv, SeqsBelow, BatchesUnique, Found, Writing, Shown
<1>7. EditRight(fs)' /\ EditWritten(fs)'
  BY <1>0 DEF ProcessInv, EditRight, EditWritten, EditAhead
<1>. QED
  BY <1>1, <1>2, <1>3, <1>4, <1>5, <1>6, <1>7 DEF Inv, ProcessInv

-----------------------------------------------------------------------------
(* Steps that touch a file.                                                *)

LEMMA SyncHarmless ==
    ASSUME NEW D, DiskTyped(D), NEW f \in Dir(D).names, NEW E, E = Sync(D, f)
    PROVE  Touches(D, E, f) /\ Harmless(D, E, f) /\ Records(E, f) = Records(D, f)
BY SyncTouches DEF Harmless

\* What the process keeps of the parts that do not name its variables.
LEMMA SyncLogInv ==
    ASSUME Inv, SyncLog
    PROVE  Inv'
<1>. DEFINE f == LogFile(logNumber)
<1>0. /\ DiskInv(fs) /\ DiskTyped(fs) /\ Typed /\ Steps /\ ProcessInv(fs)
      /\ writer.step = "logged" /\ writer \in WriteRecord
      /\ UNCHANGED <<phase, mem, imm, hasImm, logNumber, version, nextFile, versionLog, manifest, pending,
                     held, flush, comp, apply, toRecover, recovered, written, safe, limbo>>
  BY DEF Inv, DiskInv, SyncLog, memoryVars, recoveryVars, historyVars, Typed, TypedWork
<1>1. phase = "up" /\ writer.batch \in Batch /\ writer.batch.seq = lastSequence + 1 /\ lastSequence \in Nat
  BY <1>0, NothingTyped DEF Steps, Quiet, WriteRecord, Typed, TypedVersion
<1>2. f \in Dir(fs).names /\ \A t \in Nat : f # TableFile(t) /\ f # DescriptorFile(t)
  BY <1>0, <1>1, FilesDiffer DEF ProcessInv, InUse, FileExists, Typed, TypedMemory
<1>3. CASE fs' = Sync(fs, f) /\ writer' = [writer EXCEPT !.step = "synced"]
           /\ UNCHANGED <<bgError, lastSequence>>
  <2>1. Touches(fs, fs', f) /\ Harmless(fs, fs', f) /\ Records(fs', f) = Records(fs, f)
    BY <1>0, <1>2, <1>3, SyncHarmless
  <2>2. comp.out \in Nat /\ flush.out \in Nat /\ manifest \in Nat
    BY <1>0 DEF Typed, TypedWork, TypedVersion, CompactionRecord, FlushRecord
  <2>3. /\ DiskInv(fs')
        /\ Numbers(fs') /\ LogsGone(fs') /\ Outputs(fs') /\ InUse(fs') /\ SeqsBelow(fs')
        /\ BatchesUnique(fs') /\ RecoveredRight(fs') /\ EditRight(fs') /\ EditWritten(fs')
        /\ OutputsWritten(fs')
    BY <1>0, <1>1, <1>2, <2>1, <2>2, HarmlessStep
  <2>4. writer'.step = "synced" /\ writer'.batch = writer.batch /\ writer' \in WriteRecord
    BY <1>0, <1>3 DEF WriteRecord
  <2>5. Typed'
    BY <1>0, <1>3, <2>4 DEF Typed, TypedMemory, TypedVersion, TypedWork, TypedHistory
  <2>6. Steps'
    BY <1>0, <1>1, <1>3, <2>4 DEF Steps, Quiet
  <2>7. Numbers(fs)' /\ LogsGone(fs)' /\ InUse(fs)' /\ RecoveredRight(fs)'
    BY <1>0, <1>3, <2>3 DEF Numbers, LogsGone, InUse, RecoveredRight, Found, Reading
  <2>8. Outputs(fs)' /\ OutputsWritten(fs)'
    BY <1>0, <1>3, <2>3 DEF Outputs, OutputsWritten
  <2>9. SeqsBelow(fs)' /\ BatchesUnique(fs)'
    BY <1>0, <1>3, <2>3, <2>4 DEF SeqsBelow, BatchesUnique, Found, Writing, Shown
  <2>10. EditRight(fs)' /\ EditWritten(fs)'
    BY <1>0, <1>3, <2>3 DEF EditRight, EditWritten
  <2>. QED
    BY <2>3, <2>5, <2>6, <2>7, <2>8, <2>9, <2>10 DEF Inv, ProcessInv
<1>4. CASE /\ bgError' = TRUE /\ lastSequence' = writer.batch.seq /\ writer' = NoWrite /\ UNCHANGED fs
  <2>1. Typed'
    BY <1>0, <1>1, <1>4, NothingTyped, SMTT(30) DEF Typed, TypedMemory, TypedVersion, TypedWork, TypedHistory
  <2>2. Steps'
    BY <1>0, <1>1, <1>4, NothingTyped DEF Steps, Quiet
  <2>3. Numbers(fs)' /\ LogsGone(fs)' /\ InUse(fs)' /\ RecoveredRight(fs)'
    BY <1>0, <1>4 DEF ProcessInv, Numbers, LogsGone, InUse, RecoveredRight, Found, Reading
  <2>4. Outputs(fs)' /\ OutputsWritten(fs)'
    BY <1>0, <1>4 DEF ProcessInv, Outputs, OutputsWritten
  <2>5. SeqsBelow(fs)'
    <3>1. SeqsBelow(fs) /\ lastSequence + 1 \in Nat /\ lastSequence <= lastSequence + 1
      BY <1>0, <1>1 DEF ProcessInv
    <3>2. /\ \A t \in version \cup Found \cup Named(fs) : TableFile(t) \in Files(fs) =>
                    \A b \in ReadTable(fs, t) : b.seq <= lastSequence + 1
          /\ \A b \in Range1(mem) \cup Range1(imm) : b.seq <= lastSequence + 1
          /\ \A m \in Nat \ toRecover : LogFile(m) \in Files(fs) =>
                    \A b \in ReadLog(fs, m) :
                        b.seq <= lastSequence + 1 \/ (m = logNumber /\ b \in Writing)
      BY <1>0, <1>1, <3>1, SeqsLater
    <3>. QED
      BY <1>0, <1>1, <1>4, <3>2 DEF SeqsBelow, Found, Writing
  <2>6. BatchesUnique(fs)'
    BY <1>0, <1>4, NothingTyped DEF ProcessInv, BatchesUnique, Writing, Shown, Unique
  <2>7. EditRight(fs)' /\ EditWritten(fs)'
    BY <1>0, <1>4 DEF ProcessInv, EditRight, EditWritten
  <2>. QED
    BY <1>0, <1>4, <2>1, <2>2, <2>3, <2>4, <2>5, <2>6, <2>7 DEF Inv, ProcessInv
<1>. QED
  BY <1>3, <1>4 DEF SyncLog

LEMMA SyncManifestInv ==
    ASSUME Inv, SyncManifest
    PROVE  Inv'
<1>0. /\ DiskInv(fs) /\ DiskTyped(fs) /\ DirsRight(fs) /\ Typed /\ Steps /\ ProcessInv(fs)
      /\ apply.step = "sync" /\ apply \in ApplyRecord
      /\ UNCHANGED <<phase, mem, imm, hasImm, logNumber, version, nextFile, lastSequence, versionLog,
                     manifest, pending, bgError, held, writer, flush, comp, toRecover, recovered, written,
                     safe, limbo>>
  BY DEF Inv, DiskInv, SyncManifest, memoryVars, versionVars, recoveryVars, historyVars, Typed, TypedWork
<1>1. phase \in {"up", "opening"} /\ (phase = "opening" <=> apply.for = "open") /\ manifest \in Nat
      /\ apply.for # "none"
  BY <1>0, NothingTyped DEF Steps, Typed, TypedMemory, TypedVersion, TypedWork, ApplyRecord
<1>2. Descriptor \in Dir(fs).names /\ \A t \in Nat : Descriptor # TableFile(t) /\ Descriptor # LogFile(t)
  <2>1. Descriptor \in Dir(fs).names
    <3>1. CASE phase = "opening"
      BY <1>0, <1>1, <3>1 DEF ProcessInv, EditWritten, FileExists, Descriptor
    <3>2. CASE phase = "up"
      <4>1. Dir(fs).current = manifest /\ Dir(fs) \in Dirs(fs) /\ Dir(fs).current > 0
        BY <1>0, <3>2, DirParts DEF ProcessInv, Numbers, DiskTyped
      <4>. QED
        BY <1>0, <1>1, <4>1 DEF DirsRight, Descriptor
    <3>. QED
      BY <1>1, <3>1, <3>2
  <2>. QED
    BY <1>1, <2>1, FilesDiffer DEF Descriptor
<1>3. /\ fs' = Sync(fs, Descriptor) \/ fs' = fs
      /\ apply'.step \in {"current", "install", "failed"}
      /\ apply'.step = "current" => apply.for = "open"
      /\ apply'.step = "install" => apply.for # "open"
      /\ apply'.for = apply.for /\ apply'.edit = apply.edit /\ apply' \in ApplyRecord
  BY <1>0 DEF SyncManifest, ApplyRecord
<1>4. /\ DiskInv(fs')
      /\ Numbers(fs') /\ LogsGone(fs') /\ Outputs(fs') /\ InUse(fs') /\ SeqsBelow(fs')
      /\ BatchesUnique(fs') /\ RecoveredRight(fs') /\ EditRight(fs') /\ EditWritten(fs')
      /\ OutputsWritten(fs')
  <2>1. CASE fs' = fs
    BY <1>0, <2>1 DEF ProcessInv
  <2>2. CASE fs' = Sync(fs, Descriptor)
    <3>1. Touches(fs, fs', Descriptor) /\ Harmless(fs, fs', Descriptor)
          /\ Records(fs', Descriptor) = Records(fs, Descriptor)
      BY <1>0, <1>2, <2>2, SyncHarmless
    <3>2. comp.out \in Nat /\ flush.out \in Nat
      BY <1>0 DEF Typed, TypedWork, CompactionRecord, FlushRecord
    <3>. QED
      BY <1>0, <1>1, <1>2, <3>1, <3>2, HarmlessStep DEF Descriptor
  <2>. QED
    BY <1>3, <2>1, <2>2
<1>5. Typed'
  BY <1>0, <1>3 DEF Typed, TypedMemory, TypedVersion, TypedWork, TypedHistory
<1>6. Steps'
  BY <1>0, <1>1, <1>3 DEF Steps, Quiet
<1>7. Numbers(fs)' /\ LogsGone(fs)' /\ InUse(fs)' /\ RecoveredRight(fs)'
  BY <1>0, <1>1, <1>3, <1>4 DEF Numbers, LogsGone, InUse, RecoveredRight, Found, Reading
<1>8. Outputs(fs)' /\ OutputsWritten(fs)'
  BY <1>0, <1>4 DEF Outputs, OutputsWritten
<1>9. SeqsBelow(fs)' /\ BatchesUnique(fs)'
  BY <1>0, <1>4 DEF SeqsBelow, BatchesUnique, Found, Writing, Shown
<1>10. EditRight(fs)'
  BY <1>0, <1>3, <1>4 DEF EditRight
<1>11. EditWritten(fs)'
  BY <1>0, <1>3, <1>4 DEF EditWritten
<1>. QED
  BY <1>4, <1>5, <1>6, <1>7, <1>8, <1>9, <1>10, <1>11 DEF Inv, ProcessInv

-----------------------------------------------------------------------------
(* Steps that write an edit where an open may meet it.                     *)

\* The tables that the edit being applied adds.
LEMMA AddingShown ==
    ASSUME NEW D, DiskTyped(D), Typed, Steps, ProcessInv(D), apply.step # "none", phase # "down",
           NEW t \in apply.edit.added
    PROVE  /\ t \in Nat /\ t \in 1 .. nextFile - 1 /\ FileExists(D, TableFile(t))
           /\ TableFile(t) \in Files(D)
           /\ ReadTable(D, t) \subseteq Logged(D) \cup Shown(D)
           /\ \A b \in ReadTable(D, t) : b.seq <= lastSequence
           /\ \/ apply.for = "open" /\ t \in Found
              \/ apply.for = "flush" /\ t = flush.out /\ flush.step = "apply"
              \/ apply.for = "compaction" /\ t = comp.out /\ comp.step = "apply"
<1>0. /\ EditRight(D) /\ Outputs(D) /\ OutputsWritten(D) /\ InUse(D) /\ RecoveredRight(D) /\ Numbers(D)
      /\ SeqsBelow(D)
  BY DEF ProcessInv
<1>1. /\ apply.for \in {"open", "flush", "compaction"}
      /\ apply.for = "open" => phase = "opening"
      /\ apply.for = "flush" => flush.step = "apply"
      /\ apply.for = "compaction" => comp.step = "apply"
  BY DEF Steps, Typed, TypedWork, ApplyRecord
<1>2. Dir(D).names \subseteq Files(D)
  BY DirParts DEF DiskTyped, DirsTyped
<1>3. CASE apply.for = "open"
  <2>1. t \in Found /\ phase = "opening"
    BY <1>0, <1>1, <1>3 DEF EditRight, Found
  <2>2. t \in 1 .. nextFile - 1 /\ t \in Nat
    BY <1>0, <2>1 DEF Numbers
  <2>3. FileExists(D, TableFile(t))
    BY <1>0, <2>1 DEF InUse
  <2>4. TableFile(t) \in Files(D)
    BY <1>2, <2>3 DEF FileExists
  <2>5. ReadTable(D, t) \subseteq Logged(D)
    BY <1>0, <1>2, <2>1 DEF RecoveredRight, LoggedNow, Logged, FileExists
  <2>6. \A b \in ReadTable(D, t) : b.seq <= lastSequence
    BY <1>0, <2>1, <2>4 DEF SeqsBelow
  <2>. QED
    BY <1>3, <2>1, <2>2, <2>3, <2>4, <2>5, <2>6
<1>4. CASE apply.for = "flush"
  <2>1. t = flush.out /\ flush.step = "apply"
    BY <1>0, <1>1, <1>4 DEF EditRight
  <2>2. t \in 1 .. nextFile - 1 /\ t \in Nat /\ FileExists(D, TableFile(t))
    BY <1>0, <2>1 DEF Outputs
  <2>3. TableFile(t) \in Files(D)
    BY <1>2, <2>2 DEF FileExists
  <2>4. ReadTable(D, t) = Range1(imm)
    BY <1>0, <2>1 DEF OutputsWritten
  <2>5. \A b \in ReadTable(D, t) : b.seq <= lastSequence
    BY <1>0, <2>4 DEF SeqsBelow
  <2>. QED
    BY <1>4, <2>1, <2>2, <2>3, <2>4, <2>5 DEF Shown
<1>5. CASE apply.for = "compaction"
  <2>1. t = comp.out /\ comp.step = "apply"
    BY <1>0, <1>1, <1>5 DEF EditRight
  <2>2. t \in pending /\ FileExists(D, TableFile(t)) /\ comp.inputs \subseteq version
    BY <1>0, <2>1 DEF Outputs
  <2>3. t \in 1 .. nextFile - 1 /\ t \in Nat
    BY <1>0, <2>2 DEF Numbers
  <2>4. TableFile(t) \in Files(D)
    BY <1>2, <2>2 DEF FileExists
  <2>5. ReadTable(D, t) = UNION {ReadTable(D, u) : u \in comp.inputs}
    BY <1>0, <2>1 DEF OutputsWritten
  <2>6. \A u \in comp.inputs : TableFile(u) \in Files(D)
    BY <1>0, <1>2, <2>2 DEF InUse, FileExists
  <2>7. \A u \in comp.inputs : \A b \in ReadTable(D, u) : b.seq <= lastSequence
    BY <1>0, <2>2, <2>6 DEF SeqsBelow
  <2>8. \A b \in ReadTable(D, t) : b.seq <= lastSequence
    BY <2>5, <2>7
  <2>9. ReadTable(D, t) \subseteq Shown(D)
    BY <2>2, <2>5 DEF Shown
  <2>. QED
    BY <1>5, <2>1, <2>2, <2>3, <2>4, <2>8, <2>9
<1>. QED
  BY <1>1, <1>3, <1>4, <1>5

\* Just manifests and CURRENT change.
SameData(D, E) ==
    /\ Files(E) = Files(D) /\ Dir(E).names = Dir(D).names
    /\ \A n \in Nat : LogFile(n) \in Files(D) => Records(E, LogFile(n)) = Records(D, LogFile(n))
    /\ \A t \in Nat : TableFile(t) \in Files(D) => Records(E, TableFile(t)) = Records(D, TableFile(t))

LEMMA GainStep ==
    ASSUME NEW D, NEW E, DiskInv(D), Typed, Steps, ProcessInv(D), apply.step # "none",
           phase # "down", DiskTyped(E), DirsRight(E), FirstDir(E), SameData(D, E),
           Gains(D, E, manifest, version, apply.edit)
    PROVE  /\ DiskInv(E)
           /\ Outputs(E) /\ OutputsWritten(E) /\ InUse(E) /\ SeqsBelow(E)
           /\ BatchesUnique(E) /\ RecoveredRight(E) /\ EditRight(E)
           /\ \A t \in Named(E) : t > 0 /\ t < nextFile
           /\ NextsUpTo(E, nextFile)
           /\ phase \in {"opening", "up"} => LogsUpTo(E, logNumber)
<1>. DEFINE e == apply.edit
<1>0. /\ DiskTyped(D) /\ DirsRight(D) /\ EditsRight(D) /\ PairsRight(D)
      /\ Dir(D).names \subseteq Files(D)
      /\ Numbers(D) /\ Outputs(D) /\ OutputsWritten(D) /\ InUse(D) /\ SeqsBelow(D)
      /\ BatchesUnique(D) /\ RecoveredRight(D) /\ EditRight(D)
  BY DirParts DEF DiskInv, ProcessInv, DiskTyped, DirsTyped
<1>1. /\ EditAhead(D, manifest, version, e) /\ e.next <= nextFile /\ e.log <= logNumber
      /\ version \subseteq Nat /\ e.added \subseteq Nat
  BY <1>0 DEF EditRight, EditAhead, EditRecord
<1>. HIDE DEF e
<1>2. /\ EditsRight(E) /\ PairsRight(E)
      /\ Named(E) \subseteq Named(D) \cup version \cup e.added
      /\ Logged(E) \subseteq Logged(D)
      /\ Tabled(E) \subseteq Tabled(D) \cup UNION {ReadTable(D, t) : t \in {u \in version \cup e.added :
                                                                          TableFile(u) \in Files(D)}}
      /\ \A n : NextsUpTo(D, n) /\ e.next <= n => NextsUpTo(E, n)
      /\ \A n : LogsUpTo(D, n) /\ e.log <= n => LogsUpTo(E, n)
      /\ \A n, s : LogsBelow(D, n, s) => LogsBelow(E, n, s)
      /\ \A t \in Nat : \A n, s : TableBelow(D, t, n, s) => TableBelow(E, t, n, s)
  BY <1>0, <1>1, GainsKeep DEF e
<1>3. DiskInv(E)
  BY <1>2 DEF DiskInv
<1>4. /\ \A n \in Nat : LogFile(n) \in Files(D) => ReadLog(E, n) = ReadLog(D, n)
      /\ \A t \in Nat : TableFile(t) \in Files(D) => ReadTable(E, t) = ReadTable(D, t)
      /\ \A g : FileExists(E, g) <=> FileExists(D, g)
      /\ \A g : FileExists(D, g) => g \in Files(D)
      /\ Files(E) = Files(D)
  BY <1>0 DEF SameData, ReadLog, ReadTable, FileExists
<1>5. ASSUME NEW t \in e.added
      PROVE  /\ t \in Nat /\ t \in 1 .. nextFile - 1 /\ FileExists(D, TableFile(t))
             /\ TableFile(t) \in Files(D)
             /\ ReadTable(D, t) \subseteq Logged(D) \cup Shown(D)
             /\ \A b \in ReadTable(D, t) : b.seq <= lastSequence
             /\ \/ apply.for = "open" /\ t \in Found
                \/ apply.for = "flush" /\ t = flush.out /\ flush.step = "apply"
                \/ apply.for = "compaction" /\ t = comp.out /\ comp.step = "apply"
  BY <1>0, AddingShown DEF e
<1>6. \A t \in version \cup Found \cup comp.base \cup Reading : t \in Nat /\ FileExists(D, TableFile(t))
                                                              /\ TableFile(t) \in Files(D)
  BY <1>0, <1>4 DEF InUse, Typed, TypedVersion, TypedWork, CompactionRecord, Found, Reading
<1>7. Outputs(E)
  <2>1. flush.step = "build" => flush.out \notin Named(E)
    <3>1. apply.for # "open" \/ flush.step = "none"
      BY NothingTyped DEF Steps, Quiet
    <3>. QED
      BY <1>0, <1>2, <1>5, <3>1 DEF Outputs, Steps
  <2>2. comp.step \in {"running", "written"} => comp.out \notin Named(E)
    <3>1. apply.for # "open" \/ comp.step = "none"
      BY NothingTyped DEF Steps, Quiet
    <3>. QED
      BY <1>0, <1>2, <1>5, <3>1 DEF Outputs, Steps
  <2>. QED
    BY <1>0, <1>4, <2>1, <2>2 DEF Outputs
<1>8. OutputsWritten(E)
  <2>1. flush.step = "apply" => ReadTable(E, flush.out) = ReadTable(D, flush.out)
    BY <1>0, <1>4 DEF Outputs, Typed, TypedWork, FlushRecord
  <2>2. comp.step # "none" =>
          /\ ReadTable(E, comp.out) = ReadTable(D, comp.out)
          /\ Records(E, TableFile(comp.out)) = Records(D, TableFile(comp.out))
    BY <1>0, <1>4 DEF Outputs, Typed, TypedWork, CompactionRecord, SameData
  <2>3. ASSUME comp.step # "none"
        PROVE  UNION {ReadTable(E, t) : t \in comp.inputs} = UNION {ReadTable(D, t) : t \in comp.inputs}
    <3>1. \A t \in comp.inputs : ReadTable(E, t) = ReadTable(D, t)
      BY <1>0, <1>4, <1>6, <2>3 DEF Outputs
    <3>2. {ReadTable(E, t) : t \in comp.inputs} = {ReadTable(D, t) : t \in comp.inputs}
      BY <3>1
    <3>. QED
      BY <3>2
  <2>. QED
    BY <1>0, <2>1, <2>2, <2>3 DEF OutputsWritten
<1>9. InUse(E)
  BY <1>0, <1>4 DEF InUse
<1>10. SeqsBelow(E)
  <2>1. \A t \in Named(E) : t \in Nat
    BY DEF Named
  <2>2. \A t \in version \cup Found \cup Named(E) : TableFile(t) \in Files(E) =>
            \A b \in ReadTable(E, t) : b.seq <= lastSequence
    BY <1>0, <1>2, <1>4, <1>5, <1>6, <2>1 DEF SeqsBelow
  <2>. QED
    BY <1>0, <1>4, <2>2 DEF SeqsBelow
<1>11. Shown(E) = Shown(D)
  <2>1. \A t \in version : ReadTable(E, t) = ReadTable(D, t)
    BY <1>4, <1>6
  <2>2. {ReadTable(E, t) : t \in version} = {ReadTable(D, t) : t \in version}
    BY <2>1
  <2>. QED
    BY <2>2 DEF Shown
<1>12. BatchesUnique(E)
  <2>1. Tabled(E) \subseteq Tabled(D) \cup Logged(D) \cup Shown(D)
    BY <1>2, <1>5 DEF Shown
  <2>2. Unique(Logged(D) \cup Tabled(D) \cup Shown(D) \cup Writing)
    BY <1>0 DEF BatchesUnique
  <2>3. Logged(E) \cup Tabled(E) \cup Shown(E) \cup Writing
          \subseteq Logged(D) \cup Tabled(D) \cup Shown(D) \cup Writing
    BY <1>2, <1>11, <2>1
  <2>. QED
    BY <2>2, <2>3 DEF BatchesUnique, Unique
<1>13. RecoveredRight(E)
  <2>1. LoggedNow(E) = LoggedNow(D)
    <3>1. \A m \in Nat : FileExists(D, LogFile(m)) => ReadLog(E, m) = ReadLog(D, m)
      BY <1>4
    <3>2. {n \in Nat : FileExists(E, LogFile(n))} = {n \in Nat : FileExists(D, LogFile(n))}
      BY <1>4
    <3>3. {ReadLog(E, m) : m \in {n \in Nat : FileExists(E, LogFile(n))}}
            = {ReadLog(D, m) : m \in {n \in Nat : FileExists(D, LogFile(n))}}
      BY <3>1, <3>2
    <3>. QED
      BY <3>3 DEF LoggedNow
  <2>2. \A t \in Found : ReadTable(E, t) = ReadTable(D, t)
    BY <1>4, <1>6
  <2>. QED
    BY <1>0, <1>4, <2>1, <2>2 DEF RecoveredRight
<1>14. EditRight(E)
  <2>1. EditAhead(E, manifest, version, e)
    <3>1. \A t \in Named(E) \cup version \cup e.added : t \in Nat
      BY <1>1 DEF Named
    <3>2. \A t \in Named(E) \cup version \cup e.added : TableBelow(D, t, e.next, e.last)
      BY <1>1, <1>2 DEF EditAhead
    <3>3. \A t \in Named(E) \cup version \cup e.added : TableBelow(E, t, e.next, e.last)
      BY <1>2, <3>1, <3>2
    <3>4. NextsUpTo(E, e.next) /\ LogsBelow(E, e.log, e.last)
      <4>1. e.next <= e.next
        BY <1>1 DEF EditAhead, EditRecord
      <4>. QED
        BY <1>1, <1>2, <4>1 DEF EditAhead
    <3>. QED
      BY <1>1, <3>3, <3>4 DEF EditAhead
  <2>. QED
    BY <1>0, <2>1 DEF EditRight, e
<1>15. \A t \in Named(E) : t > 0 /\ t < nextFile
  <2>1. \A t \in 1 .. nextFile - 1 : t > 0 /\ t < nextFile
    BY DEF Typed, TypedVersion
  <2>2. version \subseteq 1 .. nextFile - 1 /\ \A t \in Named(D) : t > 0 /\ t < nextFile
    BY <1>0 DEF Numbers
  <2>. QED
    BY <1>2, <1>5, <2>1, <2>2
<1>16. NextsUpTo(E, nextFile) /\ (phase \in {"opening", "up"} => LogsUpTo(E, logNumber))
  BY <1>0, <1>1, <1>2 DEF Numbers
<1>. QED
  BY <1>3, <1>7, <1>8, <1>9, <1>10, <1>12, <1>13, <1>14, <1>15, <1>16

\* Part of an edit at the end of a manifest is no edit.
Complete(s) == IF s # <<>> /\ Last(s) = TornEdit THEN Front(s) ELSE s

LEMMA EditsComplete == \A D : Edits(D) = Complete(EditsIn(D, Dir(D).current))
BY EditsFacts DEF Complete

LEMMA CompleteAppended ==
    ASSUME NEW S, NEW s \in Seq(S), NEW r \in S
    PROVE  /\ r # TornEdit => Complete(s \o <<r>>) = s \o <<r>>
           /\ r = TornEdit => Complete(s \o <<r>>) = s
           /\ s \o <<r>> # <<>>
<1>. DEFINE t == s \o <<r>>
            n == Len(s)
<1>1. /\ t \in Seq(S) /\ Len(t) = n + 1 /\ n \in Nat
      /\ \A i \in 1 .. n : t[i] = s[i]
      /\ t[n + 1] = r
  BY OneMore
<1>. HIDE DEF t, n
<1>2. t # <<>>
  <2>1. Len(t) # 0
    BY <1>1
  <2>. QED
    BY <2>1, EmptySeq
<1>3. Last(t) = r
  BY <1>1 DEF Last
<1>4. Front(t) = s
  <2>1. Front(t) = SubSeq(t, 1, n)
    <3>1. Len(t) - 1 = n
      BY <1>1
    <3>. QED
      BY <3>1 DEF Front
  <2>2. \A i \in 1 .. n : t[i] \in S
    BY <1>1, ElementOfSeq DEF n
  <2>3. /\ SubSeq(t, 1, n) \in Seq(S)
        /\ Len(SubSeq(t, 1, n)) = IF 1 <= n THEN n - 1 + 1 ELSE 0
        /\ \A i \in 1 .. n - 1 + 1 : SubSeq(t, 1, n)[i] = t[1 + i - 1]
    BY <1>1, <2>2, SubSeqProperties
  <2>4. Len(SubSeq(t, 1, n)) = n
    BY <1>1, <2>3
  <2>5. \A i \in 1 .. n : SubSeq(t, 1, n)[i] = s[i]
    <3>. TAKE i \in 1 .. n
    <3>1. i \in 1 .. n - 1 + 1 /\ 1 + i - 1 = i
      BY <1>1
    <3>. QED
      BY <1>1, <2>3, <3>1
  <2>. QED
    BY <2>1, <2>3, <2>4, <2>5, SeqEqual DEF n
<1>. QED
  BY <1>2, <1>3, <1>4 DEF Complete, t

LEMMA DescriptorAppended ==
    ASSUME NEW D, DiskTyped(D), NEW c \in Nat, DescriptorFile(c) \in Files(D),
           NEW u \in Seq(EditRecord \cup {TornEdit}), NEW E, E = AddRecords(D, DescriptorFile(c), u)
    PROVE  /\ DiskTyped(E) /\ Files(E) = Files(D) /\ EditsIn(E, c) = EditsIn(D, c) \o u
           /\ \A g \in Files(D) : g # DescriptorFile(c) => E.files[g] = D.files[g]
           /\ Dir(E) = Dir(D) /\ Dirs(E) = Dirs(D)
<1>. DEFINE f == DescriptorFile(c)
<1>1. Item(f) = EditRecord \cup {TornEdit}
  BY FileTypes DEF Item
<1>2. u \in Seq(Item(f)) /\ f \in Files(D) /\ E = AddRecords(D, f, u)
  BY <1>1
<1>. HIDE DEF f
<1>4. DiskTyped(E) /\ Files(E) = Files(D) /\ Records(E, f) = Records(D, f) \o u
  BY <1>2, AddRecordsDisk, SMTT(30)
<1>6. \A g \in Files(D) : g # f => E.files[g] = D.files[g]
  BY <1>2, AddRecordsDisk
<1>7. Dir(E) = Dir(D) /\ Dirs(E) = Dirs(D)
  BY <1>2, AddRecordsDisk
<1>. QED
  BY <1>4, <1>6, <1>7 DEF f, EditsIn

\* An edit, or part of one, is appended to the manifest in use.
LEMMA AppendStep ==
    ASSUME NEW D, NEW E, DiskInv(D), Typed, Steps, ProcessInv(D), apply.step # "none",
           phase = "up", NEW r \in {apply.edit, TornEdit},
           E = AddRecords(D, Descriptor, <<r>>)
    PROVE  /\ DiskTyped(E) /\ DirsRight(E) /\ FirstDir(E) /\ SameData(D, E)
           /\ Gains(D, E, manifest, version, apply.edit)
           /\ Dir(E) = Dir(D)
           /\ EditsIn(E, manifest) = EditsIn(D, manifest) \o <<r>>
           /\ EditsIn(E, manifest) # <<>>
           /\ r = apply.edit => EditsIn(E, manifest)[Len(EditsIn(E, manifest))] = apply.edit
           /\ LogsGone(E)
<1>. DEFINE old == EditsIn(D, manifest)
            new == old \o <<r>>
            S == EditRecord \cup {TornEdit}
<1>0. /\ DiskTyped(D) /\ DirsRight(D) /\ FirstDir(D) /\ DirsTyped(D)
      /\ Numbers(D) /\ LogsGone(D) /\ EditRight(D)
  BY DEF DiskInv, ProcessInv, DiskTyped
<1>1. manifest = Dir(D).current /\ manifest > 0 /\ manifest \in Nat /\ Dir(D) \in Dirs(D)
      /\ manifest \in Currents(D)
  BY <1>0, DirParts, CurrentOfDir DEF Numbers, Typed, TypedVersion
<1>2. /\ apply.edit \in EditRecord /\ apply.edit # TornEdit /\ r \in S
      /\ versionLog <= apply.edit.log
  BY <1>0, EditsNotTorn DEF EditRight, EditAhead
<1>3. Descriptor \in Dir(D).names /\ Descriptor \in Files(D) /\ Descriptor.kind = "manifest"
      /\ Descriptor = DescriptorFile(manifest) /\ Descriptor \in File
      /\ Item(Descriptor) = S
  BY <1>0, <1>1, FileTypes DEF DirsRight, DirsTyped, Descriptor, Item
<1>4. old \in Seq(S) /\ DOMAIN old = 1 .. Len(old) /\ Len(old) \in Nat
  BY <1>0, <1>1, CurrentFacts
<1>5. /\ DiskTyped(E) /\ Files(E) = Files(D)
      /\ \A g \in Files(D) : g # Descriptor => E.files[g] = D.files[g]
      /\ Dir(E) = Dir(D) /\ Dirs(E) = Dirs(D) /\ EditsIn(E, manifest) = new
  <2>. DEFINE u == <<r>>
  <2>1. u \in Seq(EditRecord \cup {TornEdit})
    BY <1>2
  <2>2. E = AddRecords(D, DescriptorFile(manifest), u) /\ new = old \o u
    BY <1>3
  <2>. HIDE DEF u, new
  <2>3. DiskTyped(E) /\ Files(E) = Files(D)
    BY <1>0, <1>1, <1>3, <2>1, <2>2, DescriptorAppended
  <2>4. \A g \in Files(D) : g # DescriptorFile(manifest) => E.files[g] = D.files[g]
    BY <1>0, <1>1, <1>3, <2>1, <2>2, DescriptorAppended, SMTT(30)
  <2>5. Dir(E) = Dir(D) /\ Dirs(E) = Dirs(D)
    BY <1>0, <1>1, <1>3, <2>1, <2>2, DescriptorAppended
  <2>6. EditsIn(E, manifest) = EditsIn(D, manifest) \o u
    <3>1. DiskTyped(D) /\ manifest \in Nat /\ DescriptorFile(manifest) \in Files(D)
      BY <1>0, <1>1, <1>3
    <3>. QED
      BY <2>1, <2>2, <3>1, DescriptorAppended, ZenonT(60)
  <2>. QED
    BY <1>3, <2>2, <2>3, <2>4, <2>5, <2>6
<1>6. EditsIn(E, manifest) = new
  BY <1>5
<1>7. /\ Len(new) = Len(old) + 1 /\ DOMAIN new = 1 .. Len(old) + 1
      /\ \A i \in 1 .. Len(old) : new[i] = old[i]
      /\ new[Len(old) + 1] = r
  BY <1>2, <1>4, OneMore
<1>8. /\ r # TornEdit => Complete(new) = new
      /\ r = TornEdit => Complete(new) = old
      /\ new # <<>>
  BY <1>2, <1>4, CompleteAppended
<1>. HIDE DEF new, old, S
<1>9. DirsRight(E) /\ FirstDir(E)
  BY <1>0, <1>5 DEF DirsRight, FirstDir
<1>10. \A g \in Files(D) : g # Descriptor => Records(E, g) = Records(D, g)
  BY <1>5 DEF Records
<1>11. SameData(D, E)
  BY <1>1, <1>3, <1>5, <1>10, FilesDiffer DEF SameData
<1>12. Gains(D, E, manifest, version, apply.edit)
  <2>1. Currents(E) = Currents(D)
    BY <1>5 DEF Currents
  <2>2. \A d \in Currents(D) : d <= manifest /\ d \in Nat /\ DescriptorFile(d) \in Files(D)
    BY <1>0, <1>1, CurrentFacts
  <2>3. \A d \in Currents(E) \ {manifest} : EditsIn(E, d) = EditsIn(D, d)
    <3>1. \A d \in Currents(E) \ {manifest} : DescriptorFile(d) # Descriptor
      BY <1>1, <1>3, <2>1, <2>2, FilesDiffer
    <3>. QED
      BY <1>10, <2>1, <2>2, <3>1 DEF EditsIn
  <2>4. ASSUME NEW k \in DOMAIN new, ~(k \in DOMAIN old) PROVE new[k] = r /\ \A j \in DOMAIN new : j <= k
    BY <1>4, <1>7, <2>4
  <2>5. \A k \in DOMAIN old : new[k] = old[k]
    BY <1>4, <1>7
  <2>6. \A n \in Nat : LogFile(n) \in Files(E) =>
          LogFile(n) \in Files(D) /\ ReadLog(E, n) \subseteq ReadLog(D, n)
    BY <1>5, <1>11 DEF SameData, ReadLog
  <2>7. \A n \in Nat : TableFile(n) \in Files(E) =>
          TableFile(n) \in Files(D) /\ ReadTable(E, n) \subseteq ReadTable(D, n)
    BY <1>5, <1>11 DEF SameData, ReadTable
  <2>. QED
    BY <1>1, <1>6, <2>1, <2>2, <2>3, <2>4, <2>5, <2>6, <2>7 DEF Gains, old
<1>13. LogsGone(E)
  <2>1. Edits(E) = Complete(new) /\ Edits(D) = Complete(old)
    BY <1>1, <1>5, <1>6, EditsComplete DEF old
  <2>2. CASE r = TornEdit
    <3>1. Edits(E) = old
      BY <1>8, <2>1, <2>2
    <3>2. old = <<>> \/ old[Len(old)] = TornEdit \/ Edits(D) = old
      BY <2>1 DEF Complete, Last
    <3>. QED
      BY <1>0, <1>5, <3>1, <3>2 DEF LogsGone, LastEdit
  <2>3. CASE r # TornEdit
    <3>1. Edits(E) = new /\ LastEdit(E) = r /\ r = apply.edit
      BY <1>7, <1>8, <2>1, <2>3 DEF LastEdit
    <3>2. versionLog <= LastEdit(E).log
      BY <1>2, <3>1
    <3>3. versionLog \in Nat /\ LastEdit(E).log \in Nat
      BY <1>2, <3>1 DEF Typed, TypedVersion, EditRecord
    <3>. QED
      BY <1>0, <1>5, <3>2, <3>3 DEF LogsGone
  <2>. QED
    BY <2>2, <2>3
<1>14. r = apply.edit => new[Len(new)] = apply.edit
  BY <1>7
<1>. QED
  BY <1>5, <1>6, <1>8, <1>9, <1>11, <1>12, <1>13, <1>14 DEF new, old

\* A new manifest is written, which CURRENT does not name yet.
LEMMA NewManifestHarmless ==
    ASSUME NEW D, NEW E, DiskInv(D), Typed, ProcessInv(D), phase = "opening",
           apply.step = "append", NEW s \in Seq(EditRecord \cup {TornEdit}),
           E = AddRecords(NewWritableFile(D, Descriptor), Descriptor, s)
    PROVE  Touches(D, E, Descriptor) /\ Records(E, Descriptor) = s /\ Harmless(D, E, Descriptor)
<1>. DEFINE f == Descriptor
            F == NewWritableFile(D, f)
<1>0. DiskTyped(D) /\ DirsRight(D) /\ Numbers(D) /\ manifest \in Nat
  BY DEF DiskInv, ProcessInv, Typed, TypedVersion
<1>1. /\ f = DescriptorFile(manifest) /\ f \in File /\ Item(f) = EditRecord \cup {TornEdit}
      /\ \A n \in Nat : f # TableFile(n) /\ f # LogFile(n)
  BY <1>0, FileTypes, FilesDiffer DEF Descriptor, Item
<1>2. \A c \in Currents(D) : f # DescriptorFile(c)
  <2>. SUFFICES ASSUME NEW c \in Currents(D) PROVE c # manifest /\ c \in Nat
    BY <1>0, <1>1, FilesDiffer
  <2>1. c \in Nat /\ c <= Dir(D).current /\ Dir(D).current < manifest /\ Dir(D).current \in Nat
    BY <1>0, CurrentFacts, DirParts DEF Numbers, DiskTyped
  <2>. QED
    BY <1>0, <2>1
<1>3. s \in Seq(Item(f)) /\ E = AddRecords(F, f, s)
  BY <1>1
<1>4. Touches(D, F, f) /\ Records(F, f) = <<>>
  BY <1>0, <1>1, NewFileTouches
<1>. HIDE DEF f, F
<1>5. DiskTyped(F) /\ f \in Dir(F).names
  BY <1>4 DEF Touches
<1>6. Touches(F, E, f)
  BY <1>3, <1>5, AddRecordsTouches
<1>7. Records(E, f) = Records(F, f) \o s
  BY <1>3, <1>5, AddRecordsTouches
<1>8. Touches(D, E, f) /\ Records(E, f) = s
  BY <1>4, <1>6, <1>7, TouchTwice, ConcatEmptySeq
<1>9. Harmless(D, E, f)
  <2>1. Named(D) \cup version \cup Found \cup Adding \subseteq Nat
    BY DEF Named, Typed, TypedVersion, TypedWork, ApplyRecord, EditRecord, Found, Adding
  <2>. QED
    BY <1>1, <1>2, <2>1 DEF Harmless
<1>. QED
  BY <1>8, <1>9 DEF f

LEMMA NewManifestStep ==
    ASSUME NEW D, NEW E, DiskInv(D), Typed, Steps, ProcessInv(D), phase = "opening",
           apply.step = "append", NEW s \in Seq(EditRecord \cup {TornEdit}),
           E = AddRecords(NewWritableFile(D, Descriptor), Descriptor, s)
    PROVE  /\ DiskInv(E)
           /\ Numbers(E) /\ LogsGone(E) /\ Outputs(E) /\ OutputsWritten(E) /\ InUse(E) /\ SeqsBelow(E)
           /\ BatchesUnique(E) /\ RecoveredRight(E) /\ EditRight(E)
           /\ FileExists(E, Descriptor) /\ EditsIn(E, manifest) = s
<1>1. manifest \in Nat /\ comp.out \in Nat /\ flush.out \in Nat /\ Descriptor = DescriptorFile(manifest)
  BY DEF Typed, TypedVersion, TypedWork, CompactionRecord, FlushRecord, Descriptor
<1>2. Touches(D, E, Descriptor) /\ Records(E, Descriptor) = s /\ Harmless(D, E, Descriptor)
  BY NewManifestHarmless
<1>3. /\ DiskInv(E)
      /\ Numbers(E) /\ LogsGone(E) /\ Outputs(E) /\ InUse(E) /\ SeqsBelow(E)
      /\ BatchesUnique(E) /\ RecoveredRight(E) /\ EditRight(E) /\ OutputsWritten(E)
  BY <1>1, <1>2, FilesDiffer, HarmlessStep
<1>4. FileExists(E, Descriptor)
  BY <1>2 DEF Touches, FileExists
<1>. QED
  BY <1>1, <1>2, <1>3, <1>4 DEF EditsIn

LEMMA WriteManifestInv ==
    ASSUME Inv, WriteManifest
    PROVE  Inv'
<1>. DEFINE two == <<Snapshot(version), apply.edit>>
<1>0. /\ DiskInv(fs) /\ DiskTyped(fs) /\ DirsRight(fs) /\ Typed /\ Steps /\ ProcessInv(fs)
      /\ apply.step = "append" /\ apply \in ApplyRecord
      /\ UNCHANGED <<phase, mem, imm, hasImm, logNumber, version, nextFile, lastSequence, versionLog,
                     manifest, pending, bgError, held, writer, flush, comp, toRecover, recovered, written,
                     safe, limbo>>
  BY DEF Inv, DiskInv, WriteManifest, memoryVars, versionVars, recoveryVars, historyVars, Typed, TypedWork
<1>1. phase \in {"up", "opening"} /\ (phase = "opening" <=> apply.for = "open") /\ manifest \in Nat
      /\ apply.for # "none"
  BY <1>0, NothingTyped DEF Steps, Typed, TypedMemory, TypedVersion, TypedWork, ApplyRecord
<1>2. /\ apply'.step \in {"sync", "failed"}
      /\ apply'.for = apply.for /\ apply'.edit = apply.edit /\ apply' \in ApplyRecord
  BY <1>0 DEF WriteManifest, ApplyRecord
<1>3. two \in Seq(EditRecord \cup {TornEdit}) /\ Len(two) = 2 /\ two[2] = apply.edit /\ two # <<>>
  <2>1. Snapshot(version) \in EditRecord /\ apply.edit \in EditRecord
    BY <1>0 DEF Snapshot, EditRecord, Typed, TypedVersion, ApplyRecord
  <2>. QED
    BY <2>1
<1>4. \/ UNCHANGED fs /\ apply'.step = "failed"
      \/ apply.for = "open" /\ fs' = AddRecords(NewWritableFile(fs, Descriptor), Descriptor, two)
      \/ apply.for # "open" /\ \E r \in {apply.edit, TornEdit} :
              /\ fs' = AddRecords(fs, Descriptor, <<r>>)
              /\ r # apply.edit => apply'.step = "failed"
  <2>1. CASE /\ fs' = IF apply.for = "open"
                      THEN AddRecords(NewWritableFile(fs, Descriptor), Descriptor, two)
                      ELSE AddRecords(fs, Descriptor, <<apply.edit>>)
    BY <2>1
  <2>2. CASE /\ apply' = [apply EXCEPT !.step = "failed"]
             /\ \/ UNCHANGED fs
                \/ apply.for # "open" /\ fs' = AddRecords(fs, Descriptor, <<TornEdit>>)
    <3>1. apply'.step = "failed"
      BY <1>0, <2>2 DEF ApplyRecord
    <3>. QED
      BY <2>2, <3>1
  <2>. QED
    BY <2>1, <2>2 DEF WriteManifest
<1>5. /\ DiskInv(fs')
      /\ Numbers(fs') /\ LogsGone(fs') /\ Outputs(fs') /\ InUse(fs') /\ SeqsBelow(fs')
      /\ BatchesUnique(fs') /\ RecoveredRight(fs') /\ EditRight(fs') /\ OutputsWritten(fs')
      /\ apply'.step = "sync" =>
            /\ EditsIn(fs', manifest) # <<>>
            /\ EditsIn(fs', manifest)[Len(EditsIn(fs', manifest))] = apply.edit
            /\ apply.for = "open" => FileExists(fs', Descriptor) /\ EditsIn(fs', manifest) = two
  <2>1. CASE UNCHANGED fs /\ apply'.step = "failed"
    BY <1>0, <2>1 DEF ProcessInv
  <2>2. CASE apply.for = "open" /\ fs' = AddRecords(NewWritableFile(fs, Descriptor), Descriptor, two)
    <3>. HIDE DEF two
    <3>1. /\ DiskInv(fs')
          /\ Numbers(fs') /\ LogsGone(fs') /\ Outputs(fs') /\ OutputsWritten(fs') /\ InUse(fs')
          /\ SeqsBelow(fs') /\ BatchesUnique(fs') /\ RecoveredRight(fs') /\ EditRight(fs')
          /\ FileExists(fs', Descriptor) /\ EditsIn(fs', manifest) = two
      BY <1>0, <1>1, <1>3, <2>2, NewManifestStep
    <3>. QED
      BY <1>3, <3>1
  <2>3. ASSUME apply.for # "open", NEW r \in {apply.edit, TornEdit},
               fs' = AddRecords(fs, Descriptor, <<r>>), r # apply.edit => apply'.step = "failed"
        PROVE  /\ DiskInv(fs')
               /\ Numbers(fs') /\ LogsGone(fs') /\ Outputs(fs') /\ InUse(fs') /\ SeqsBelow(fs')
               /\ BatchesUnique(fs') /\ RecoveredRight(fs') /\ EditRight(fs') /\ OutputsWritten(fs')
               /\ apply'.step = "sync" =>
                     /\ EditsIn(fs', manifest) # <<>>
                     /\ EditsIn(fs', manifest)[Len(EditsIn(fs', manifest))] = apply.edit
                     /\ apply.for = "open" => FileExists(fs', Descriptor) /\ EditsIn(fs', manifest) = two
    <3>1. /\ DiskTyped(fs') /\ DirsRight(fs') /\ FirstDir(fs') /\ SameData(fs, fs')
          /\ Gains(fs, fs', manifest, version, apply.edit)
          /\ Dir(fs') = Dir(fs)
          /\ EditsIn(fs', manifest) # <<>>
          /\ r = apply.edit => EditsIn(fs', manifest)[Len(EditsIn(fs', manifest))] = apply.edit
          /\ LogsGone(fs')
      BY <1>0, <1>1, <2>3, AppendStep
    <3>2. /\ DiskInv(fs')
          /\ Outputs(fs') /\ OutputsWritten(fs') /\ InUse(fs') /\ SeqsBelow(fs')
          /\ BatchesUnique(fs') /\ RecoveredRight(fs') /\ EditRight(fs')
          /\ \A t \in Named(fs') : t > 0 /\ t < nextFile
          /\ NextsUpTo(fs', nextFile)
          /\ phase \in {"opening", "up"} => LogsUpTo(fs', logNumber)
      BY <1>0, <1>1, <3>1, GainStep
    <3>3. Numbers(fs')
      BY <1>0, <3>1, <3>2 DEF ProcessInv, Numbers, SameData
    <3>. QED
      BY <2>3, <3>1, <3>2, <3>3
  <2>. QED
    BY <1>4, <2>1, <2>2, <2>3
<1>6. Typed'
  BY <1>0, <1>2 DEF Typed, TypedMemory, TypedVersion, TypedWork, TypedHistory
<1>7. Steps'
  BY <1>0, <1>1, <1>2 DEF Steps, Quiet
<1>8. Numbers(fs)' /\ LogsGone(fs)' /\ InUse(fs)' /\ RecoveredRight(fs)'
  BY <1>0, <1>1, <1>2, <1>5 DEF Numbers, LogsGone, InUse, RecoveredRight, Found, Reading
<1>9. Outputs(fs)' /\ OutputsWritten(fs)'
  BY <1>0, <1>5 DEF Outputs, OutputsWritten
<1>10. SeqsBelow(fs)' /\ BatchesUnique(fs)'
  BY <1>0, <1>5 DEF SeqsBelow, BatchesUnique, Found, Writing, Shown
<1>11. EditRight(fs)'
  BY <1>0, <1>2, <1>5 DEF EditRight
<1>12. EditWritten(fs)'
  BY <1>0, <1>2, <1>5 DEF EditWritten, Descriptor
<1>. QED
  BY <1>5, <1>6, <1>7, <1>8, <1>9, <1>10, <1>11, <1>12 DEF Inv, ProcessInv

\* CURRENT names the new manifest.
LEMMA WriteCurrentInv ==
    ASSUME Inv, WriteCurrent
    PROVE  Inv'
<1>. DEFINE e == apply.edit
            two == <<Snapshot(version), e>>
<1>0. /\ DiskInv(fs) /\ DiskTyped(fs) /\ DirsRight(fs) /\ FirstDir(fs) /\ Typed /\ Steps
      /\ ProcessInv(fs) /\ Numbers(fs) /\ LogsGone(fs) /\ EditRight(fs) /\ EditWritten(fs)
      /\ apply.step = "current" /\ apply \in ApplyRecord
      /\ fs' = SetCurrentFile(fs, manifest)
      /\ apply' = [apply EXCEPT !.step = "install"]
      /\ UNCHANGED <<phase, mem, imm, hasImm, logNumber, version, nextFile, lastSequence, versionLog,
                     manifest, pending, bgError, held, writer, flush, comp, toRecover, recovered, written,
                     safe, limbo>>
  BY DEF Inv, DiskInv, ProcessInv, WriteCurrent, memoryVars, versionVars, recoveryVars, historyVars,
         Typed, TypedWork
<1>1. apply.for = "open" /\ phase = "opening" /\ manifest \in Nat
  BY <1>0 DEF Steps, Typed, TypedVersion
<1>2. /\ apply'.step = "install" /\ apply'.for = "open" /\ apply'.edit = e /\ apply' \in ApplyRecord
  BY <1>0, <1>1 DEF ApplyRecord
<1>3. /\ Dir(fs).current > 0 /\ Dir(fs).current < manifest /\ Dir(fs).current \in Nat
      /\ DescriptorFile(manifest) \in Dir(fs).names /\ EditsIn(fs, manifest) = two
      /\ DescriptorFile(manifest) \in Files(fs)
  <2>1. Dir(fs).current > 0 /\ Dir(fs).current < manifest
    BY <1>0, <1>1 DEF Numbers
  <2>2. DescriptorFile(manifest) \in Dir(fs).names /\ EditsIn(fs, manifest) = two
    BY <1>0, <1>1 DEF EditWritten, FileExists
  <2>. QED
    BY <1>0, <2>1, <2>2, DirParts DEF DiskTyped, DirsTyped
<1>4. /\ e \in EditRecord /\ e # TornEdit /\ Snapshot(version) # TornEdit
      /\ Snapshot(version).numbers = FALSE /\ Snapshot(version).added = version
      /\ versionLog <= e.log /\ e.log \in Nat /\ versionLog \in Nat
  <2>1. e \in EditRecord /\ versionLog <= e.log
    BY <1>0 DEF EditRight, EditAhead
  <2>2. Snapshot(version) \in EditRecord
    BY <1>0 DEF Snapshot, EditRecord, Typed, TypedVersion
  <2>3. Snapshot(version).numbers = FALSE /\ Snapshot(version).added = version
    BY DEF Snapshot
  <2>4. e.log \in Nat /\ versionLog \in Nat
    BY <1>0, <2>1 DEF EditRecord, Typed, TypedVersion
  <2>. QED
    BY <2>1, <2>2, <2>3, <2>4, EditsNotTorn
<1>5. /\ DOMAIN two = {1, 2} /\ Len(two) = 2 /\ two[1] = Snapshot(version) /\ two[2] = e
      /\ two # <<>> /\ Last(two) = e
  BY DEF Last
<1>. HIDE DEF two, e
<1>6. /\ DiskTyped(fs')
      /\ Files(fs') = Files(fs) /\ \A g \in Files(fs) : fs'.files[g] = fs.files[g]
      /\ Dir(fs').names = Dir(fs).names /\ Dir(fs').current = manifest
      /\ Dirs(fs') = Dirs(fs) \cup {Dir(fs')}
  BY <1>0, <1>1, SetCurrentDisk
<1>7. \A g \in Files(fs) : Records(fs', g) = Records(fs, g)
  BY <1>6 DEF Records
<1>8. DirsRight(fs') /\ FirstDir(fs')
  <2>1. \A d \in Dirs(fs) : d.current \in Nat /\ d.current <= Dir(fs).current
    BY <1>0, DirParts DEF DirsRight, DiskTyped
  <2>2. \A d \in Dirs(fs) : d.current <= manifest
    BY <1>1, <1>3, <2>1
  <2>. QED
    BY <1>0, <1>1, <1>3, <1>6, <2>2 DEF DirsRight, FirstDir
<1>9. SameData(fs, fs')
  BY <1>6, <1>7 DEF SameData
<1>10. EditsIn(fs', manifest) = two
  BY <1>3, <1>7 DEF EditsIn
<1>11. Gains(fs, fs', manifest, version, e)
  <2>1. \A d \in Currents(fs) : d < manifest /\ d \in Nat /\ DescriptorFile(d) \in Files(fs)
    <3>. TAKE d \in Currents(fs)
    <3>1. d \in Nat /\ d <= Dir(fs).current /\ DescriptorFile(d) \in Files(fs)
      BY <1>0, CurrentFacts
    <3>. QED
      BY <1>1, <1>3, <3>1
  <2>2. manifest \notin Currents(fs) /\ \A d \in Currents(fs) : d <= manifest
    BY <1>1, <2>1
  <2>3. Currents(fs') \subseteq Currents(fs) \cup {manifest}
    BY <1>6 DEF Currents
  <2>4. \A d \in Currents(fs') \ {manifest} : EditsIn(fs', d) = EditsIn(fs, d)
    BY <1>7, <2>1, <2>3 DEF EditsIn
  <2>5. \A k \in DOMAIN two : \/ two[k] # TornEdit /\ two[k].numbers = FALSE /\ two[k].added \subseteq version
                              \/ two[k] = e /\ \A j \in DOMAIN two : j <= k
    BY <1>4, <1>5
  <2>6. \A n \in Nat : LogFile(n) \in Files(fs') =>
          LogFile(n) \in Files(fs) /\ ReadLog(fs', n) \subseteq ReadLog(fs, n)
    BY <1>6, <1>7 DEF ReadLog
  <2>7. \A n \in Nat : TableFile(n) \in Files(fs') =>
          TableFile(n) \in Files(fs) /\ ReadTable(fs', n) \subseteq ReadTable(fs, n)
    BY <1>6, <1>7 DEF ReadTable
  <2>. QED
    BY <1>1, <1>10, <2>2, <2>3, <2>4, <2>5, <2>6, <2>7 DEF Gains
<1>12. /\ DiskInv(fs')
       /\ Outputs(fs') /\ OutputsWritten(fs') /\ InUse(fs') /\ SeqsBelow(fs')
       /\ BatchesUnique(fs') /\ RecoveredRight(fs') /\ EditRight(fs')
       /\ \A t \in Named(fs') : t > 0 /\ t < nextFile
       /\ NextsUpTo(fs', nextFile)
       /\ phase \in {"opening", "up"} => LogsUpTo(fs', logNumber)
  BY <1>0, <1>1, <1>6, <1>8, <1>9, <1>11, GainStep DEF e
<1>13. Typed'
  BY <1>0, <1>2 DEF Typed, TypedMemory, TypedVersion, TypedWork, TypedHistory
<1>14. Steps'
  BY <1>0, <1>1, <1>2 DEF Steps, Quiet
<1>15. Numbers(fs)'
  <2>1. manifest <= manifest /\ manifest > 0
    BY <1>1, <1>3
  <2>. QED
    BY <1>0, <1>1, <1>2, <1>6, <1>12, <2>1 DEF Numbers, Found, Reading
<1>16. LogsGone(fs)'
  <2>1. Edits(fs') = two
    BY <1>4, <1>5, <1>6, <1>10, EditsComplete DEF Complete
  <2>2. LastEdit(fs') = e
    BY <1>5, <2>1 DEF LastEdit
  <2>. QED
    BY <1>0, <1>1, <1>4, <1>6, <2>2 DEF LogsGone
<1>17. InUse(fs)' /\ RecoveredRight(fs)' /\ Outputs(fs)' /\ OutputsWritten(fs)'
  BY <1>0, <1>12 DEF InUse, RecoveredRight, Outputs, OutputsWritten, Found, Reading
<1>18. SeqsBelow(fs)' /\ BatchesUnique(fs)'
  BY <1>0, <1>12 DEF SeqsBelow, BatchesUnique, Found, Writing, Shown
<1>19. EditRight(fs)'
  BY <1>0, <1>2, <1>12 DEF EditRight, e
<1>20. EditWritten(fs)'
  BY <1>0, <1>2, <1>3, <1>5, <1>6, <1>10 DEF EditWritten, FileExists, e, two
<1>. QED
  BY <1>12, <1>13, <1>14, <1>15, <1>16, <1>17, <1>18, <1>19, <1>20 DEF Inv, ProcessInv

\* The memtable becomes a table.
LEMMA WriteLevel0TableInv ==
    ASSUME Inv, WriteLevel0Table
    PROVE  Inv'
<1>. DEFINE e == Edit({flush.out}, {}, logNumber, nextFile, lastSequence)
            f == TableFile(flush.out)
            rest == pending \ {flush.out}
<1>0. /\ DiskInv(fs) /\ DiskTyped(fs) /\ DirsRight(fs) /\ Typed /\ Steps /\ ProcessInv(fs)
      /\ Numbers(fs) /\ Outputs(fs) /\ OutputsWritten(fs) /\ SeqsBelow(fs)
      /\ flush.step = "build" /\ flush \in FlushRecord /\ flush.out \in Nat
      /\ pending' = rest /\ imm \in Seq(Batch)
      /\ nextFile \in Nat /\ logNumber \in Nat /\ lastSequence \in Nat
      /\ UNCHANGED <<phase, mem, imm, hasImm, logNumber, version, nextFile, lastSequence, versionLog,
                     manifest, held, writer, comp, toRecover, recovered, written, safe, limbo>>
  BY DEF Inv, DiskInv, ProcessInv, WriteLevel0Table, memoryVars, recoveryVars, historyVars, Typed,
         TypedMemory, TypedVersion, TypedWork, FlushRecord
<1>1. /\ phase = "up" /\ hasImm /\ comp.step # "apply" /\ toRecover = {}
      /\ apply.step = "none" /\ apply.for = "none" /\ apply = NoApply
  <2>1. phase = "up"
    BY <1>0, NothingTyped DEF Steps, Quiet
  <2>. QED
    BY <1>0, <2>1, NothingTyped DEF Steps, Typed, TypedWork, ApplyRecord
<1>2. /\ flush.out \in pending /\ flush.out \notin Named(fs) /\ flush.out \notin version
      /\ flush.out \in 1 .. nextFile - 1
      /\ comp.step # "none" => comp.out # flush.out /\ comp.out \in rest
      /\ logNumber < nextFile /\ versionLog <= logNumber
  BY <1>0, <1>1 DEF Outputs, Numbers
<1>. HIDE DEF rest
<1>3. rest \subseteq pending /\ flush.out \notin rest
  BY DEF rest
<1>4. CASE /\ fs' = BuildTable(fs, flush.out, imm)
           /\ flush' = [flush EXCEPT !.step = "apply"]
           /\ apply' = [step |-> "append", edit |-> e, for |-> "flush"]
           /\ bgError' = bgError
  <2>1. Touches(fs, fs', f) /\ Records(fs', f) = imm
    BY <1>0, <1>4, BuildTableTouches
  <2>2. Harmless(fs, fs', f)
    <3>1. /\ \A c \in Currents(fs) : f # DescriptorFile(c)
          /\ \A n \in Nat : f # LogFile(n)
      BY <1>0, FilesDiffer, CurrentFacts
    <3>2. \A t \in Named(fs) \cup version : t \in Nat /\ t # flush.out
      BY <1>0, <1>2 DEF Named, Typed, TypedVersion
    <3>3. Found = {} /\ Adding = {}
      BY <1>1 DEF Found, Adding
    <3>. QED
      BY <1>0, <3>1, <3>2, <3>3, FilesDiffer DEF Harmless
  <2>3. /\ DiskInv(fs')
        /\ Numbers(fs') /\ LogsGone(fs') /\ Outputs(fs') /\ InUse(fs') /\ SeqsBelow(fs')
        /\ BatchesUnique(fs') /\ RecoveredRight(fs')
        /\ (comp.step # "none" => f # TableFile(comp.out)) => OutputsWritten(fs')
    BY <1>0, <1>1, <2>1, <2>2, HarmlessStep
  <2>4. OutputsWritten(fs')
    <3>1. comp.out \in Nat
      BY <1>0 DEF Typed, TypedWork, CompactionRecord
    <3>. QED
      BY <1>0, <1>2, <2>3, <3>1, FilesDiffer
  <2>5. flush'.step = "apply" /\ flush'.out = flush.out /\ flush' \in FlushRecord
    BY <1>0, <1>4 DEF FlushRecord
  <2>6. /\ e \in EditRecord /\ e.numbers /\ e.next = nextFile /\ e.log = logNumber
        /\ e.last = lastSequence /\ e.added = {flush.out} /\ e.deleted = {}
    BY <1>0 DEF Edit, EditRecord
  <2>. HIDE DEF e
  <2>7. apply'.step = "append" /\ apply'.edit = e /\ apply'.for = "flush" /\ apply' \in ApplyRecord
    BY <1>4, <2>6 DEF ApplyRecord
  <2>8. Typed'
    BY <1>0, <1>3, <1>4, <2>5, <2>7 DEF Typed, TypedMemory, TypedVersion, TypedWork, TypedHistory
  <2>9. Steps'
    BY <1>0, <1>1, <2>5, <2>7, NothingTyped DEF Steps, Quiet
  <2>10. Numbers(fs)' /\ LogsGone(fs)' /\ InUse(fs)' /\ RecoveredRight(fs)'
    BY <1>0, <1>1, <1>3, <2>3 DEF Numbers, LogsGone, InUse, RecoveredRight, Found, Reading
  <2>11. ReadTable(fs', flush.out) = Range1(imm)
    BY <2>1 DEF ReadTable
  <2>12. FileExists(fs', f)
    BY <2>1 DEF Touches, FileExists
  <2>13. Outputs(fs)'
    BY <1>0, <1>1, <1>2, <1>3, <2>3, <2>5, <2>12 DEF Outputs
  <2>14. OutputsWritten(fs)'
    BY <1>0, <2>4, <2>5, <2>11 DEF OutputsWritten
  <2>15. SeqsBelow(fs)' /\ BatchesUnique(fs)'
    BY <1>0, <2>3 DEF SeqsBelow, BatchesUnique, Found, Writing, Shown
  <2>16. EditAhead(fs', manifest, version, e)
    <3>1. DiskTyped(fs') /\ DirsRight(fs')
      BY <2>3 DEF DiskInv
    <3>2. nextFile <= e.next /\ e.log < e.next /\ e.log <= logNumber
      BY <1>0, <1>2, <2>6
    <3>3. \A t \in e.added : t \in 1 .. e.next - 1 /\ \A b \in ReadTable(fs', t) : b.seq <= lastSequence
      BY <1>0, <1>1, <1>2, <2>6, <2>11 DEF SeqsBelow
    <3>. QED
      BY <1>0, <1>1, <2>3, <2>6, <3>1, <3>2, <3>3, AheadNow
  <2>17. EditRight(fs)'
    <3>1. EditAhead(fs', manifest', version', e)
      BY <1>0, <2>16
    <3>2. e.next <= nextFile /\ e.log <= logNumber /\ versionLog <= e.log
      BY <1>0, <1>2, <2>6
    <3>. QED
      BY <1>0, <2>5, <2>6, <2>7, <3>1, <3>2 DEF EditRight
  <2>18. EditWritten(fs)'
    BY <2>7 DEF EditWritten
  <2>. QED
    BY <2>3, <2>8, <2>9, <2>10, <2>13, <2>14, <2>15, <2>17, <2>18 DEF Inv, ProcessInv
<1>5. CASE flush' = NoFlush /\ bgError' = TRUE /\ UNCHANGED <<fs, apply>>
  <2>1. Typed'
    BY <1>0, <1>3, <1>5, NothingTyped DEF Typed, TypedMemory, TypedVersion, TypedWork, TypedHistory
  <2>2. Steps'
    BY <1>0, <1>1, <1>5, NothingTyped DEF Steps, Quiet
  <2>3. Numbers(fs)' /\ LogsGone(fs)' /\ InUse(fs)' /\ RecoveredRight(fs)'
    BY <1>0, <1>1, <1>3, <1>5 DEF ProcessInv, Numbers, LogsGone, InUse, RecoveredRight, Found, Reading
  <2>4. comp.step # "none" => comp.out # flush'.out
    <3>1. comp.step # "none" => comp.out > 0
      BY <1>0, <1>1, <1>2, <1>3 DEF Numbers
    <3>. QED
      BY <1>5, <3>1 DEF NoFlush
  <2>5. Outputs(fs)' /\ OutputsWritten(fs)'
    BY <1>0, <1>2, <1>3, <1>5, <2>4, NothingTyped DEF Outputs, OutputsWritten
  <2>6. SeqsBelow(fs)' /\ BatchesUnique(fs)'
    BY <1>0, <1>5 DEF ProcessInv, SeqsBelow, BatchesUnique, Found, Writing, Shown
  <2>7. EditRight(fs)' /\ EditWritten(fs)'
    BY <1>0, <1>1, <1>5 DEF ProcessInv, EditRight, EditWritten
  <2>. QED
    BY <1>0, <1>5, <2>1, <2>2, <2>3, <2>5, <2>6, <2>7 DEF Inv, ProcessInv
<1>. QED
  BY <1>4, <1>5 DEF WriteLevel0Table, BeginApply, FlushedLog

\* A compaction opens its output.
LEMMA CompactionBeginInv ==
    ASSUME Inv, NEW inputs \in SUBSET version, CompactionBegin(inputs)
    PROVE  Inv'
<1>. DEFINE n == nextFile + 1
            f == TableFile(nextFile)
<1>0. /\ DiskInv(fs) /\ DiskTyped(fs) /\ DirsRight(fs) /\ Typed /\ Steps /\ ProcessInv(fs)
      /\ Numbers(fs) /\ Outputs(fs) /\ OutputsWritten(fs)
      /\ phase = "up" /\ comp = NoCompaction /\ flush = NoFlush /\ ~hasImm
      /\ inputs \subseteq version /\ Cardinality(inputs) = 2
      /\ comp' = [step |-> "running", inputs |-> inputs, base |-> version, out |-> nextFile]
      /\ nextFile' = n /\ pending' = pending \cup {nextFile}
      /\ fs' = NewWritableFile(fs, f)
      /\ nextFile \in Nat /\ nextFile > 0 /\ version \subseteq Nat
      /\ UNCHANGED <<phase, mem, imm, hasImm, logNumber, version, lastSequence, versionLog, manifest,
                     bgError, held, writer, flush, apply, toRecover, recovered, written, safe, limbo>>
  BY DEF Inv, DiskInv, ProcessInv, CompactionBegin, AfterNewFileNumber, memoryVars, recoveryVars,
         historyVars, Typed, TypedVersion
<1>1. /\ apply.step = "none" /\ apply.for = "none" /\ toRecover = {}
      /\ n \in Nat /\ nextFile <= n /\ nextFile \in 1 .. n - 1
  <2>1. apply.step = "none" /\ apply.for = "none" /\ toRecover = {}
    BY <1>0, NothingTyped DEF Steps, Typed, TypedWork, ApplyRecord
  <2>. QED
    BY <1>0, <2>1
<1>2. nextFile \notin pending /\ nextFile \notin version /\ nextFile \notin Named(fs)
  <2>1. /\ \A t \in Named(fs) : t > 0 /\ t < nextFile
        /\ version \cup pending \subseteq 1 .. nextFile - 1
    BY <1>0 DEF Numbers
  <2>. QED
    BY <1>0, <2>1
<1>3. Touches(fs, fs', f) /\ Records(fs', f) = <<>>
  BY <1>0, NewFileTouches, FileTypes
<1>4. Harmless(fs, fs', f)
  <2>1. /\ \A c \in Currents(fs) : f # DescriptorFile(c)
        /\ \A k \in Nat : f # LogFile(k)
    BY <1>0, FilesDiffer, CurrentFacts
  <2>2. \A t \in Named(fs) \cup version : t \in Nat /\ t # nextFile
    BY <1>0, <1>2 DEF Named
  <2>3. Found = {} /\ Adding = {}
    BY <1>0, <1>1 DEF Found, Adding
  <2>. QED
    BY <1>0, <2>1, <2>2, <2>3, FilesDiffer DEF Harmless
<1>5. /\ DiskInv(fs')
      /\ Numbers(fs') /\ LogsGone(fs') /\ Outputs(fs') /\ InUse(fs') /\ SeqsBelow(fs')
      /\ BatchesUnique(fs') /\ RecoveredRight(fs')
  BY <1>0, <1>3, <1>4, HarmlessStep
<1>6. /\ manifest < n
      /\ \A t \in Named(fs') : t > 0 /\ t < n
      /\ NextsUpTo(fs', n)
      /\ logNumber < n
      /\ \A m \in Nat : LogFile(m) \in Files(fs') => m < n \/ m \in toRecover
      /\ version \cup Found \cup pending \cup comp.base \cup Reading \subseteq 1 .. n - 1
      /\ \A k \in 1 .. nextFile - 1 : k \in 1 .. n - 1 /\ k # nextFile
  <2>1. DiskTyped(fs') /\ DirsRight(fs')
    BY <1>5 DEF DiskInv
  <2>. HIDE DEF n
  <2>. QED
    BY <1>0, <1>1, <1>5, <2>1, NumbersLater
<1>. HIDE DEF n
<1>7. Typed'
  BY <1>0, <1>1, SMTT(30) DEF Typed, TypedMemory, TypedVersion, TypedWork, TypedHistory, CompactionRecord
<1>8. Steps'
  BY <1>0, <1>1, NothingTyped DEF Steps, Quiet
<1>9. Numbers(fs)'
  BY <1>0, <1>1, <1>5, <1>6 DEF Numbers, Found, Reading
<1>10. LogsGone(fs)' /\ RecoveredRight(fs)'
  BY <1>0, <1>5 DEF LogsGone, RecoveredRight, Found
<1>11. InUse(fs)'
  BY <1>0, <1>5 DEF InUse, Found, Reading
<1>12. Outputs(fs)'
  <2>1. flush.out = 0 /\ flush.step = "none"
    BY <1>0 DEF NoFlush
  <2>2. nextFile \notin Named(fs')
    <3>1. \A t \in Named(fs') : t < nextFile
      BY <1>5, <1>0 DEF Numbers
    <3>. QED
      BY <1>0, <3>1
  <2>3. FileExists(fs', f)
    BY <1>3 DEF Touches, FileExists
  <2>. QED
    BY <1>0, <1>2, <1>5, <2>1, <2>2, <2>3 DEF Outputs
<1>13. OutputsWritten(fs)'
  BY <1>0, <1>3, NothingTyped DEF OutputsWritten
<1>14. SeqsBelow(fs)' /\ BatchesUnique(fs)'
  BY <1>0, <1>5 DEF SeqsBelow, BatchesUnique, Found, Writing, Shown
<1>15. EditRight(fs)' /\ EditWritten(fs)'
  BY <1>0, <1>1 DEF EditRight, EditWritten
<1>. QED
  BY <1>5, <1>7, <1>8, <1>9, <1>10, <1>11, <1>12, <1>13, <1>14, <1>15 DEF Inv, ProcessInv

\* A compaction's output is written and synced, or the compaction ends.
\* What a compaction writes.
LEMMA CompactionBatches ==
    ASSUME Inv, comp.step = "running"
    PROVE  LET all == UNION {ReadTable(fs, t) : t \in comp.inputs}
           IN  SetToSeq(all) \in Seq(Batch) /\ Range1(SetToSeq(all)) = all
<1>. DEFINE all == UNION {ReadTable(fs, t) : t \in comp.inputs}
            s == SetToSeq(all)
<1>0. /\ DiskTyped(fs) /\ Outputs(fs) /\ InUse(fs) /\ comp.inputs \subseteq version /\ version \subseteq Nat
  BY DEF Inv, DiskInv, ProcessInv, Outputs, Typed, TypedVersion
<1>1. phase = "up"
  BY NothingTyped DEF Inv, Steps, Quiet
<1>2. IsFiniteSet(all) /\ all \subseteq Batch
  <2>1. \A t \in comp.inputs : TableFile(t) \in Files(fs) /\ t \in Nat
    BY <1>0, <1>1, DirParts DEF InUse, FileExists, DiskTyped, DirsTyped
  <2>2. \A t \in comp.inputs : IsFiniteSet(ReadTable(fs, t)) /\ ReadTable(fs, t) \subseteq Batch
    BY <1>0, <2>1, ReadTypes
  <2>3. IsFiniteSet(comp.inputs)
    <3>1. PICK d \in Dirs(fs) : d = Dir(fs) /\ IsFiniteSet(d.names)
      BY <1>0, DirParts DEF DiskTyped, DirsTyped
    <3>. DEFINE g == [x \in comp.inputs |-> TableFile(x)]
    <3>2. g \in Injection(comp.inputs, Dir(fs).names)
      <4>1. \A x \in comp.inputs : TableFile(x) \in Dir(fs).names
        BY <1>0, <1>1 DEF InUse, FileExists
      <4>2. \A x, y \in comp.inputs : TableFile(x) = TableFile(y) => x = y
        BY <2>1, FilesDiffer
      <4>. QED
        BY <4>1, <4>2 DEF Injection, IsInjective
    <3>. QED
      BY <3>1, <3>2, FS_Injection
  <2>. DEFINE F == {ReadTable(fs, t) : t \in comp.inputs}
  <2>4. IsFiniteSet(F)
    <3>. DEFINE h == [t \in comp.inputs |-> ReadTable(fs, t)]
    <3>1. h \in Surjection(comp.inputs, F)
      BY DEF Surjection
    <3>. QED
      BY <2>3, <3>1, FS_Surjection
  <2>5. \A S \in F : IsFiniteSet(S) /\ S \subseteq Batch
    BY <2>2
  <2>6. all = UNION F
    OBVIOUS
  <2>. HIDE DEF F, all
  <2>. QED
    BY <2>4, <2>5, <2>6, FS_UNION
<1>. HIDE DEF all
<1>3. s \in Seq(Batch) /\ Range1(s) = all
  <2>1. s \in Seq(all) /\ Range1(s) = all
    BY <1>2, SetToSeqProperties
  <2>. HIDE DEF s
  <2>. QED
    BY <1>2, <2>1
<1>. QED
  BY <1>3 DEF all

LEMMA CompactionFinishInv ==
    ASSUME Inv, CompactionFinish
    PROVE  Inv'
<1>. DEFINE f == TableFile(comp.out)
            all == UNION {ReadTable(fs, t) : t \in comp.inputs}
            s == SetToSeq(all)
<1>0. /\ DiskInv(fs) /\ DiskTyped(fs) /\ DirsRight(fs) /\ Typed /\ Steps /\ ProcessInv(fs)
      /\ Numbers(fs) /\ Outputs(fs) /\ OutputsWritten(fs) /\ InUse(fs)
      /\ comp.step = "running" /\ flush = NoFlush
      /\ comp \in CompactionRecord /\ comp.out \in Nat /\ comp.inputs \subseteq version
      /\ version \subseteq Nat
      /\ UNCHANGED <<phase, mem, imm, hasImm, logNumber, version, nextFile, lastSequence, versionLog,
                     manifest, held, writer, flush, toRecover, recovered, written, safe, limbo>>
  BY DEF Inv, DiskInv, ProcessInv, CompactionFinish, memoryVars, recoveryVars, historyVars, Typed,
         TypedVersion, TypedWork, CompactionRecord, Outputs
<1>1. phase = "up" /\ apply.step = "none" /\ apply.for = "none" /\ toRecover = {}
  <2>1. phase = "up"
    BY <1>0, NothingTyped DEF Steps, Quiet
  <2>. QED
    BY <1>0, <2>1, NothingTyped DEF Steps, Typed, TypedWork, ApplyRecord
<1>2. /\ comp.out \in pending /\ comp.out \notin Named(fs) /\ comp.out \notin version
      /\ f \in Dir(fs).names /\ Records(fs, f) = <<>> /\ Cardinality(comp.inputs) = 2
  BY <1>0 DEF Outputs, OutputsWritten, FileExists
<1>3. s \in Seq(Batch) /\ Range1(s) = all
  BY <1>0, CompactionBatches
<1>. HIDE DEF all, s
<1>5. CASE /\ fs' = Sync(AddRecords(fs, f, s), f)
           /\ comp' = [comp EXCEPT !.step = "written"]
           /\ UNCHANGED <<pending, bgError, apply>>
  <2>. DEFINE D1 == AddRecords(fs, f, s)
  <2>1. Touches(fs, D1, f) /\ Records(D1, f) = <<>> \o s
    <3>1. Item(f) = Batch
      BY <1>0, FileTypes DEF Item
    <3>. HIDE DEF f
    <3>. QED
      BY <1>0, <1>2, <1>3, <3>1, AddRecordsTouches
  <2>2. fs' = Sync(D1, f)
    BY <1>5
  <2>. HIDE DEF D1
  <2>3. Touches(fs, fs', f) /\ Records(fs', f) = s
    <3>1. DiskTyped(D1) /\ f \in Dir(D1).names
      BY <2>1 DEF Touches
    <3>2. Touches(D1, fs', f) /\ Records(fs', f) = Records(D1, f)
      BY <2>2, <3>1, SyncTouches
    <3>3. <<>> \o s = s
      BY <1>3, ConcatEmptySeq
    <3>. QED
      BY <2>1, <3>2, <3>3, TouchTwice
  <2>4. Harmless(fs, fs', f)
    <3>1. /\ \A c \in Currents(fs) : f # DescriptorFile(c)
          /\ \A k \in Nat : f # LogFile(k)
      BY <1>0, FilesDiffer, CurrentFacts
    <3>2. \A t \in Named(fs) \cup version : t \in Nat /\ t # comp.out
      BY <1>0, <1>2 DEF Named
    <3>3. Found = {} /\ Adding = {}
      BY <1>1 DEF Found, Adding
    <3>. QED
      BY <1>0, <3>1, <3>2, <3>3, FilesDiffer DEF Harmless
  <2>5. /\ DiskInv(fs')
        /\ Numbers(fs') /\ LogsGone(fs') /\ Outputs(fs') /\ InUse(fs') /\ SeqsBelow(fs')
        /\ BatchesUnique(fs') /\ RecoveredRight(fs')
    BY <1>0, <1>1, <2>3, <2>4, HarmlessStep
  <2>6. /\ comp'.step = "written" /\ comp'.inputs = comp.inputs /\ comp'.base = comp.base
        /\ comp'.out = comp.out /\ comp' \in CompactionRecord
    BY <1>0, <1>5 DEF CompactionRecord
  <2>7. Typed'
    BY <1>0, <1>5, <2>6 DEF Typed, TypedMemory, TypedVersion, TypedWork, TypedHistory
  <2>8. Steps'
    BY <1>0, <1>1, <1>5, <2>6, NothingTyped DEF Steps, Quiet
  <2>9. Numbers(fs)' /\ LogsGone(fs)' /\ InUse(fs)' /\ RecoveredRight(fs)'
    BY <1>0, <1>1, <1>5, <2>5, <2>6 DEF Numbers, LogsGone, InUse, RecoveredRight, Found, Reading
  <2>10. Outputs(fs)'
    BY <1>0, <1>5, <2>5, <2>6 DEF Outputs
  <2>11. ReadTable(fs', comp.out) = UNION {ReadTable(fs', t) : t \in comp.inputs}
    <3>1. \A t \in comp.inputs : ReadTable(fs', t) = ReadTable(fs, t)
      <4>. TAKE t \in comp.inputs
      <4>1. t \in Nat /\ TableFile(t) # f /\ TableFile(t) \in Dir(fs').names
        BY <1>0, <1>1, <1>2, <2>5, FilesDiffer DEF InUse, FileExists
      <4>2. TableFile(t) \in Files(fs')
        BY <2>5, <4>1, DirParts DEF DiskInv, DiskTyped, DirsTyped
      <4>. QED
        BY <2>3, <4>1, <4>2 DEF Touches, ReadTable, Records
    <3>2. {ReadTable(fs', t) : t \in comp.inputs} = {ReadTable(fs, t) : t \in comp.inputs}
      BY <3>1
    <3>3. UNION {ReadTable(fs', t) : t \in comp.inputs} = all
      BY <3>2 DEF all
    <3>4. ReadTable(fs', comp.out) = all
      BY <1>3, <2>3 DEF ReadTable
    <3>. QED
      BY <3>3, <3>4
  <2>12. OutputsWritten(fs)'
    BY <1>0, <2>6, <2>11, NothingTyped DEF OutputsWritten
  <2>13. SeqsBelow(fs)' /\ BatchesUnique(fs)'
    BY <1>0, <2>5 DEF SeqsBelow, BatchesUnique, Found, Writing, Shown
  <2>14. EditRight(fs)' /\ EditWritten(fs)'
    BY <1>1, <1>5 DEF EditRight, EditWritten
  <2>. QED
    BY <2>5, <2>7, <2>8, <2>9, <2>10, <2>12, <2>13, <2>14 DEF Inv, ProcessInv
<1>6. CASE comp' = NoCompaction /\ pending' = pending \ {comp.out} /\ bgError' = TRUE /\ UNCHANGED <<fs, apply>>
  <2>1. Typed'
    BY <1>0, <1>6, NothingTyped DEF Typed, TypedMemory, TypedVersion, TypedWork, TypedHistory
  <2>2. Steps'
    BY <1>0, <1>1, <1>6, NothingTyped DEF Steps, Quiet
  <2>3. Numbers(fs)' /\ LogsGone(fs)' /\ InUse(fs)' /\ RecoveredRight(fs)'
    BY <1>0, <1>1, <1>6, NothingTyped
    DEF ProcessInv, Numbers, LogsGone, InUse, RecoveredRight, Found, Reading
  <2>4. Outputs(fs)' /\ OutputsWritten(fs)'
    BY <1>0, <1>6, NothingTyped DEF Outputs, OutputsWritten
  <2>5. SeqsBelow(fs)' /\ BatchesUnique(fs)'
    <3>1. Found' = Found /\ Writing' = Writing /\ Shown(fs)' = Shown(fs)
      BY <1>0, <1>6 DEF Found, Writing, Shown
    <3>2. SeqsBelow(fs)'
      BY <1>0, <1>6, <3>1 DEF ProcessInv, SeqsBelow
    <3>3. BatchesUnique(fs)'
      BY <1>0, <1>6, <3>1 DEF ProcessInv, BatchesUnique
    <3>. QED
      BY <3>2, <3>3
  <2>6. EditRight(fs)' /\ EditWritten(fs)'
    BY <1>1, <1>6 DEF ProcessInv, EditRight, EditWritten
  <2>. QED
    BY <1>0, <1>6, <2>1, <2>2, <2>3, <2>4, <2>5, <2>6 DEF Inv, ProcessInv
<1>. QED
  BY <1>5, <1>6 DEF CompactionFinish, CompactionAborts, s, all

-----------------------------------------------------------------------------
(* Steps that write the log in use, or start one.                          *)

\* Every batch has an earlier number than a new one.
LEMMA AllBelow ==
    ASSUME NEW D, DiskInv(D), Typed, ProcessInv(D), phase # "down", toRecover = {}, Writing = {}
    PROVE  \A b \in Logged(D) \cup Tabled(D) \cup Shown(D) :
              b.seq \in Nat /\ b.seq <= lastSequence
<1>0. /\ DiskTyped(D) /\ SeqsBelow(D) /\ InUse(D) /\ Dir(D).names \subseteq Files(D)
      /\ mem \in Seq(Batch) /\ imm \in Seq(Batch) /\ version \subseteq Nat
  BY DirParts DEF DiskInv, ProcessInv, DiskTyped, DirsTyped, Typed, TypedMemory, TypedVersion
<1>1. \A b \in Batch : b.seq \in Nat
  BY DEF Batch
<1>2. \A b \in Logged(D) : b \in Batch /\ b.seq <= lastSequence
  BY <1>0, ReadTypes DEF Logged, SeqsBelow
<1>3. \A b \in Tabled(D) : b \in Batch /\ b.seq <= lastSequence
  BY <1>0, ReadTypes DEF Tabled, Named, SeqsBelow
<1>4. \A b \in Shown(D) : b \in Batch /\ b.seq <= lastSequence
  <2>1. Range1(mem) \subseteq Batch /\ Range1(imm) \subseteq Batch
    BY <1>0, RangeFinite
  <2>2. \A t \in version : t \in Nat /\ TableFile(t) \in Files(D)
    BY <1>0 DEF InUse, FileExists
  <2>3. \A t \in version : ReadTable(D, t) \subseteq Batch
    BY <1>0, <2>2, ReadTypes
  <2>. QED
    BY <1>0, <2>1, <2>2, <2>3 DEF Shown, SeqsBelow
<1>. QED
  BY <1>1, <1>2, <1>3, <1>4

\* Log l gains the batches of B, at most one, with the next sequence number.
LogAdds(D, E, l, B) ==
    /\ B \subseteq Batch /\ \A b, c \in B : b = c
    /\ \A b \in B : b.seq = lastSequence + 1
    /\ Touches(D, E, LogFile(l))
    /\ \A b \in ReadLog(E, l) : b \in B \/ (LogFile(l) \in Files(D) /\ b \in ReadLog(D, l))
    /\ LogFile(l) \in Files(D) => ReadLog(D, l) \subseteq ReadLog(E, l)

LEMMA LogStep ==
    ASSUME NEW D, NEW E, DiskInv(D), Typed, Steps, ProcessInv(D), phase # "down", toRecover = {},
           Writing = {}, NEW l \in Nat, l = nextFile \/ (l = logNumber /\ phase = "up"),
           NEW B, B # {} => phase = "up", LogAdds(D, E, l, B)
    PROVE  /\ DiskInv(E)
           /\ Dir(E).current = Dir(D).current /\ FileExists(E, LogFile(l))
           /\ \A t \in Named(E) : t > 0 /\ t < nextFile
           /\ NextsUpTo(E, nextFile)
           /\ phase = "up" => LogsUpTo(E, logNumber)
           /\ \A n : LogsUpTo(D, n) => LogsUpTo(E, n)
           /\ \A m \in Nat : LogFile(m) \in Files(E) => m < nextFile \/ m = l
           /\ LogsGone(E) /\ Outputs(E) /\ OutputsWritten(E) /\ InUse(E)
           /\ \A t \in version \cup Found \cup Named(E) : TableFile(t) \in Files(E) =>
                 \A b \in ReadTable(E, t) : b.seq <= lastSequence
           /\ \A m \in Nat : LogFile(m) \in Files(E) =>
                 \A b \in ReadLog(E, m) : b.seq <= lastSequence \/ (m = l /\ b \in B)
           /\ Unique(Logged(E) \cup Tabled(E) \cup Shown(E) \cup B)
           /\ RecoveredRight(E) /\ EditRight(E) /\ EditWritten(E)
           /\ \A t \in Nat : TableFile(t) \in Files(E) =>
                 TableFile(t) \in Files(D) /\ ReadTable(E, t) = ReadTable(D, t)
<1>. DEFINE f == LogFile(l)
<1>. USE DEF LogAdds
<1>0. /\ DiskTyped(D) /\ DirsRight(D) /\ EditsRight(D) /\ PairsRight(D) /\ DiskTyped(E)
      /\ Numbers(D) /\ LogsGone(D) /\ Outputs(D) /\ OutputsWritten(D) /\ InUse(D) /\ SeqsBelow(D)
      /\ RecoveredRight(D) /\ EditRight(D) /\ EditWritten(D) /\ BatchesUnique(D)
      /\ Dir(D).names \subseteq Files(D)
      /\ nextFile \in Nat /\ logNumber \in Nat /\ lastSequence \in Nat /\ version \subseteq Nat
      /\ manifest \in Nat
  BY DirParts DEF DiskInv, ProcessInv, Touches, DiskTyped, DirsTyped, Typed, TypedMemory, TypedVersion
<1>1. Dir(D).current > 0 /\ Dir(E).current = Dir(D).current
  BY <1>0 DEF Numbers, Touches
<1>2. f \in File /\ \A t \in Nat : f # TableFile(t) /\ f # DescriptorFile(t)
  BY FileTypes, FilesDiffer
<1>3. f \in Files(D) => l = logNumber
  <2>1. LogFile(nextFile) \notin Files(D)
    BY <1>0 DEF Numbers
  <2>. QED
    BY <2>1
<1>4. phase = "up" => logNumber <= l /\ LogsUpTo(D, logNumber)
  BY <1>0 DEF Numbers
<1>5. B = {} \/ LogsUpTo(D, l)
  <2>. SUFFICES ASSUME phase = "up" PROVE LogsUpTo(D, l)
    OBVIOUS
  <2>. SUFFICES ASSUME NEW c \in Currents(D), NEW k \in DOMAIN EditsIn(D, c), Numbered(EditsIn(D, c)[k])
                PROVE  EditsIn(D, c)[k].log <= l
    BY DEF LogsUpTo
  <2>1. EditsIn(D, c)[k] \in EditRecord
    BY <1>0, CurrentFacts DEF Numbered
  <2>2. EditsIn(D, c)[k].log \in Nat
    BY <2>1 DEF EditRecord
  <2>3. EditsIn(D, c)[k].log <= logNumber
    BY <1>4 DEF LogsUpTo
  <2>. QED
    BY <1>0, <1>4, <2>2, <2>3
<1>6. Within(D, E, l, B) /\ \A c \in Currents(E) : EditsIn(E, c) = EditsIn(D, c)
  <2>1. \A c \in Currents(D) : f = DescriptorFile(c) => Records(E, f) = Records(D, f)
    BY <1>0, <1>2, CurrentFacts
  <2>2. \A n \in Nat : f = LogFile(n) => \A b \in ReadLog(E, n) :
                 (f \in Files(D) /\ b \in ReadLog(D, n)) \/ (n = l /\ b \in B)
    BY FilesDiffer
  <2>3. \A t \in Named(D) : f = TableFile(t) => f \in Files(D) /\ Records(E, f) = Records(D, f)
    BY <1>2 DEF Named
  <2>. HIDE DEF f
  <2>. QED
    BY <1>0, <1>1, <2>1, <2>2, <2>3, TouchWithin DEF f
<1>7. DirsRight(E) /\ FirstDir(E) /\ Dir(E).current \in Currents(E)
  BY <1>0, <1>1, TouchDirs
<1>8. /\ EditsRight(E) /\ PairsRight(E)
      /\ Named(E) \subseteq Named(D)
      /\ Logged(E) \subseteq Logged(D) \cup B
      /\ Tabled(E) \subseteq Tabled(D)
      /\ \A n : NextsUpTo(D, n) => NextsUpTo(E, n)
      /\ \A n : LogsUpTo(D, n) => LogsUpTo(E, n)
      /\ \A n, s : LogsBelow(D, n, s) /\ (B = {} \/ (n \in Nat /\ n <= l)) => LogsBelow(E, n, s)
      /\ \A t \in Named(D) : \A n, s : TableBelow(D, t, n, s) => TableBelow(E, t, n, s)
  BY <1>0, <1>5, <1>6, <1>7, WithinKeeps
<1>9. DiskInv(E)
  BY <1>0, <1>7, <1>8 DEF DiskInv
<1>10. /\ \A g \in Files(E) : g # f => g \in Files(D) /\ E.files[g] = D.files[g] /\ Records(E, g) = Records(D, g)
       /\ \A g : FileExists(D, g) => FileExists(E, g)
       /\ FileExists(E, f)
       /\ \A g : FileExists(E, g) => g \in Files(E)
  BY <1>0, DirParts DEF Touches, Records, FileExists, DiskTyped, DirsTyped
<1>11. \A t \in Nat : TableFile(t) \in Files(E) =>
          TableFile(t) \in Files(D) /\ ReadTable(E, t) = ReadTable(D, t)
  BY <1>2, <1>10 DEF ReadTable
<1>12. \A m \in Nat : LogFile(m) \in Files(E) /\ m # l =>
          LogFile(m) \in Files(D) /\ ReadLog(E, m) = ReadLog(D, m)
  BY <1>10, FilesDiffer DEF ReadLog
<1>13. Edits(E) = Edits(D)
  BY <1>1, <1>6, <1>7, EditsFacts
<1>14. LogsGone(E)
  <2>1. \A m \in Nat : LogFile(m) \in Files(E) \ Dir(E).names => LogFile(m) \in Files(D) \ Dir(D).names
    BY <1>10 DEF FileExists
  <2>. QED
    BY <1>0, <1>13, <2>1 DEF LogsGone, LastEdit
<1>15. Outputs(E) /\ InUse(E)
  BY <1>0, <1>8, <1>10 DEF Outputs, InUse
<1>16. \A t \in version \cup Found \cup comp.base \cup Reading :
          t \in Nat /\ TableFile(t) \in Files(E) /\ ReadTable(E, t) = ReadTable(D, t)
  <2>1. \A t \in version \cup Found \cup comp.base \cup Reading : t \in Nat /\ FileExists(E, TableFile(t))
    BY <1>15 DEF InUse, Typed, TypedVersion, TypedWork, CompactionRecord, Found, Reading
  <2>. QED
    BY <1>10, <1>11, <2>1
<1>17. OutputsWritten(E)
  <2>1. \A t \in Nat : FileExists(D, TableFile(t)) =>
          /\ Records(E, TableFile(t)) = Records(D, TableFile(t))
          /\ ReadTable(E, t) = ReadTable(D, t)
    BY <1>2, <1>10 DEF ReadTable
  <2>2. comp.out \in Nat /\ flush.out \in Nat
    BY DEF Typed, TypedWork, CompactionRecord, FlushRecord
  <2>3. ASSUME comp.step # "none"
        PROVE  UNION {ReadTable(E, t) : t \in comp.inputs} = UNION {ReadTable(D, t) : t \in comp.inputs}
    <3>1. \A t \in comp.inputs : ReadTable(E, t) = ReadTable(D, t)
      BY <1>0, <1>16, <2>3 DEF Outputs
    <3>2. {ReadTable(E, t) : t \in comp.inputs} = {ReadTable(D, t) : t \in comp.inputs}
      BY <3>1
    <3>. QED
      BY <3>2
  <2>. QED
    BY <1>0, <2>1, <2>2, <2>3 DEF OutputsWritten, Outputs
<1>18. \A t \in version \cup Found \cup Named(E) : TableFile(t) \in Files(E) =>
           \A b \in ReadTable(E, t) : b.seq <= lastSequence
  <2>1. \A t \in version \cup Found \cup Named(E) : t \in Nat /\ t \in version \cup Found \cup Named(D)
    BY <1>8, <1>16 DEF Named
  <2>. QED
    BY <1>0, <1>11, <2>1 DEF SeqsBelow
<1>19. \A m \in Nat : LogFile(m) \in Files(E) =>
           \A b \in ReadLog(E, m) : b.seq <= lastSequence \/ (m = l /\ b \in B)
  <2>. SUFFICES ASSUME NEW m \in Nat, LogFile(m) \in Files(E), NEW b \in ReadLog(E, m), ~(m = l /\ b \in B)
                PROVE  b.seq <= lastSequence
    OBVIOUS
  <2>1. LogFile(m) \in Files(D) /\ b \in ReadLog(D, m)
    BY <1>12
  <2>. QED
    BY <1>0, <2>1 DEF SeqsBelow
<1>20. \A m \in Nat : LogFile(m) \in Files(E) => m < nextFile \/ m = l
  BY <1>0, <1>12 DEF Numbers
<1>21. Unique(Logged(E) \cup Tabled(E) \cup Shown(E) \cup B)
  <2>. DEFINE Old == Logged(D) \cup Tabled(D) \cup Shown(D)
  <2>1. Shown(E) = Shown(D)
    <3>1. {ReadTable(E, t) : t \in version} = {ReadTable(D, t) : t \in version}
      BY <1>16
    <3>. QED
      BY <3>1 DEF Shown
  <2>2. Logged(E) \cup Tabled(E) \cup Shown(E) \cup B \subseteq Old \cup B
    BY <1>8, <2>1
  <2>3. Unique(Old)
    BY <1>0 DEF BatchesUnique
  <2>4. \A b \in Old : b.seq \in Nat /\ b.seq <= lastSequence
    BY AllBelow
  <2>. HIDE DEF Old
  <2>5. \A b \in Old : b.seq # lastSequence + 1
    BY <1>0, <2>4
  <2>. QED
    BY <2>2, <2>3, <2>5 DEF Unique
<1>22. RecoveredRight(E)
  <2>1. LoggedNow(D) \subseteq LoggedNow(E)
    <3>1. \A m \in Nat : FileExists(D, LogFile(m)) =>
             FileExists(E, LogFile(m)) /\ ReadLog(D, m) \subseteq ReadLog(E, m)
      <4>. TAKE m \in Nat
      <4>. HAVE FileExists(D, LogFile(m))
      <4>1. FileExists(E, LogFile(m)) /\ LogFile(m) \in Files(D) /\ LogFile(m) \in Files(E)
        BY <1>0, <1>10 DEF FileExists
      <4>2. CASE m = l
        BY <4>1, <4>2
      <4>3. CASE m # l
        BY <1>12, <4>1, <4>3
      <4>. QED
        BY <4>2, <4>3
    <3>. QED
      BY <3>1 DEF LoggedNow
  <2>. QED
    BY <1>0, <1>10, <1>16, <2>1 DEF RecoveredRight
<1>23. EditRight(E)
  <2>. SUFFICES ASSUME apply.step # "none" PROVE EditAhead(E, manifest, version, apply.edit)
    BY <1>0 DEF EditRight
  <2>. DEFINE e == apply.edit
  <2>1. EditAhead(D, manifest, version, e) /\ e.log <= logNumber /\ e.log \in Nat
    BY <1>0 DEF EditRight, EditAhead, EditRecord
  <2>. HIDE DEF e
  <2>2. LogsBelow(E, e.log, e.last)
    <3>1. B = {} \/ (e.log \in Nat /\ e.log <= l)
      BY <1>0, <1>4, <2>1
    <3>. QED
      BY <1>8, <2>1, <3>1 DEF EditAhead
  <2>3. \A t \in Named(E) \cup version \cup e.added : TableBelow(E, t, e.next, e.last)
    <3>1. \A t \in Named(E) \cup version \cup e.added : t \in Nat /\ TableBelow(D, t, e.next, e.last)
      BY <1>0, <1>8, <2>1 DEF EditAhead, Named, EditRecord
    <3>. QED
      BY <1>11, <3>1 DEF TableBelow
  <2>. QED
    BY <1>8, <2>1, <2>2, <2>3 DEF EditAhead, e
<1>24. EditWritten(E)
  <2>1. DescriptorFile(manifest) \in Dir(D).names => EditsIn(E, manifest) = EditsIn(D, manifest)
    <3>. HAVE DescriptorFile(manifest) \in Dir(D).names
    <3>1. DescriptorFile(manifest) \in Files(E)
      BY <1>10 DEF FileExists
    <3>. QED
      BY <1>0, <1>2, <1>10, <3>1 DEF EditsIn
  <2>2. apply.step \in {"sync", "current", "install"} => DescriptorFile(manifest) \in Dir(D).names
    <3>1. CASE apply.step \in {"sync", "current", "install"} /\ apply.for = "open"
      BY <1>0, <3>1 DEF EditWritten, FileExists
    <3>2. CASE apply.step \in {"sync", "current", "install"} /\ apply.for # "open"
      <4>1. phase = "up"
        BY <3>2, NothingTyped DEF Steps, Typed, TypedMemory
      <4>2. Dir(D).current = manifest /\ Dir(D) \in Dirs(D)
        BY <1>0, <4>1, DirParts DEF Numbers, DiskTyped
      <4>. QED
        BY <1>0, <1>1, <4>2 DEF DirsRight
    <3>. QED
      BY <3>1, <3>2
  <2>. QED
    BY <1>0, <1>10, <2>1, <2>2 DEF EditWritten
<1>25. /\ \A t \in Named(E) : t > 0 /\ t < nextFile
       /\ NextsUpTo(E, nextFile)
       /\ phase = "up" => LogsUpTo(E, logNumber)
  BY <1>0, <1>8 DEF Numbers
<1>. QED
  BY <1>1, <1>8, <1>9, <1>10, <1>11, <1>14, <1>15, <1>17, <1>18, <1>19, <1>20, <1>21, <1>22, <1>23, <1>24, <1>25

LEMMA TouchNothing ==
    ASSUME NEW D, DiskTyped(D), NEW f \in Dir(D).names
    PROVE  Touches(D, D, f) /\ f \in Files(D)
<1>1. f \in Files(D) /\ Dir(D).names \cup {f} = Dir(D).names
  BY DirParts DEF DiskTyped, DirsTyped
<1>. QED
  BY <1>1 DEF Touches

LEMMA LogStarted ==
    ASSUME NEW D, DiskTyped(D), NEW l \in Nat, NEW E, E = NewWritableFile(D, LogFile(l))
    PROVE  Touches(D, E, LogFile(l)) /\ ReadLog(E, l) = {} /\ DiskTyped(E)
           /\ LogFile(l) \in Dir(E).names
<1>1. Touches(D, E, LogFile(l)) /\ Records(E, LogFile(l)) = <<>>
  BY NewFileTouches, FileTypes
<1>. QED
  BY <1>1, EmptySeen, SeenLog DEF Touches

LEMMA LogAppended ==
    ASSUME NEW D, DiskTyped(D), NEW l \in Nat, LogFile(l) \in Dir(D).names, NEW b \in Batch,
           NEW E, E = AddRecords(D, LogFile(l), <<b>>)
    PROVE  /\ Touches(D, E, LogFile(l))
           /\ ReadLog(D, l) \subseteq ReadLog(E, l)
           /\ ReadLog(E, l) \subseteq ReadLog(D, l) \cup ({b} \ {Torn})
           /\ Torn \notin Range1(Records(D, LogFile(l))) /\ b # Torn => b \in ReadLog(E, l)
<1>. DEFINE f == LogFile(l)
            u == <<b>>
            s == Records(D, f)
<1>1. Item(f) = Batch /\ f \in Files(D)
  BY FileTypes, DirParts DEF Item, DiskTyped, DirsTyped
<1>2. s \in Seq(Batch)
  BY <1>1, FileParts DEF DiskTyped
<1>3. u \in Seq(Item(f))
  BY <1>1
<1>. HIDE DEF f, u
<1>4. Touches(D, E, f)
  BY <1>3, AddRecordsTouches DEF f, u
<1>5. Records(E, f) = Records(D, f) \o u
  BY <1>3, AddRecordsTouches DEF f, u
<1>. HIDE DEF s
<1>6. /\ Seen(s) \subseteq Seen(s \o <<b>>)
      /\ Seen(s \o <<b>>) \subseteq Seen(s) \cup ({b} \ {Torn})
      /\ Torn \notin Range1(s) /\ b # Torn => b \in Seen(s \o <<b>>)
  BY <1>2, SeenOneMore
<1>7. ReadLog(D, l) = Seen(s) /\ ReadLog(E, l) = Seen(s \o <<b>>)
  BY <1>5, SeenLog DEF f, u, s
<1>. QED
  BY <1>4, <1>6, <1>7 DEF f, s

\* The log that takes a write, before and after.
LEMMA LogWritten ==
    ASSUME NEW D, DiskTyped(D), NEW l \in Nat, NEW E, NEW D1, NEW r \in Batch,
           \/ LogFile(l) \in Dir(D).names /\ D1 = D
           \/ LogFile(l) \notin Files(D) /\ D1 = NewWritableFile(D, LogFile(l)),
           E = D1 \/ E = AddRecords(D1, LogFile(l), <<r>>)
    PROVE  /\ Touches(D, E, LogFile(l))
           /\ \A b \in ReadLog(E, l) : \/ b = r /\ r # Torn /\ E # D1
                                       \/ LogFile(l) \in Files(D) /\ b \in ReadLog(D, l)
           /\ LogFile(l) \in Files(D) => ReadLog(D, l) \subseteq ReadLog(E, l)
<1>. DEFINE f == LogFile(l)
<1>1. /\ Touches(D, D1, f) /\ f \in Dir(D1).names /\ DiskTyped(D1)
      /\ \A b \in ReadLog(D1, l) : f \in Files(D) /\ b \in ReadLog(D, l)
      /\ f \in Files(D) => ReadLog(D, l) \subseteq ReadLog(D1, l)
  <2>1. CASE f \in Dir(D).names /\ D1 = D
    BY <2>1, TouchNothing
  <2>2. CASE f \notin Files(D) /\ D1 = NewWritableFile(D, f)
    BY <2>2, LogStarted
  <2>. QED
    BY <2>1, <2>2
<1>2. CASE E = D1
  BY <1>1, <1>2
<1>3. CASE E # D1
  <2>0. E = AddRecords(D1, f, <<r>>)
    BY <1>3
  <2>1. /\ Touches(D1, E, f) /\ ReadLog(D1, l) \subseteq ReadLog(E, l)
        /\ ReadLog(E, l) \subseteq ReadLog(D1, l) \cup ({r} \ {Torn})
    BY <1>1, <2>0, LogAppended
  <2>2. Touches(D, E, f)
    BY <1>1, <2>1, TouchTwice
  <2>. QED
    BY <1>1, <1>3, <2>1, <2>2
<1>. QED
  BY <1>2, <1>3

\* A write is logged.
LEMMA AddRecordInv ==
    ASSUME Inv, NEW sync \in SyncOptions, AddRecord(sync)
    PROVE  Inv'
<1>. DEFINE batch == [seq |-> lastSequence + 1, id |-> written + 1]
            l == IF Switches THEN nextFile ELSE logNumber
            f == LogFile(l)
            D1 == IF Switches THEN NewWritableFile(fs, f) ELSE fs
            n == nextFile + 1
<1>0. /\ DiskInv(fs) /\ DiskTyped(fs) /\ DirsRight(fs) /\ Typed /\ Steps /\ ProcessInv(fs)
      /\ Numbers(fs) /\ Outputs(fs) /\ OutputsWritten(fs) /\ InUse(fs) /\ EditRight(fs)
      /\ phase = "up" /\ writer.step = "idle" /\ written < MaxWrites
      /\ nextFile \in Nat /\ nextFile > 0 /\ logNumber \in Nat /\ lastSequence \in Nat
      /\ written \in 0 .. MaxWrites
      /\ UNCHANGED <<phase, version, held, versionLog, manifest, pending, bgError, flush, comp, apply,
                     toRecover, recovered, safe>>
      /\ written' = written + 1
  BY DEF Inv, DiskInv, ProcessInv, AddRecord, recoveryVars, Typed, TypedMemory, TypedVersion, TypedHistory
<1>1. /\ Switches => /\ ~hasImm /\ imm' = mem /\ hasImm' = TRUE /\ mem' = <<>>
                     /\ logNumber' = nextFile /\ nextFile' = n
      /\ ~Switches => UNCHANGED <<imm, hasImm, mem, logNumber, nextFile>>
  BY DEF AddRecord, AfterNewFileNumber
<1>2. \/ /\ fs' = AddRecords(D1, f, <<batch>>)
         /\ writer' = [step |-> "logged", batch |-> batch, sync |-> sync]
         /\ limbo' = limbo \cup {batch.id}
         /\ lastSequence' = lastSequence
      \/ /\ fs' = D1 \/ fs' = AddRecords(D1, f, <<Torn>>)
         /\ lastSequence' = lastSequence + 1
         /\ UNCHANGED <<writer, limbo>>
  BY DEF AddRecord
<1>3. /\ batch \in Batch /\ batch.seq = lastSequence + 1 /\ batch.id = written + 1 /\ Torn \in Batch
      /\ sync \in BOOLEAN /\ written' \in 0 .. MaxWrites /\ batch.id \in 1 .. written'
      /\ 1 .. written \subseteq 1 .. written'
  <2>1. batch \in Batch /\ batch.seq = lastSequence + 1 /\ batch.id = written + 1
    BY <1>0 DEF Batch
  <2>2. sync \in BOOLEAN
    BY BoundsAssumption
  <2>3. MaxWrites \in Nat
    BY BoundsAssumption
  <2>. QED
    BY <1>0, <2>1, <2>2, <2>3, NothingTyped
<1>. HIDE DEF batch
<1>4. toRecover = {} /\ Writing = {} /\ writer = NoWrite
  BY <1>0 DEF Steps, Writing
<1>5. /\ l \in Nat
      /\ l = nextFile \/ (l = logNumber /\ phase = "up")
      /\ \/ f \in Dir(fs).names /\ D1 = fs
         \/ f \notin Files(fs) /\ D1 = NewWritableFile(fs, f)
  <2>1. LogFile(nextFile) \notin Files(fs)
    BY <1>0, <1>4 DEF Numbers
  <2>2. LogFile(logNumber) \in Dir(fs).names
    BY <1>0 DEF InUse, FileExists
  <2>. QED
    BY <1>0, <2>1, <2>2
<1>6. /\ logNumber' = l /\ l \in Nat /\ logNumber <= l
      /\ nextFile' \in {nextFile, n} /\ nextFile' \in Nat /\ nextFile <= nextFile' /\ l < nextFile'
      /\ nextFile' > 0
      /\ l = nextFile => nextFile' = n
  <2>1. logNumber < nextFile
    BY <1>0 DEF Numbers
  <2>. QED
    BY <1>0, <1>1, <2>1
<1>. HIDE DEF D1, l, n
<1>7. PICK B \in {{}, {batch}} :
        /\ B = Writing' /\ writer' \in WriteRecord /\ lastSequence' \in Nat
        /\ limbo' \subseteq 1 .. written'
        /\ writer'.step # "idle" => writer'.batch = batch /\ lastSequence' = lastSequence
        /\ writer'.step = "idle" => writer' = NoWrite
        /\ B = {} => lastSequence' = lastSequence + 1
        /\ B = {batch} => lastSequence' = lastSequence
        /\ Touches(fs, fs', f)
        /\ \A b \in ReadLog(fs', l) : b \in B \/ (f \in Files(fs) /\ b \in ReadLog(fs, l))
        /\ f \in Files(fs) => ReadLog(fs, l) \subseteq ReadLog(fs', l)
  <2>1. limbo \subseteq 1 .. written
    BY <1>0 DEF Typed, TypedHistory
  <2>2. CASE /\ fs' = AddRecords(D1, f, <<batch>>)
             /\ writer' = [step |-> "logged", batch |-> batch, sync |-> sync]
             /\ limbo' = limbo \cup {batch.id}
             /\ lastSequence' = lastSequence
    <3>1. /\ Touches(fs, fs', f)
          /\ \A b \in ReadLog(fs', l) : b = batch \/ (f \in Files(fs) /\ b \in ReadLog(fs, l))
          /\ f \in Files(fs) => ReadLog(fs, l) \subseteq ReadLog(fs', l)
      BY <1>0, <1>3, <1>5, <1>6, <2>2, LogWritten, SMTT(30)
    <3>2. writer' \in WriteRecord /\ writer'.step = "logged" /\ writer'.batch = batch
      BY <1>3, <2>2 DEF WriteRecord
    <3>3. Writing' = {batch} /\ limbo' \subseteq 1 .. written'
      BY <1>3, <2>1, <2>2, <3>2 DEF Writing
    <3>4. {batch} # {}
      OBVIOUS
    <3>. WITNESS {batch} \in {{}, {batch}}
    <3>. QED
      BY <1>0, <2>2, <3>1, <3>2, <3>3, <3>4
  <2>3. CASE /\ fs' = D1 \/ fs' = AddRecords(D1, f, <<Torn>>)
             /\ lastSequence' = lastSequence + 1
             /\ UNCHANGED <<writer, limbo>>
    <3>1. /\ Touches(fs, fs', f)
          /\ \A b \in ReadLog(fs', l) : f \in Files(fs) /\ b \in ReadLog(fs, l)
          /\ f \in Files(fs) => ReadLog(fs, l) \subseteq ReadLog(fs', l)
      BY <1>0, <1>3, <1>5, <1>6, <2>3, LogWritten
    <3>2. writer' \in WriteRecord /\ writer'.step = "idle" /\ writer' = NoWrite
      BY <1>4, <2>3, NothingTyped
    <3>3. Writing' = {} /\ limbo' \subseteq 1 .. written' /\ lastSequence + 1 \in Nat
      BY <1>0, <1>3, <2>1, <2>3, <3>2 DEF Writing
    <3>4. {batch} # {}
      OBVIOUS
    <3>. WITNESS {} \in {{}, {batch}}
    <3>. QED
      BY <1>0, <2>3, <3>1, <3>2, <3>3, <3>4
  <2>. QED
    BY <1>2, <2>2, <2>3
<1>8. /\ B \in SUBSET Batch /\ (\A b, c \in B : b = c) /\ \A b \in B : b.seq = lastSequence + 1
  BY <1>3
<1>9. /\ DiskInv(fs')
      /\ Dir(fs').current = Dir(fs).current /\ FileExists(fs', f)
      /\ \A t \in Named(fs') : t > 0 /\ t < nextFile
      /\ NextsUpTo(fs', nextFile)
      /\ LogsUpTo(fs', logNumber)
      /\ \A m \in Nat : LogFile(m) \in Files(fs') => m < nextFile \/ m = l
      /\ LogsGone(fs') /\ Outputs(fs') /\ OutputsWritten(fs') /\ InUse(fs')
      /\ \A t \in version \cup Found \cup Named(fs') : TableFile(t) \in Files(fs') =>
            \A b \in ReadTable(fs', t) : b.seq <= lastSequence
      /\ \A m \in Nat : LogFile(m) \in Files(fs') =>
            \A b \in ReadLog(fs', m) : b.seq <= lastSequence \/ (m = l /\ b \in B)
      /\ Unique(Logged(fs') \cup Tabled(fs') \cup Shown(fs') \cup B)
      /\ RecoveredRight(fs') /\ EditRight(fs') /\ EditWritten(fs')
  <2>1. LogAdds(fs, fs', l, B)
    BY <1>7, <1>8 DEF LogAdds
  <2>. QED
    BY <1>0, <1>4, <1>5, <2>1, LogStep
<1>10. DiskTyped(fs') /\ DirsRight(fs')
  BY <1>9 DEF DiskInv
<1>11. /\ mem' \in Seq(Batch) /\ imm' \in Seq(Batch) /\ hasImm' \in BOOLEAN
       /\ Range1(mem') \cup Range1(imm') = Range1(mem) \cup Range1(imm)
       /\ ~hasImm' => imm' = <<>>
       /\ hasImm => hasImm' /\ imm' = imm
       /\ flush.step # "none" => imm' = imm /\ logNumber' = logNumber
  <2>1. mem \in Seq(Batch) /\ imm \in Seq(Batch) /\ hasImm \in BOOLEAN /\ <<>> \in Seq(Batch)
    BY <1>0 DEF Typed, TypedMemory
  <2>2. (~hasImm => imm = <<>>) /\ (flush.step # "none" => hasImm)
    BY <1>0 DEF Steps
  <2>. QED
    BY <1>1, <2>1, <2>2, EmptySeen
<1>12. Typed'
  <2>1. TypedMemory' /\ TypedVersion'
    BY <1>0, <1>6, <1>7, <1>11 DEF Typed, TypedMemory, TypedVersion
  <2>2. TypedWork' /\ TypedHistory'
    BY <1>0, <1>3, <1>7 DEF Typed, TypedWork, TypedHistory
  <2>. QED
    BY <2>1, <2>2 DEF Typed
<1>13. Steps'
  BY <1>0, <1>3, <1>7, <1>11 DEF Steps, Quiet
<1>14. Numbers(fs)'
  <2>1. /\ manifest < nextFile'
        /\ version \cup Found \cup pending \cup comp.base \cup Reading \subseteq 1 .. nextFile' - 1
    BY <1>0, <1>6, NumbersLater
  <2>2. \A t \in Named(fs') : t > 0 /\ t < nextFile'
    BY <1>0, <1>6, <1>9 DEF Named
  <2>3. NextsUpTo(fs', nextFile') /\ LogsUpTo(fs', l)
    <3>. SUFFICES ASSUME NEW c \in Currents(fs'), NEW k \in DOMAIN EditsIn(fs', c),
                         Numbered(EditsIn(fs', c)[k])
                  PROVE  EditsIn(fs', c)[k].next <= nextFile' /\ EditsIn(fs', c)[k].log <= l
      BY DEF NextsUpTo, LogsUpTo
    <3>1. EditsIn(fs', c)[k] \in EditRecord
      BY <1>10, CurrentFacts DEF Numbered
    <3>2. EditsIn(fs', c)[k].next \in Nat /\ EditsIn(fs', c)[k].log \in Nat
      BY <3>1 DEF EditRecord
    <3>3. EditsIn(fs', c)[k].next <= nextFile /\ EditsIn(fs', c)[k].log <= logNumber
      BY <1>9 DEF NextsUpTo, LogsUpTo
    <3>. QED
      BY <1>0, <1>6, <3>2, <3>3
  <2>4. \A m \in Nat : LogFile(m) \in Files(fs') => m < nextFile'
    BY <1>0, <1>6, <1>9
  <2>5. versionLog <= l
    BY <1>0, <1>6 DEF Numbers, Typed, TypedVersion
  <2>. QED
    BY <1>0, <1>6, <1>9, <2>1, <2>2, <2>3, <2>4, <2>5 DEF Numbers, Found, Reading
<1>15. LogsGone(fs)' /\ RecoveredRight(fs)'
  BY <1>0, <1>9 DEF LogsGone, RecoveredRight, Found
<1>16. InUse(fs)'
  BY <1>0, <1>6, <1>9 DEF InUse, Found, Reading
<1>17. Outputs(fs)'
  <2>1. flush.step = "apply" => flush.out \in 1 .. nextFile' - 1
    BY <1>0, <1>6 DEF Outputs
  <2>. QED
    BY <1>0, <1>9, <2>1 DEF Outputs
<1>18. OutputsWritten(fs)'
  BY <1>0, <1>9, <1>11 DEF OutputsWritten
<1>19. SeqsBelow(fs)'
  <2>1. \A b \in Batch : b.seq \in Nat
    BY DEF Batch
  <2>2. \A k \in Nat : k <= lastSequence => k <= lastSequence'
    BY <1>0, <1>7
  <2>3. \A t \in version \cup Found \cup Named(fs') : TableFile(t) \in Files(fs') =>
            \A b \in ReadTable(fs', t) : b.seq <= lastSequence'
    <3>1. \A t \in version \cup Found \cup Named(fs') : t \in Nat
      BY <1>0 DEF Typed, TypedVersion, Found, Named
    <3>. QED
      BY <1>9, <1>10, <2>1, <2>2, <3>1, ReadTypes
  <2>4. \A b \in Range1(mem) \cup Range1(imm) : b.seq <= lastSequence'
    <3>1. \A b \in Range1(mem) \cup Range1(imm) : b \in Batch
      BY <1>0, RangeFinite DEF Typed, TypedMemory
    <3>2. \A b \in Range1(mem) \cup Range1(imm) : b.seq <= lastSequence
      BY <1>0 DEF ProcessInv, SeqsBelow
    <3>. QED
      BY <2>1, <2>2, <3>1, <3>2
  <2>5. \A m \in Nat : LogFile(m) \in Files(fs') =>
            \A b \in ReadLog(fs', m) : b.seq <= lastSequence' \/ (m = l /\ b \in Writing')
    BY <1>7, <1>9, <1>10, <2>1, <2>2, ReadTypes
  <2>. QED
    BY <1>0, <1>4, <1>6, <1>11, <2>3, <2>4, <2>5 DEF SeqsBelow, Found
<1>20. BatchesUnique(fs)'
  <2>1. Shown(fs)' = Shown(fs')
    BY <1>0, <1>11 DEF Shown
  <2>. QED
    BY <1>7, <1>9, <2>1 DEF BatchesUnique
<1>21. EditRight(fs)'
  <2>1. apply.for = "open" => phase = "opening"
    BY <1>0 DEF Steps
  <2>2. apply.for = "flush" => flush.step # "none"
    BY <1>0 DEF Steps
  <2>3. apply.step # "none" => apply.edit.next <= nextFile' /\ apply.edit.log <= l
    <3>1. apply.step # "none" => apply.edit \in EditRecord
      BY <1>0 DEF EditRight, EditAhead
    <3>2. apply.step # "none" => apply.edit.next \in Nat /\ apply.edit.log \in Nat
      BY <3>1 DEF EditRecord
    <3>. QED
      BY <1>0, <1>6, <3>2 DEF EditRight
  <2>. QED
    BY <1>0, <1>6, <1>9, <1>11, <2>1, <2>2, <2>3 DEF EditRight
<1>22. EditWritten(fs)'
  BY <1>0, <1>9 DEF EditWritten
<1>. QED
  BY <1>9, <1>12, <1>13, <1>14, <1>15, <1>16, <1>17, <1>18, <1>19, <1>20, <1>21, <1>22 DEF Inv, ProcessInv

\* An open starts a log, and makes the edit that ends the recovery.
LEMMA OpenLogInv ==
    ASSUME Inv, OpenLog
    PROVE  Inv'
<1>. DEFINE n == nextFile + 1
            e == Edit(recovered, {}, nextFile, n, lastSequence)
            f == LogFile(nextFile)
<1>0. /\ DiskInv(fs) /\ DiskTyped(fs) /\ DirsRight(fs) /\ Typed /\ Steps /\ ProcessInv(fs)
      /\ Numbers(fs) /\ phase = "recovering" /\ toRecover = {}
      /\ phase' = "opening" /\ logNumber' = nextFile /\ nextFile' = n
      /\ fs' = NewWritableFile(fs, f)
      /\ apply' = [step |-> "append", edit |-> e, for |-> "open"]
      /\ nextFile \in Nat /\ nextFile > 0 /\ lastSequence \in Nat /\ version \subseteq Nat
      /\ recovered \subseteq Nat /\ manifest \in Nat /\ versionLog \in Nat
      /\ UNCHANGED <<mem, imm, hasImm, version, lastSequence, versionLog, manifest, pending, bgError, held,
                     writer, flush, comp, toRecover, recovered, written, safe, limbo>>
  BY DEF Inv, DiskInv, ProcessInv, OpenLog, BeginApply, AfterNewFileNumber, recoveryVars, historyVars,
         Typed, TypedVersion
<1>1. /\ Quiet /\ apply = NoApply /\ Writing = {} /\ Found = recovered
      /\ n \in Nat /\ nextFile <= n /\ nextFile < n /\ n > 0 /\ nextFile <= nextFile
  <2>1. Quiet /\ apply = NoApply
    BY <1>0 DEF Steps
  <2>. QED
    BY <1>0, <2>1, NothingTyped DEF Quiet, Writing, Found
<1>2. LogAdds(fs, fs', nextFile, {})
  <2>1. Touches(fs, fs', f) /\ ReadLog(fs', nextFile) = {}
    BY <1>0, LogStarted
  <2>2. f \notin Files(fs)
    BY <1>0 DEF Numbers
  <2>. QED
    BY <2>1, <2>2 DEF LogAdds
<1>3. /\ DiskInv(fs')
      /\ Dir(fs').current = Dir(fs).current /\ FileExists(fs', f)
      /\ \A t \in Named(fs') : t > 0 /\ t < nextFile
      /\ NextsUpTo(fs', nextFile)
      /\ \A m \in Nat : LogFile(m) \in Files(fs') => m < nextFile \/ m = nextFile
      /\ LogsGone(fs') /\ Outputs(fs') /\ OutputsWritten(fs') /\ InUse(fs')
      /\ \A t \in version \cup Found \cup Named(fs') : TableFile(t) \in Files(fs') =>
            \A b \in ReadTable(fs', t) : b.seq <= lastSequence
      /\ \A m \in Nat : LogFile(m) \in Files(fs') =>
            \A b \in ReadLog(fs', m) : b.seq <= lastSequence \/ (m = nextFile /\ b \in {})
      /\ Unique(Logged(fs') \cup Tabled(fs') \cup Shown(fs') \cup {})
      /\ RecoveredRight(fs')
  <2>. DEFINE B == {}
  <2>1. B = {} /\ LogAdds(fs, fs', nextFile, B)
    BY <1>2
  <2>. HIDE DEF B
  <2>2. /\ DiskInv(fs) /\ Typed /\ Steps /\ ProcessInv(fs) /\ phase # "down" /\ toRecover = {}
        /\ Writing = {} /\ nextFile \in Nat /\ (B # {} => phase = "up")
    BY <1>0, <1>1, <2>1
  <2>3. /\ DiskInv(fs')
        /\ Dir(fs').current = Dir(fs).current /\ FileExists(fs', LogFile(nextFile))
        /\ \A t \in Named(fs') : t > 0 /\ t < nextFile
        /\ NextsUpTo(fs', nextFile)
        /\ \A m \in Nat : LogFile(m) \in Files(fs') => m < nextFile \/ m = nextFile
        /\ LogsGone(fs') /\ Outputs(fs') /\ OutputsWritten(fs') /\ InUse(fs')
    BY <2>1, <2>2, LogStep
  <2>4. \A t \in version \cup Found \cup Named(fs') : TableFile(t) \in Files(fs') =>
            \A b \in ReadTable(fs', t) : b.seq <= lastSequence
    BY <2>1, <2>2, LogStep
  <2>5. /\ \A m \in Nat : LogFile(m) \in Files(fs') =>
            \A b \in ReadLog(fs', m) : b.seq <= lastSequence \/ (m = nextFile /\ b \in B)
    BY <2>1, <2>2, LogStep
  <2>6. Unique(Logged(fs') \cup Tabled(fs') \cup Shown(fs') \cup B)
    BY <2>1, <2>2, LogStep
  <2>7. RecoveredRight(fs')
    BY <2>1, <2>2, LogStep
  <2>. QED
    BY <2>1, <2>3, <2>4, <2>5, <2>6, <2>7
<1>4. /\ e \in EditRecord /\ e.numbers /\ e.next = n /\ e.log = nextFile
      /\ e.last = lastSequence /\ e.added = recovered /\ e.deleted = {}
  <2>1. n \in Nat /\ nextFile \in Nat /\ lastSequence \in Nat /\ recovered \in SUBSET Nat
    BY <1>0, <1>1
  <2>. HIDE DEF n
  <2>. QED
    BY <2>1 DEF Edit, EditRecord
<1>5. DiskTyped(fs') /\ DirsRight(fs')
  BY <1>3 DEF DiskInv
<1>. HIDE DEF e, n
<1>6. apply'.step = "append" /\ apply'.edit = e /\ apply'.for = "open" /\ apply' \in ApplyRecord
  BY <1>0, <1>4 DEF ApplyRecord
<1>7. Typed'
  BY <1>0, <1>1, <1>6 DEF Typed, TypedMemory, TypedVersion, TypedWork, TypedHistory
<1>8. Steps'
  BY <1>0, <1>1, <1>6, NothingTyped DEF Steps, Quiet
<1>9. /\ manifest < n
      /\ version \cup Found \cup pending \cup comp.base \cup Reading \subseteq 1 .. n - 1
  BY <1>0, <1>1, NumbersLater
<1>10. NextsUpTo(fs', n) /\ LogsUpTo(fs', nextFile)
  <2>. SUFFICES ASSUME NEW c \in Currents(fs'), NEW k \in DOMAIN EditsIn(fs', c),
                       Numbered(EditsIn(fs', c)[k])
                PROVE  EditsIn(fs', c)[k].next <= n /\ EditsIn(fs', c)[k].log <= nextFile
    BY DEF NextsUpTo, LogsUpTo
  <2>1. EditsIn(fs', c)[k] \in EditRecord
    BY <1>5, CurrentFacts DEF Numbered
  <2>2. EditsIn(fs', c)[k].next \in Nat /\ EditsIn(fs', c)[k].log \in Nat
    BY <2>1 DEF EditRecord
  <2>3. EditsIn(fs', c)[k].next <= nextFile
    BY <1>3 DEF NextsUpTo
  <2>4. EditsIn(fs', c)[k].log < EditsIn(fs', c)[k].next
    BY <1>3 DEF DiskInv, EditsRight
  <2>. QED
    BY <1>0, <1>1, <2>2, <2>3, <2>4
<1>11. \A t \in Named(fs') : t > 0 /\ t < n
  BY <1>0, <1>1, <1>3 DEF Named
<1>12. Numbers(fs)'
  <2>1. versionLog <= nextFile
    BY <1>0 DEF Numbers
  <2>2. Dir(fs).current > 0 /\ Dir(fs).current < manifest /\ Dir(fs).current <= manifest
    BY <1>0, <1>1, NothingTyped DEF Numbers
  <2>3. \A m \in Nat : LogFile(m) \in Files(fs') => m < n
    BY <1>0, <1>1, <1>3
  <2>. QED
    BY <1>0, <1>1, <1>3, <1>6, <1>9, <1>10, <1>11, <2>1, <2>2, <2>3 DEF Numbers, Found, Reading
<1>13. LogsGone(fs)' /\ RecoveredRight(fs)'
  BY <1>0, <1>3 DEF LogsGone, RecoveredRight, Found
<1>14. InUse(fs)'
  BY <1>0, <1>3 DEF InUse, Found, Reading
<1>15. Outputs(fs)' /\ OutputsWritten(fs)'
  BY <1>0, <1>1, <1>3, NothingTyped DEF Quiet, Outputs, OutputsWritten
<1>16. SeqsBelow(fs)'
  <2>1. \A b \in Range1(mem) \cup Range1(imm) : b.seq <= lastSequence
    BY <1>0 DEF ProcessInv, SeqsBelow
  <2>. QED
    BY <1>0, <1>3, <2>1 DEF SeqsBelow, Found
<1>17. BatchesUnique(fs)'
  <2>1. Shown(fs)' = Shown(fs') /\ Writing' = {}
    BY <1>0, <1>1 DEF Shown, Writing
  <2>. QED
    BY <1>3, <2>1 DEF BatchesUnique
<1>18. EditAhead(fs', manifest, version, e)
  <2>1. LogsBelow(fs', nextFile, lastSequence)
    BY <1>3 DEF LogsBelow
  <2>2. \A t \in Named(fs') \cup version \cup recovered : TableBelow(fs', t, n, lastSequence)
    <3>1. \A t \in 1 .. n - 1 : t > 0 /\ t < n
      BY <1>1
    <3>2. \A t \in Named(fs') \cup version \cup recovered : t > 0 /\ t < n
      BY <1>1, <1>9, <1>11, <3>1
    <3>. QED
      BY <1>1, <1>3, <3>2 DEF TableBelow
  <2>. QED
    BY <1>0, <1>1, <1>4, <1>9, <1>10, <2>1, <2>2 DEF EditAhead
<1>19. EditRight(fs)'
  <2>1. EditAhead(fs', manifest', version', e)
    BY <1>0, <1>18
  <2>2. e.next <= n /\ e.log <= nextFile /\ versionLog <= e.log
    BY <1>0, <1>1, <1>4 DEF Numbers
  <2>. QED
    BY <1>0, <1>4, <1>6, <2>1, <2>2 DEF EditRight
<1>20. EditWritten(fs)'
  BY <1>6 DEF EditWritten
<1>. QED
  BY <1>3, <1>7, <1>8, <1>12, <1>13, <1>14, <1>15, <1>16, <1>17, <1>19, <1>20 DEF Inv, ProcessInv

LEMMA CompletePrefix ==
    ASSUME NEW S, NEW s \in Seq(S)
    PROVE  /\ Complete(s) \in Seq(S) /\ Prefix(Complete(s), s)
           /\ s # <<>> /\ s[Len(s)] # TornEdit => Complete(s) = s
<1>1. DOMAIN s = 1 .. Len(s) /\ Len(s) \in Nat
  BY LenProperties
<1>2. CASE s # <<>> /\ Last(s) = TornEdit
  <2>. DEFINE n == Len(s) - 1
              t == SubSeq(s, 1, n)
  <2>1. n \in Nat /\ n < Len(s) /\ 1 .. n \subseteq DOMAIN s
    BY <1>1, <1>2, EmptySeq
  <2>2. Complete(s) = t
    BY <1>2 DEF Complete, Front
  <2>. HIDE DEF n
  <2>3. \A i \in 1 .. n : s[i] \in S
    BY <2>1, ElementOfSeq
  <2>4. /\ t \in Seq(S)
        /\ Len(t) = IF 1 <= n THEN n - 1 + 1 ELSE 0
        /\ \A i \in 1 .. n - 1 + 1 : t[i] = s[1 + i - 1]
    BY <2>1, <2>3, SubSeqProperties
  <2>5. Len(t) = n /\ DOMAIN t = 1 .. n
    BY <2>1, <2>4, LenProperties
  <2>6. \A i \in 1 .. n : t[i] = s[i]
    <3>. TAKE i \in 1 .. n
    <3>1. i \in 1 .. n - 1 + 1 /\ 1 + i - 1 = i
      BY <2>1
    <3>. QED
      BY <2>4, <3>1
  <2>. HIDE DEF t
  <2>7. Prefix(t, s)
    BY <2>1, <2>5, <2>6 DEF Prefix
  <2>. QED
    BY <1>2, <2>2, <2>4, <2>7 DEF Last
<1>3. CASE ~(s # <<>> /\ Last(s) = TornEdit)
  BY <1>3 DEF Complete, Prefix
<1>. QED
  BY <1>2, <1>3

-----------------------------------------------------------------------------
(* Steps that end the process.                                             *)

\* A death leaves what the disk has.
LEMMA DownInv ==
    ASSUME NoProcess, DiskInv(fs'), TypedHistory', Unique(Logged(fs') \cup Tabled(fs')),
           Readable(fs') => \A m \in Nat : LogFile(m) \in Files(fs') \ Dir(fs').names =>
                                              m < LastEdit(fs').log
    PROVE  Inv'
<1>0. /\ phase' = "down"
      /\ mem' = <<>> /\ imm' = <<>> /\ hasImm' = FALSE /\ logNumber' = 0
      /\ version' = {} /\ held' = NoReader
      /\ nextFile' = 2 /\ lastSequence' = 0 /\ versionLog' = 0 /\ manifest' = 0
      /\ pending' = {} /\ bgError' = FALSE
      /\ writer' = NoWrite /\ flush' = NoFlush /\ comp' = NoCompaction /\ apply' = NoApply
      /\ toRecover' = {} /\ recovered' = {}
  BY DEF NoProcess
<1>1. Typed'
  <2>1. TypedMemory'
    <3>1. <<>> \in Seq(Batch)
      BY EmptySeq
    <3>. QED
      BY <1>0, <3>1 DEF TypedMemory
  <2>2. TypedVersion'
    <3>1. /\ version' \in SUBSET Nat /\ pending' \in SUBSET Nat
          /\ toRecover' \in SUBSET Nat /\ recovered' \in SUBSET Nat
      BY <1>0
    <3>2. /\ nextFile' \in Nat /\ nextFile' > 0 /\ lastSequence' \in Nat /\ versionLog' \in Nat
          /\ manifest' \in Nat
      BY <1>0
    <3>3. bgError' \in BOOLEAN
      BY <1>0
    <3>4. held' \in SUBSET Nat
      BY <1>0, NothingTyped
    <3>. QED
      BY <3>1, <3>2, <3>3, <3>4 DEF TypedVersion
  <2>3. TypedWork'
    BY <1>0, NothingTyped DEF TypedWork
  <2>. QED
    BY <2>1, <2>2, <2>3 DEF Typed
<1>2. Steps'
  BY <1>0, NothingTyped DEF Steps, Quiet
<1>3. Numbers(fs)' /\ LogsGone(fs)' /\ InUse(fs)' /\ SeqsBelow(fs)'
  BY <1>0 DEF Numbers, LogsGone, InUse, SeqsBelow
<1>4. Outputs(fs)' /\ OutputsWritten(fs)' /\ EditRight(fs)' /\ EditWritten(fs)'
  BY <1>0, NothingTyped DEF Outputs, OutputsWritten, EditRight, EditWritten
<1>5. RecoveredRight(fs)'
  BY <1>0 DEF RecoveredRight, Found
<1>6. BatchesUnique(fs)'
  <2>1. Shown(fs)' = {} /\ Writing' = {}
    BY <1>0, EmptySeen, NothingTyped DEF Shown, Writing
  <2>. QED
    BY <2>1 DEF BatchesUnique
<1>. QED
  BY <1>1, <1>2, <1>3, <1>4, <1>5, <1>6 DEF Inv, ProcessInv

\* What the log of the last edit that CURRENT's manifest has is, while a
\* process runs and after it.
LEMMA LogsGoneLater ==
    ASSUME NEW D, LogsGone(D), Readable(D), Typed, DiskInv(D)
    PROVE  \A m \in Nat : LogFile(m) \in Files(D) \ Dir(D).names => m < LastEdit(D).log
<1>1. CASE phase = "down"
  BY <1>1 DEF LogsGone
<1>2. CASE phase # "down"
  <2>1. Edits(D) # <<>> /\ LastEdit(D) # TornEdit /\ LastEdit(D) \in EditRecord
    <3>1. Edits(D) # <<>> /\ TornEdit \notin Range1(Edits(D)) /\ Dir(D).current # 0
      BY DEF Readable
    <3>2. EditsIn(D, Dir(D).current) \in Seq(EditRecord \cup {TornEdit})
      BY <3>1, CurrentOfDir, CurrentFacts DEF DiskInv
    <3>3. Edits(D) \in Seq(EditRecord \cup {TornEdit})
      BY <3>2, CompletePrefix, EditsComplete
    <3>4. Len(Edits(D)) \in DOMAIN Edits(D)
      BY <3>1, <3>3, LenProperties, EmptySeq
    <3>5. LastEdit(D) \in Range1(Edits(D))
      BY <3>4 DEF LastEdit, Range1
    <3>6. LastEdit(D) \in EditRecord \cup {TornEdit}
      BY <3>3, <3>5, RangeFinite
    <3>. QED
      BY <3>1, <3>5, <3>6
  <2>2. LastEdit(D).log >= versionLog /\ LastEdit(D).log \in Nat /\ versionLog \in Nat
    BY <1>2, <2>1 DEF LogsGone, EditRecord, Typed, TypedVersion
  <2>. QED
    BY <1>2, <2>2 DEF LogsGone
<1>. QED
  BY <1>1, <1>2

\* The process is killed.
LEMMA KillInv ==
    ASSUME Inv, Kill
    PROVE  Inv'
<1>0. /\ DiskInv(fs) /\ Typed /\ ProcessInv(fs) /\ NoProcess /\ fs' = fs
      /\ UNCHANGED <<written, safe>> /\ limbo' = {}
  BY DEF Inv, Kill
<1>1. TypedHistory'
  <2>1. writer' = NoWrite
    BY <1>0 DEF NoProcess
  <2>. QED
    BY <1>0, <2>1, NothingTyped DEF Typed, TypedHistory
<1>2. Unique(Logged(fs') \cup Tabled(fs'))
  BY <1>0 DEF ProcessInv, BatchesUnique, Unique
<1>3. Readable(fs') => \A m \in Nat : LogFile(m) \in Files(fs') \ Dir(fs').names => m < LastEdit(fs').log
  BY <1>0, LogsGoneLater DEF ProcessInv
<1>. QED
  BY <1>0, <1>1, <1>2, <1>3, DownInv

-----------------------------------------------------------------------------
(* Files are deleted.                                                      *)

LEMMA DeleteStep ==
    ASSUME NEW D, NEW gone, NEW E, DiskInv(D), E = DeleteFiles(D, gone), Dir(D).current > 0,
           DescriptorFile(Dir(D).current) \notin gone
    PROVE  /\ DiskInv(E)
           /\ Files(E) = Files(D) /\ \A f \in Files(D) : Records(E, f) = Records(D, f)
           /\ Dir(E).names = Dir(D).names \ gone /\ Dir(E).current = Dir(D).current
           /\ Named(E) \subseteq Named(D)
           /\ Logged(E) \subseteq Logged(D) /\ Tabled(E) \subseteq Tabled(D)
           /\ \A n : NextsUpTo(D, n) => NextsUpTo(E, n)
           /\ \A n : LogsUpTo(D, n) => LogsUpTo(E, n)
           /\ EditsIn(E, Dir(D).current) = EditsIn(D, Dir(D).current)
           /\ Edits(E) = Edits(D)
<1>0. DiskTyped(D) /\ DirsRight(D) /\ EditsRight(D) /\ PairsRight(D)
  BY DEF DiskInv
<1>1. /\ DiskTyped(E)
      /\ Files(E) = Files(D) /\ \A f \in Files(D) : E.files[f] = D.files[f]
      /\ Dir(E).names = Dir(D).names \ gone /\ Dir(E).current = Dir(D).current
      /\ Dirs(D) \subseteq Dirs(E)
      /\ \A d \in Dirs(E) : d \in Dirs(D) \/ (/\ d.current = Dir(D).current
                                              /\ Dir(D).names \ gone \subseteq d.names
                                              /\ d.names \subseteq Dir(D).names)
  BY <1>0, DeleteFilesDisk
<1>2. \A f \in Files(D) : Records(E, f) = Records(D, f)
  BY <1>1 DEF Records
<1>3. Dir(D) \in Dirs(D) /\ Dir(D).current \in Currents(D) /\ Dir(D).current \in Nat
  BY <1>0, DirParts, CurrentOfDir DEF DiskTyped
<1>4. DescriptorFile(Dir(D).current) \in Dir(D).names \ gone
  BY <1>0, <1>3 DEF DirsRight
<1>5. DirsRight(E) /\ FirstDir(E)
  <2>. SUFFICES ASSUME NEW d \in Dirs(E)
                PROVE  /\ d.current <= Dir(E).current
                       /\ d.current # 0 => DescriptorFile(d.current) \in d.names
                       /\ d.current = 0 => d.names \subseteq {DescriptorFile(1)}
    BY <1>1 DEF DirsRight, FirstDir
  <2>1. CASE d \in Dirs(D)
    BY <1>0, <1>1, <2>1 DEF DirsRight
  <2>2. CASE d.current = Dir(D).current /\ Dir(D).names \ gone \subseteq d.names
    BY <1>1, <1>3, <1>4, <2>2
  <2>. QED
    BY <1>1, <2>1, <2>2
<1>6. Currents(E) \subseteq Currents(D) /\ Dir(D).current \in Currents(E)
  BY <1>1, <1>3 DEF Currents
<1>7. \A c \in Currents(E) : EditsIn(E, c) = EditsIn(D, c)
  BY <1>0, <1>2, <1>6, CurrentFacts DEF EditsIn
<1>8. Within(D, E, 0, {})
  <2>1. \A c \in Currents(E) : Prefix(EditsIn(E, c), EditsIn(D, c))
    BY <1>7 DEF Prefix
  <2>2. \A n \in Nat : LogFile(n) \in Files(E) => LogFile(n) \in Files(D) /\ ReadLog(E, n) = ReadLog(D, n)
    BY <1>1, <1>2 DEF ReadLog
  <2>3. \A t \in Named(D) : TableFile(t) \in Files(E) =>
          TableFile(t) \in Files(D) /\ ReadTable(E, t) = ReadTable(D, t)
    BY <1>1, <1>2 DEF ReadTable
  <2>. QED
    BY <1>6, <2>1, <2>2, <2>3 DEF Within
<1>9. /\ EditsRight(E) /\ PairsRight(E)
      /\ Named(E) \subseteq Named(D)
      /\ Logged(E) \subseteq Logged(D) \cup {}
      /\ Tabled(E) \subseteq Tabled(D)
      /\ \A n : NextsUpTo(D, n) => NextsUpTo(E, n)
      /\ \A n : LogsUpTo(D, n) => LogsUpTo(E, n)
  BY <1>0, <1>1, <1>5, <1>8, WithinKeeps
<1>10. Edits(E) = Edits(D) /\ EditsIn(E, Dir(D).current) = EditsIn(D, Dir(D).current)
  BY <1>1, <1>6, <1>7, EditsFacts
<1>. QED
  BY <1>1, <1>2, <1>5, <1>9, <1>10 DEF DiskInv

\* LogAndApply fails: an open ends, or background work does.
LEMMA ApplyFailedInv ==
    ASSUME Inv, ApplyFailed
    PROVE  Inv'
<1>0. /\ DiskInv(fs) /\ DiskTyped(fs) /\ Typed /\ Steps /\ ProcessInv(fs) /\ Numbers(fs)
      /\ apply.step = "failed" /\ UNCHANGED <<written, safe, limbo>>
  BY DEF Inv, DiskInv, ProcessInv, ApplyFailed, historyVars
<1>1. CASE apply.for = "open"
  <2>1. /\ fs' = DeleteFiles(fs, {Descriptor}) /\ NoProcess
    BY <1>1 DEF ApplyFailed
  <2>2. phase = "opening" /\ Dir(fs).current > 0 /\ Dir(fs).current < manifest
        /\ Dir(fs).current \in Nat /\ manifest \in Nat
    BY <1>0, <1>1, CurrentOfDir DEF Steps, Numbers, Typed, TypedVersion
  <2>3. DescriptorFile(Dir(fs).current) \notin {Descriptor}
    BY <2>2, FilesDiffer DEF Descriptor
  <2>4. /\ DiskInv(fs') /\ Files(fs') = Files(fs) /\ Dir(fs').names = Dir(fs).names \ {Descriptor}
        /\ Dir(fs').current = Dir(fs).current
        /\ Logged(fs') \subseteq Logged(fs) /\ Tabled(fs') \subseteq Tabled(fs)
        /\ Edits(fs') = Edits(fs)
    BY <1>0, <2>1, <2>2, <2>3, DeleteStep
  <2>5. TypedHistory'
    <3>1. writer' = NoWrite
      BY <2>1 DEF NoProcess
    <3>. QED
      BY <1>0, <3>1, NothingTyped DEF Typed, TypedHistory
  <2>6. Unique(Logged(fs') \cup Tabled(fs'))
    BY <1>0, <2>4 DEF ProcessInv, BatchesUnique, Unique
  <2>7. ASSUME Readable(fs') PROVE \A m \in Nat : LogFile(m) \in Files(fs') \ Dir(fs').names =>
                                                     m < LastEdit(fs').log
    <3>1. Readable(fs)
      BY <2>4, <2>7 DEF Readable, FileExists
    <3>2. \A m \in Nat : LogFile(m) \in Files(fs) \ Dir(fs).names => m < LastEdit(fs).log
      BY <1>0, <3>1, LogsGoneLater DEF ProcessInv
    <3>3. \A m \in Nat : LogFile(m) # Descriptor
      BY <2>2, FilesDiffer DEF Descriptor
    <3>. QED
      BY <2>4, <3>2, <3>3 DEF LastEdit
  <2>. QED
    BY <2>1, <2>4, <2>5, <2>6, <2>7, DownInv
<1>2. CASE apply.for # "open"
  <2>1. /\ bgError' = TRUE /\ apply' = NoApply /\ fs' = fs
        /\ flush' = IF apply.for = "flush" THEN NoFlush ELSE flush
        /\ pending' = IF apply.for = "compaction" THEN pending \ {comp.out} ELSE pending
        /\ comp' = IF apply.for = "compaction" THEN NoCompaction ELSE comp
        /\ UNCHANGED <<phase, mem, imm, hasImm, logNumber, version, nextFile, lastSequence, versionLog,
                       manifest, held, writer, toRecover, recovered>>
    BY <1>2 DEF ApplyFailed, DeleteObsoleteFiles, MayDelete, memoryVars, recoveryVars
  <2>2. /\ phase = "up"
        /\ \/ apply.for = "flush" /\ flush.step = "apply"
           \/ apply.for = "compaction" /\ comp.step = "apply" /\ flush = NoFlush
    <3>1. apply.for \in {"flush", "compaction"}
      BY <1>0, <1>2 DEF Steps, Typed, TypedWork, ApplyRecord
    <3>2. flush.step = "apply" \/ (comp.step = "apply" /\ flush = NoFlush)
      BY <1>0, <3>1 DEF Steps
    <3>. QED
      BY <1>0, <3>1, <3>2, NothingTyped DEF Steps, Quiet
  <2>3. /\ pending' \subseteq pending /\ flush' = NoFlush
        /\ comp' = NoCompaction \/ (comp' = comp /\ comp.step # "apply" /\ pending' = pending)
        /\ comp'.base \subseteq comp.base
    <3>1. CASE apply.for = "flush" /\ flush.step = "apply"
      <4>1. comp.step # "apply"
        BY <1>0, <3>1 DEF Steps
      <4>. QED
        BY <2>1, <3>1, <4>1
    <3>2. CASE apply.for = "compaction" /\ flush = NoFlush
      BY <2>1, <3>2, NothingTyped
    <3>. QED
      BY <2>2, <3>1, <3>2
  <2>4. Typed'
    <3>1. TypedMemory' /\ TypedHistory'
      BY <1>0, <2>1 DEF Typed, TypedMemory, TypedHistory
    <3>2. TypedVersion'
      BY <1>0, <2>1, <2>3 DEF Typed, TypedVersion
    <3>3. TypedWork'
      BY <1>0, <2>1, <2>3, NothingTyped DEF Typed, TypedWork
    <3>. QED
      BY <3>1, <3>2, <3>3 DEF Typed
  <2>5. Steps'
    <3>1. /\ apply'.step = "none" /\ apply'.for = "none" /\ flush'.step = "none" /\ comp'.step # "apply"
          /\ comp'.step = "none" => comp' = NoCompaction
      <4>1. comp.step = "none" => comp = NoCompaction
        BY <1>0 DEF Steps
      <4>2. comp' = NoCompaction \/ (comp' = comp /\ comp.step # "apply")
        BY <2>3
      <4>3. flush' = NoFlush /\ apply' = NoApply
        BY <2>1, <2>3
      <4>. QED
        BY <4>1, <4>2, <4>3, NothingTyped
    <3>. QED
      BY <1>0, <2>1, <2>2, <2>3, <3>1 DEF Steps
  <2>6. Numbers(fs)'
    BY <1>0, <2>1, <2>2, <2>3, NothingTyped DEF Numbers, Found, Reading
  <2>7. LogsGone(fs)' /\ InUse(fs)' /\ RecoveredRight(fs)'
    BY <1>0, <2>1, <2>2, <2>3 DEF ProcessInv, LogsGone, InUse, RecoveredRight, Found, Reading
  <2>8. Outputs(fs)'
    <3>1. flush'.step = "none" /\ flush'.out = 0
      BY <2>3 DEF NoFlush
    <3>2. comp'.step # "none" => comp' = comp /\ comp.step \in {"running", "written"} /\ pending' = pending
      BY <1>0, <2>3, NothingTyped DEF Typed, TypedWork, CompactionRecord
    <3>3. comp'.step # "none" => comp.out \in 1 .. nextFile - 1
      <4>1. pending \subseteq 1 .. nextFile - 1
        BY <1>0, <2>2 DEF Numbers
      <4>2. comp.step # "none" => comp.out \in pending
        BY <1>0 DEF ProcessInv, Outputs
      <4>. QED
        BY <3>2, <4>1, <4>2
    <3>4. comp'.step # "none" => comp.out # 0
      <4>1. nextFile \in Nat
        BY <1>0 DEF Typed, TypedVersion
      <4>2. \A k \in 1 .. nextFile - 1 : k # 0
        BY <4>1
      <4>. QED
        BY <3>3, <4>2
    <3>. QED
      <4>1. /\ flush'.step # "build" /\ flush'.step # "apply" /\ fs' = fs /\ version' = version
        BY <2>1, <3>1
      <4>0. Outputs(fs)
        BY <1>0 DEF ProcessInv
      <4>2. pending' \cap version' = {}
        BY <1>0, <2>1, <2>3 DEF ProcessInv, Outputs
      <4>3. comp'.step # "none" =>
              /\ comp'.out \in pending' /\ comp'.out # flush'.out
              /\ comp'.inputs \subseteq version' /\ comp'.out \notin comp'.base
              /\ FileExists(fs', TableFile(comp'.out))
              /\ Cardinality(comp'.inputs) = 2
              /\ comp'.out \notin Named(fs')
        BY <4>0, <3>1, <3>2, <3>4, <4>1 DEF Outputs
      <4>. QED
        BY <4>1, <4>2, <4>3 DEF Outputs
  <2>9. OutputsWritten(fs)'
    BY <1>0, <2>1, <2>3, NothingTyped DEF ProcessInv, OutputsWritten
  <2>10. SeqsBelow(fs)' /\ BatchesUnique(fs)'
    BY <1>0, <2>1 DEF ProcessInv, SeqsBelow, BatchesUnique, Found, Writing, Shown
  <2>11. EditRight(fs)' /\ EditWritten(fs)'
    BY <2>1, NothingTyped DEF EditRight, EditWritten
  <2>12. DiskInv(fs)'
    BY <1>0, <2>1
  <2>. QED
    BY <2>4, <2>5, <2>6, <2>7, <2>8, <2>9, <2>10, <2>11, <2>12 DEF Inv, ProcessInv
<1>. QED
  BY <1>1, <1>2

\* DeleteObsoleteFiles.
LEMMA ObsoleteStep ==
    ASSUME NEW D, NEW V, NEW outs, NEW base, NEW log \in Nat, NEW E,
           E = DeleteObsoleteFiles(D, V, outs, base, log, bgError), DiskInv(D), manifest \in Nat,
           Dir(D).current = manifest, manifest > 0
    PROVE  /\ DiskInv(E)
           /\ Files(E) = Files(D) /\ \A f \in Files(D) : Records(E, f) = Records(D, f)
           /\ Dir(E).names \subseteq Dir(D).names /\ Dir(E).current = Dir(D).current
           /\ Named(E) \subseteq Named(D)
           /\ Logged(E) \subseteq Logged(D) /\ Tabled(E) \subseteq Tabled(D)
           /\ \A n : NextsUpTo(D, n) => NextsUpTo(E, n)
           /\ \A n : LogsUpTo(D, n) => LogsUpTo(E, n)
           /\ Edits(E) = Edits(D)
           /\ \A m \in Nat : m >= log /\ LogFile(m) \in Dir(D).names => LogFile(m) \in Dir(E).names
           /\ \A t \in Nat : t \in Live(V, outs, base) /\ TableFile(t) \in Dir(D).names =>
                                 TableFile(t) \in Dir(E).names
<1>. DEFINE keep(f) == CASE f.kind = "log" -> f.num >= log
                         [] f.kind = "manifest" -> f.num >= manifest
                         [] f.kind = "table" -> f.num \in Live(V, outs, base)
            gone == {f \in Dir(D).names : ~keep(f)}
<1>1. CASE ~bgError
  <2>1. E = DeleteFiles(D, gone)
    BY <1>1 DEF DeleteObsoleteFiles, MayDelete
  <2>2. DescriptorFile(manifest) \notin gone
    <3>1. DescriptorFile(manifest).kind = "manifest" /\ DescriptorFile(manifest).num = manifest
      BY FileTypes
    <3>2. keep(DescriptorFile(manifest))
      BY <3>1
    <3>. QED
      BY <3>2
  <2>3. \A m \in Nat : m >= log => LogFile(m) \notin gone
    <3>1. ASSUME NEW m \in Nat, m >= log PROVE keep(LogFile(m))
      <4>1. LogFile(m).kind = "log" /\ LogFile(m).num = m
        BY FileTypes
      <4>. QED
        BY <3>1, <4>1
    <3>. QED
      BY <3>1
  <2>4. \A t \in Nat : t \in Live(V, outs, base) => TableFile(t) \notin gone
    <3>1. ASSUME NEW t \in Nat, t \in Live(V, outs, base) PROVE keep(TableFile(t))
      <4>1. TableFile(t).kind = "table" /\ TableFile(t).num = t
        BY FileTypes
      <4>. QED
        BY <3>1, <4>1
    <3>. QED
      BY <3>1
  <2>. HIDE DEF gone
  <2>5. /\ DiskInv(E)
        /\ Files(E) = Files(D) /\ \A f \in Files(D) : Records(E, f) = Records(D, f)
        /\ Dir(E).names = Dir(D).names \ gone /\ Dir(E).current = Dir(D).current
        /\ Named(E) \subseteq Named(D)
        /\ Logged(E) \subseteq Logged(D) /\ Tabled(E) \subseteq Tabled(D)
        /\ \A n : NextsUpTo(D, n) => NextsUpTo(E, n)
        /\ \A n : LogsUpTo(D, n) => LogsUpTo(E, n)
        /\ Edits(E) = Edits(D)
    BY <2>1, <2>2, DeleteStep
  <2>. QED
    BY <2>3, <2>4, <2>5
<1>2. CASE bgError
  <2>1. E = D
    BY <1>2 DEF DeleteObsoleteFiles, MayDelete
  <2>. QED
    BY <2>1
<1>3. MayDelete(bgError) \/ ~MayDelete(bgError)
  OBVIOUS
<1>. QED
  BY <1>1, <1>2

\* The last edit of the manifest in use is the one just synced.
LEMMA EditInstalled ==
    ASSUME NEW D, DiskTyped(D), Typed, Steps, ProcessInv(D), apply.step = "install"
    PROVE  /\ Dir(D).current = manifest /\ manifest > 0 /\ manifest \in Nat
           /\ Edits(D) = EditsIn(D, manifest) /\ Edits(D) # <<>> /\ LastEdit(D) = apply.edit
           /\ apply.edit \in EditRecord /\ phase \in {"opening", "up"} /\ toRecover = {}
           /\ apply.for \in {"open", "flush", "compaction"}
<1>1. /\ phase \in {"opening", "up"} /\ apply.for \in {"open", "flush", "compaction"} /\ toRecover = {}
      /\ apply.step # "none" /\ manifest \in Nat
  BY NothingTyped DEF Steps, Typed, TypedMemory, TypedVersion, TypedWork, ApplyRecord
<1>2. Dir(D).current = manifest /\ manifest > 0
  BY <1>1 DEF ProcessInv, Numbers
<1>3. EditsIn(D, manifest) # <<>> /\ EditsIn(D, manifest)[Len(EditsIn(D, manifest))] = apply.edit
  BY DEF ProcessInv, EditWritten
<1>4. apply.edit \in EditRecord
  BY DEF Typed, TypedWork, ApplyRecord
<1>5. apply.edit # TornEdit
  BY <1>4, EditsNotTorn
<1>6. Edits(D) = EditsIn(D, manifest)
  BY <1>2, <1>3, <1>5, EditsComplete DEF Complete, Last
<1>. QED
  BY <1>1, <1>2, <1>3, <1>4, <1>6 DEF LastEdit

\* The new version is current, and what is obsolete is deleted.
LEMMA InstallInv ==
    ASSUME Inv, Install
    PROVE  Inv'
<1>. DEFINE e == apply.edit
            V == (version \cup e.added) \ e.deleted
            outs == IF apply.for = "compaction" THEN pending \ {comp.out} ELSE pending
            base == IF apply.for = "compaction" THEN {} ELSE comp.base
<1>0. /\ DiskInv(fs) /\ DiskTyped(fs) /\ Typed /\ Steps /\ ProcessInv(fs)
      /\ Numbers(fs) /\ LogsGone(fs) /\ Outputs(fs) /\ OutputsWritten(fs) /\ InUse(fs)
      /\ SeqsBelow(fs) /\ BatchesUnique(fs) /\ EditRight(fs)
      /\ apply.step = "install"
  BY DEF Inv, DiskInv, ProcessInv, Install
<1>1. /\ version' = V /\ versionLog' = e.log /\ pending' = outs /\ apply' = NoApply /\ phase' = "up"
      /\ comp' = IF apply.for = "compaction" THEN NoCompaction ELSE comp
      /\ IF apply.for = "flush"
         THEN imm' = <<>> /\ hasImm' = FALSE /\ flush' = NoFlush
         ELSE imm' = imm /\ hasImm' = hasImm /\ flush' = flush
      /\ fs' = DeleteObsoleteFiles(fs, V, outs, base, e.log, bgError)
      /\ UNCHANGED <<mem, logNumber, nextFile, lastSequence, manifest, bgError, held, writer,
                     toRecover, recovered, written, safe, limbo>>
  BY DEF Install, recoveryVars, historyVars
<1>2. /\ Dir(fs).current = manifest /\ manifest > 0 /\ manifest \in Nat
      /\ LastEdit(fs) = e /\ Edits(fs) # <<>>
      /\ e \in EditRecord /\ phase \in {"opening", "up"} /\ toRecover = {}
      /\ apply.for \in {"open", "flush", "compaction"}
  BY <1>0, EditInstalled
<1>3. /\ e.log \in Nat /\ e.log <= logNumber /\ versionLog <= e.log
      /\ nextFile \in Nat /\ logNumber \in Nat /\ versionLog \in Nat
      /\ apply.for = "open" => e.deleted = {}
      /\ apply.for = "flush" => e.added = {flush.out} /\ e.deleted = {}
      /\ apply.for = "compaction" => e.added = {comp.out} /\ e.deleted = comp.inputs
  BY <1>0, <1>2 DEF EditRight, EditRecord, Typed, TypedMemory, TypedVersion
<1>4. /\ apply.for = "open" => phase = "opening" /\ Quiet
      /\ apply.for = "flush" => flush.step = "apply" /\ comp.step # "apply" /\ phase = "up"
      /\ apply.for = "compaction" => comp.step = "apply" /\ flush = NoFlush /\ phase = "up"
  BY <1>0, NothingTyped DEF Steps, Quiet
<1>5. /\ outs \subseteq pending
      /\ flush' = NoFlush
      /\ comp' = NoCompaction \/ (comp' = comp /\ comp.step # "apply" /\ outs = pending /\ apply.for = "flush")
      /\ comp'.base \subseteq comp.base /\ comp'.base = base
      /\ Range1(imm') \subseteq Range1(imm)
  <2>1. CASE apply.for = "open"
    BY <1>1, <1>4, <2>1, NothingTyped DEF Quiet
  <2>2. CASE apply.for = "flush"
    BY <1>1, <1>4, <2>2, EmptySeen
  <2>3. CASE apply.for = "compaction"
    BY <1>1, <1>4, <2>3, NothingTyped
  <2>. QED
    BY <1>2, <2>1, <2>2, <2>3
<1>6. ASSUME NEW t \in e.added
      PROVE  /\ t \in Nat /\ t \in 1 .. nextFile - 1 /\ FileExists(fs, TableFile(t))
             /\ TableFile(t) \in Files(fs)
             /\ ReadTable(fs, t) \subseteq Logged(fs) \cup Shown(fs)
             /\ \A b \in ReadTable(fs, t) : b.seq <= lastSequence
  BY <1>0, <1>2, AddingShown
<1>7. /\ Dir(fs).names \subseteq Files(fs)
      /\ \A t \in version : /\ t \in Nat /\ t \in 1 .. nextFile - 1 /\ FileExists(fs, TableFile(t))
                            /\ TableFile(t) \in Files(fs)
                            /\ \A b \in ReadTable(fs, t) : b.seq <= lastSequence
  <2>1. Dir(fs).names \subseteq Files(fs)
    BY <1>0, DirParts DEF DiskTyped, DirsTyped
  <2>2. \A t \in version : FileExists(fs, TableFile(t)) /\ t \in Nat /\ t \in 1 .. nextFile - 1
    BY <1>0, <1>2 DEF InUse, Typed, TypedVersion, Numbers
  <2>3. \A t \in version : TableFile(t) \in Files(fs)
    BY <2>1, <2>2 DEF FileExists
  <2>. QED
    BY <1>0, <1>2, <2>1, <2>2, <2>3 DEF SeqsBelow
<1>8. V \subseteq version \cup e.added
  OBVIOUS
<1>9. /\ DiskInv(fs')
      /\ Files(fs') = Files(fs) /\ \A f \in Files(fs) : Records(fs', f) = Records(fs, f)
      /\ Dir(fs').names \subseteq Dir(fs).names /\ Dir(fs').current = Dir(fs).current
      /\ Named(fs') \subseteq Named(fs)
      /\ Logged(fs') \subseteq Logged(fs) /\ Tabled(fs') \subseteq Tabled(fs)
      /\ \A n : NextsUpTo(fs, n) => NextsUpTo(fs', n)
      /\ \A n : LogsUpTo(fs, n) => LogsUpTo(fs', n)
      /\ Edits(fs') = Edits(fs)
      /\ \A m \in Nat : m >= e.log /\ LogFile(m) \in Dir(fs).names => LogFile(m) \in Dir(fs').names
      /\ \A t \in Nat : t \in Live(V, outs, base) /\ TableFile(t) \in Dir(fs).names =>
                           TableFile(t) \in Dir(fs').names
  <2>. DEFINE log == e.log
  <2>1. /\ log \in Nat /\ fs' = DeleteObsoleteFiles(fs, V, outs, base, log, bgError) /\ DiskInv(fs)
        /\ manifest \in Nat /\ Dir(fs).current = manifest /\ manifest > 0
    BY <1>0, <1>1, <1>2, <1>3
  <2>. HIDE DEF V, outs, base, log
  <2>2. /\ DiskInv(fs')
        /\ Files(fs') = Files(fs) /\ \A f \in Files(fs) : Records(fs', f) = Records(fs, f)
        /\ Dir(fs').names \subseteq Dir(fs).names /\ Dir(fs').current = Dir(fs).current
        /\ Named(fs') \subseteq Named(fs)
        /\ Logged(fs') \subseteq Logged(fs) /\ Tabled(fs') \subseteq Tabled(fs)
        /\ Edits(fs') = Edits(fs)
    BY <2>1, ObsoleteStep
  <2>3. /\ \A n : NextsUpTo(fs, n) => NextsUpTo(fs', n)
        /\ \A n : LogsUpTo(fs, n) => LogsUpTo(fs', n)
    BY <2>1, ObsoleteStep
  <2>4. /\ \A m \in Nat : m >= log /\ LogFile(m) \in Dir(fs).names => LogFile(m) \in Dir(fs').names
        /\ \A t \in Nat : t \in Live(V, outs, base) /\ TableFile(t) \in Dir(fs).names =>
                            TableFile(t) \in Dir(fs').names
    BY <2>1, ObsoleteStep
  <2>. QED
    BY <2>2, <2>3, <2>4 DEF log
<1>10. /\ \A n \in Nat : LogFile(n) \in Files(fs) => ReadLog(fs', n) = ReadLog(fs, n)
       /\ \A t \in Nat : TableFile(t) \in Files(fs) => ReadTable(fs', t) = ReadTable(fs, t)
  BY <1>9 DEF ReadLog, ReadTable
<1>. HIDE DEF V, outs, base
<1>11. Typed'
  <2>1. TypedMemory'
    <3>1. <<>> \in Seq(Batch)
      BY EmptySeq
    <3>. QED
      BY <1>0, <1>1, <3>1 DEF Typed, TypedMemory
  <2>2. TypedVersion'
    <3>1. version' \in SUBSET Nat
      BY <1>1, <1>6, <1>7, <1>8
    <3>2. pending' \in SUBSET Nat
      BY <1>0, <1>1, <1>5 DEF Typed, TypedVersion
    <3>. QED
      BY <1>0, <1>1, <1>3, <3>1, <3>2 DEF Typed, TypedVersion
  <2>3. TypedWork'
    <3>1. writer' = writer /\ flush' = NoFlush /\ apply' = NoApply /\ (comp' = NoCompaction \/ comp' = comp)
      BY <1>1, <1>5
    <3>. QED
      BY <1>0, <3>1, NothingTyped DEF Typed, TypedWork
  <2>4. TypedHistory'
    BY <1>0, <1>1 DEF Typed, TypedHistory
  <2>. QED
    BY <2>1, <2>2, <2>3, <2>4 DEF Typed
<1>12. Steps'
  <2>1. /\ apply'.step = "none" /\ apply'.for = "none" /\ flush'.step = "none" /\ comp'.step # "apply"
    BY <1>1, <1>5, NothingTyped
  <2>2. comp'.step = "none" => comp' = NoCompaction
    BY <1>0, <1>5 DEF Steps
  <2>3. ~hasImm' => imm' = <<>>
    BY <1>0, <1>1 DEF Steps
  <2>. QED
    BY <1>0, <1>1, <1>2, <1>5, <2>1, <2>2, <2>3 DEF Steps
<1>13. LogsGone(fs)'
  <2>1. \A m \in Nat : LogFile(m) \in Files(fs') \ Dir(fs').names => m < e.log
    <3>. SUFFICES ASSUME NEW m \in Nat, LogFile(m) \in Files(fs') \ Dir(fs').names PROVE m < e.log
      OBVIOUS
    <3>1. CASE LogFile(m) \in Dir(fs).names
      <4>1. ~(m >= e.log)
        BY <1>9, <3>1
      <4>. QED
        BY <1>3, <4>1
    <3>2. CASE LogFile(m) \notin Dir(fs).names
      <4>1. m < versionLog
        BY <1>0, <1>2, <1>9, <3>2 DEF LogsGone
      <4>. QED
        BY <1>3, <4>1
    <3>. QED
      BY <3>1, <3>2
  <2>2. LastEdit(fs') = e
    BY <1>2, <1>9 DEF LastEdit
  <2>3. e.log >= versionLog'
    BY <1>1, <1>3
  <2>. QED
    BY <1>1, <2>1, <2>2, <2>3 DEF LogsGone
<1>14. Numbers(fs)'
  <2>1. Found' = {} /\ Reading' = Reading
    BY <1>1 DEF Found, Reading
  <2>2. version' \cup pending' \cup comp'.base \cup Reading \subseteq 1 .. nextFile - 1
    BY <1>0, <1>1, <1>2, <1>5, <1>6, <1>7, <1>8 DEF Numbers
  <2>. QED
    BY <1>0, <1>1, <1>2, <1>3, <1>9, <2>1, <2>2 DEF Numbers
<1>15. Outputs(fs)'
  <2>1. flush'.step = "none" /\ flush'.out = 0
    BY <1>5 DEF NoFlush
  <2>2. pending' \cap version' = {}
    <3>1. CASE apply.for = "open"
      BY <1>1, <1>4, <1>5, <3>1 DEF Quiet
    <3>2. CASE apply.for = "flush"
      BY <1>0, <1>1, <1>3, <1>4, <1>5, <1>8, <3>2 DEF Outputs
    <3>3. CASE apply.for = "compaction"
      BY <1>0, <1>1, <1>3, <1>4, <1>5, <1>8, <3>3 DEF Outputs, outs
    <3>. QED
      BY <1>2, <3>1, <3>2, <3>3
  <2>3. ASSUME comp'.step # "none"
        PROVE  /\ comp'.out \in pending' /\ comp'.out # flush'.out
               /\ comp'.inputs \subseteq version' /\ comp'.out \notin comp'.base
               /\ FileExists(fs', TableFile(comp'.out))
               /\ Cardinality(comp'.inputs) = 2
               /\ comp'.out \notin Named(fs')
    <3>1. comp' = comp /\ comp.step \in {"running", "written"} /\ outs = pending /\ apply.for = "flush"
      BY <1>0, <1>5, <2>3, NothingTyped DEF Typed, TypedWork, CompactionRecord
    <3>2. /\ comp.out \in pending /\ comp.inputs \subseteq version /\ comp.out \notin comp.base
          /\ FileExists(fs, TableFile(comp.out)) /\ Cardinality(comp.inputs) = 2
          /\ comp.out \notin Named(fs) /\ comp.out \in Nat
      BY <1>0, <3>1 DEF Outputs, Typed, TypedWork, CompactionRecord
    <3>3. comp.out \in 1 .. nextFile - 1
      BY <1>0, <1>2, <3>2 DEF Numbers
    <3>4. comp.out # 0
      <4>1. \A k \in 1 .. nextFile - 1 : k # 0
        BY <1>3
      <4>. QED
        BY <3>3, <4>1
    <3>5. comp.inputs \subseteq V
      BY <1>3, <3>1, <3>2 DEF V
    <3>6. FileExists(fs', TableFile(comp.out))
      BY <1>9, <3>1, <3>2 DEF Live, FileExists
    <3>. QED
      BY <1>1, <1>9, <2>1, <3>1, <3>2, <3>4, <3>5, <3>6
  <2>. QED
    BY <2>1, <2>2, <2>3 DEF Outputs
<1>16. OutputsWritten(fs)'
  <2>1. flush'.step = "none"
    BY <1>5, NothingTyped
  <2>2. ASSUME comp'.step # "none"
        PROVE  /\ comp' = comp /\ comp.step # "apply"
               /\ ReadTable(fs', comp.out) = ReadTable(fs, comp.out)
               /\ Records(fs', TableFile(comp.out)) = Records(fs, TableFile(comp.out))
               /\ UNION {ReadTable(fs', t) : t \in comp.inputs} = UNION {ReadTable(fs, t) : t \in comp.inputs}
    <3>1. comp' = comp /\ comp.step # "apply"
      BY <1>5, <2>2, NothingTyped
    <3>2. TableFile(comp.out) \in Files(fs) /\ comp.inputs \subseteq version
      BY <1>0, <1>7, <2>2, <3>1 DEF Outputs, FileExists
    <3>3. \A t \in comp.inputs : ReadTable(fs', t) = ReadTable(fs, t)
      BY <1>7, <1>10, <3>2
    <3>4. {ReadTable(fs', t) : t \in comp.inputs} = {ReadTable(fs, t) : t \in comp.inputs}
      BY <3>3
    <3>. QED
      BY <1>9, <3>1, <3>2, <3>4 DEF ReadTable
  <2>. QED
    BY <1>0, <1>5, <2>1, <2>2, NothingTyped DEF OutputsWritten
<1>17. InUse(fs)'
  <2>1. Found' = {} /\ Reading' = Reading
    BY <1>1 DEF Found, Reading
  <2>2. \A t \in version' : t \in Nat /\ FileExists(fs, TableFile(t))
    BY <1>1, <1>6, <1>7, <1>8
  <2>3. \A t \in comp'.base \cup Reading : t \in Nat /\ FileExists(fs, TableFile(t))
    BY <1>0, <1>2, <1>5 DEF InUse, Typed, TypedVersion, TypedWork, CompactionRecord, Reading
  <2>4. version' \cup comp'.base \cup Reading \subseteq Live(V, outs, base)
    BY <1>1, <1>5 DEF Live, Reading
  <2>5. FileExists(fs', LogFile(logNumber))
    BY <1>0, <1>2, <1>3, <1>9 DEF InUse, FileExists
  <2>. QED
    BY <1>1, <1>9, <2>1, <2>2, <2>3, <2>4, <2>5 DEF InUse, FileExists
<1>18. SeqsBelow(fs)'
  <2>1. \A t \in version' \cup Named(fs') : TableFile(t) \in Files(fs') =>
             \A b \in ReadTable(fs', t) : b.seq <= lastSequence
    <3>1. \A t \in version' : \A b \in ReadTable(fs', t) : b.seq <= lastSequence
      BY <1>1, <1>6, <1>7, <1>8, <1>10
    <3>2. \A t \in Named(fs') : TableFile(t) \in Files(fs') =>
             \A b \in ReadTable(fs', t) : b.seq <= lastSequence
      BY <1>0, <1>2, <1>9, <1>10 DEF SeqsBelow, Named
    <3>. QED
      BY <3>1, <3>2
  <2>2. Found' = {} /\ Writing' = Writing
    BY <1>1 DEF Found, Writing
  <2>3. \A b \in Range1(mem) \cup Range1(imm') : b.seq <= lastSequence
    BY <1>0, <1>2, <1>5 DEF SeqsBelow
  <2>4. \A m \in Nat \ toRecover : LogFile(m) \in Files(fs') =>
             \A b \in ReadLog(fs', m) : b.seq <= lastSequence \/ (m = logNumber /\ b \in Writing)
    BY <1>0, <1>2, <1>9, <1>10 DEF SeqsBelow
  <2>. QED
    BY <1>1, <2>1, <2>2, <2>3, <2>4 DEF SeqsBelow
<1>19. BatchesUnique(fs)'
  <2>1. Writing' = Writing
    BY <1>1 DEF Writing
  <2>2. \A t \in version' : ReadTable(fs', t) \subseteq Logged(fs) \cup Shown(fs)
    <3>1. \A t \in version : ReadTable(fs, t) \subseteq Shown(fs)
      BY DEF Shown
    <3>2. \A t \in version' : t \in Nat /\ TableFile(t) \in Files(fs)
                              /\ ReadTable(fs, t) \subseteq Logged(fs) \cup Shown(fs)
      BY <1>1, <1>6, <1>7, <1>8, <3>1
    <3>. QED
      BY <1>10, <3>2
  <2>3. Shown(fs)' \subseteq Logged(fs) \cup Shown(fs)
    <3>1. Range1(mem) \cup Range1(imm') \subseteq Shown(fs)
      BY <1>5 DEF Shown
    <3>. QED
      BY <1>1, <2>2, <3>1 DEF Shown
  <2>4. Logged(fs') \cup Tabled(fs') \cup Shown(fs)' \cup Writing
          \subseteq Logged(fs) \cup Tabled(fs) \cup Shown(fs) \cup Writing
    BY <1>9, <2>3
  <2>. QED
    BY <1>0, <2>1, <2>4 DEF BatchesUnique, Unique
<1>20. RecoveredRight(fs)'
  BY <1>1, <1>2 DEF RecoveredRight, Found
<1>21. EditRight(fs)' /\ EditWritten(fs)'
  BY <1>1, NothingTyped DEF EditRight, EditWritten
<1>. QED
  BY <1>9, <1>11, <1>12, <1>13, <1>14, <1>15, <1>16, <1>17, <1>18, <1>19, <1>20, <1>21 DEF Inv, ProcessInv

\* The disk after NewDB: one manifest with one edit, and nothing else.
LEMMA NewDBDisk ==
    ASSUME NEW D, DiskInv(D), Dir(D).current = 0, NEW E, NEW e, e \in EditRecord,
           E = SetCurrentFile(AddRecords(NewWritableFile(D, DescriptorFile(1)), DescriptorFile(1),
                                         <<e>>), 1)
    PROVE  /\ DiskTyped(E) /\ DirsRight(E) /\ FirstDir(E)
           /\ Files(E) = {DescriptorFile(1)} /\ Currents(E) = {1} /\ EditsIn(E, 1) = <<e>>
<1>. DEFINE f == DescriptorFile(1)
            u == <<e>>
            D1 == NewWritableFile(D, f)
            D2 == AddRecords(D1, f, u)
<1>0. DiskTyped(D) /\ DirsRight(D) /\ FirstDir(D) /\ Files(D) \subseteq {f} /\ f \in File
  BY FileTypes DEF DiskInv, FirstDir
<1>1. /\ DiskTyped(D1) /\ Files(D1) = Files(D) \cup {f} /\ Records(D1, f) = <<>>
      /\ Dir(D1).names = Dir(D).names \cup {f} /\ Dir(D1).current = Dir(D).current
      /\ Dirs(D1) = Dirs(D) \cup {Dir(D1)}
  BY <1>0, NewFileDisk
<1>2. u \in Seq(EditRecord \cup {TornEdit})
  OBVIOUS
<1>. HIDE DEF u, D1
<1>3. /\ DiskTyped(D2) /\ Files(D2) = Files(D1) /\ EditsIn(D2, 1) = EditsIn(D1, 1) \o u
      /\ Dir(D2) = Dir(D1) /\ Dirs(D2) = Dirs(D1)
  <2>1. f \in Files(D1) /\ 1 \in Nat
    BY <1>1
  <2>. QED
    BY <1>1, <1>2, <2>1, DescriptorAppended
<1>4. EditsIn(D2, 1) = u
  <2>1. EditsIn(D1, 1) = <<>>
    BY <1>1 DEF EditsIn
  <2>. QED
    BY <1>2, <1>3, <2>1, ConcatEmptySeq
<1>5. PICK F : F = D2
  OBVIOUS
<1>6. /\ DiskTyped(E)
      /\ Files(E) = Files(F) /\ \A g \in Files(F) : E.files[g] = F.files[g]
      /\ Dir(E).names = Dir(F).names /\ Dir(E).current = 1
      /\ Dirs(E) = Dirs(F) \cup {Dir(E)}
  <2>1. E = SetCurrentFile(F, 1)
    BY <1>5 DEF u, D1
  <2>2. DiskTyped(F) /\ 1 \in Nat
    BY <1>3, <1>5
  <2>. HIDE DEF D2
  <2>. QED
    BY <2>1, <2>2, SetCurrentDisk, SMTT(30)
<1>. HIDE DEF D2
<1>7. Files(E) = {f}
  BY <1>0, <1>1, <1>3, <1>5, <1>6
<1>8. EditsIn(E, 1) = u
  <2>1. Records(E, f) = Records(F, f)
    BY <1>6, <1>7 DEF Records
  <2>. QED
    BY <1>4, <1>5, <2>1 DEF EditsIn
<1>9. \A d \in Dirs(E) : d.names \subseteq {f} /\ (d = Dir(E) \/ d.current = 0)
  <2>1. \A d \in Dirs(E) : d.names \subseteq {f}
    BY <1>6, <1>7 DEF DiskTyped, DirsTyped
  <2>2. \A d \in Dirs(D) : d.current = 0
    <3>1. \A d \in Dirs(D) : d.current \in Nat /\ d.current <= 0
      BY <1>0, DirParts DEF DirsRight, DiskTyped
    <3>. QED
      BY <3>1
  <2>. QED
    BY <1>1, <1>3, <1>5, <1>6, <2>1, <2>2
<1>10. DirsRight(E) /\ FirstDir(E)
  BY <1>1, <1>3, <1>5, <1>6, <1>9 DEF DirsRight, FirstDir
<1>11. Currents(E) = {1}
  <2>1. Dir(E) \in Dirs(E)
    BY <1>6
  <2>. QED
    BY <1>6, <1>9, <2>1 DEF Currents
<1>. QED
  BY <1>6, <1>7, <1>8, <1>10, <1>11 DEF u

\* NewDB makes the first manifest.
LEMMA NewDBInv ==
    ASSUME Inv, NewDB
    PROVE  Inv'
<1>. DEFINE e == Edit({}, {}, 0, 2, 0)
            u == <<e>>
<1>0. /\ DiskInv(fs) /\ Typed /\ Steps /\ ProcessInv(fs) /\ phase = "down" /\ Dir(fs).current = 0
      /\ fs' = SetCurrentFile(AddRecords(NewWritableFile(fs, DescriptorFile(1)), DescriptorFile(1),
                                         <<e>>), 1)
      /\ UNCHANGED <<phase, mem, imm, hasImm, logNumber, version, nextFile, lastSequence, versionLog,
                     manifest, pending, bgError, held, writer, flush, comp, apply, toRecover, recovered,
                     written, safe, limbo>>
  BY DEF Inv, NewDB, FirstManifest, memoryVars, versionVars, recoveryVars, historyVars
<1>1. e \in EditRecord /\ e.added = {} /\ e.log = 0 /\ e.next = 2 /\ e.last = 0
  BY DEF Edit, EditRecord
<1>. HIDE DEF e
<1>2. /\ DiskTyped(fs') /\ DirsRight(fs') /\ FirstDir(fs')
      /\ Files(fs') = {DescriptorFile(1)} /\ Currents(fs') = {1} /\ EditsIn(fs', 1) = u
  BY <1>0, <1>1, NewDBDisk
<1>3. DOMAIN u = {1} /\ u[1] = e
  OBVIOUS
<1>. HIDE DEF u
<1>4. /\ \A m \in Nat : LogFile(m) \notin Files(fs')
      /\ \A t \in Nat : TableFile(t) \notin Files(fs')
  BY <1>2, FilesDiffer
<1>5. EditsRight(fs')
  <2>1. LogsBelow(fs', 0, 0)
    BY <1>4 DEF LogsBelow
  <2>. QED
    BY <1>1, <1>2, <1>3, <2>1 DEF EditsRight
<1>6. PairsRight(fs')
  BY <1>1, <1>2, <1>3 DEF PairsRight
<1>7. DiskInv(fs')
  BY <1>2, <1>5, <1>6 DEF DiskInv
<1>8. /\ Quiet /\ apply = NoApply /\ version = {} /\ recovered = {} /\ toRecover = {}
  BY <1>0 DEF Steps
<1>9. Typed'
  BY <1>0 DEF Typed, TypedMemory, TypedVersion, TypedWork, TypedHistory
<1>10. Steps'
  BY <1>0 DEF Steps, Quiet
<1>11. Numbers(fs)' /\ LogsGone(fs)' /\ InUse(fs)' /\ SeqsBelow(fs)'
  BY <1>0, <1>4 DEF Numbers, LogsGone, InUse, SeqsBelow
<1>12. Outputs(fs)' /\ OutputsWritten(fs)'
  BY <1>0, <1>8, NothingTyped DEF Quiet, Outputs, OutputsWritten
<1>13. BatchesUnique(fs)'
  <2>1. Shown(fs)' = {} /\ Writing' = {}
    BY <1>0, <1>8, EmptySeen, NothingTyped DEF Quiet, Shown, Writing
  <2>2. Logged(fs') = {} /\ Tabled(fs') = {}
    BY <1>4 DEF Logged, Tabled, Named
  <2>. QED
    BY <2>1, <2>2 DEF BatchesUnique, Unique
<1>14. RecoveredRight(fs)'
  BY <1>0, <1>8 DEF RecoveredRight, Found
<1>15. EditRight(fs)' /\ EditWritten(fs)'
  BY <1>0, <1>8, NothingTyped DEF EditRight, EditWritten
<1>. QED
  BY <1>7, <1>9, <1>10, <1>11, <1>12, <1>13, <1>14, <1>15 DEF Inv, ProcessInv

\* What the reader of a manifest leaves out is part of an edit.
LEMMA CompleteDrops ==
    ASSUME NEW S, NEW s \in Seq(S), NEW k \in DOMAIN s, k \notin DOMAIN Complete(s)
    PROVE  s[k] = TornEdit
<1>1. DOMAIN s = 1 .. Len(s) /\ Len(s) \in Nat
  BY LenProperties
<1>2. s # <<>> /\ Last(s) = TornEdit /\ Complete(s) = Front(s)
  BY DEF Complete
<1>. DEFINE n == Len(s) - 1
            t == SubSeq(s, 1, n)
<1>3. n \in Nat /\ 1 .. n \subseteq DOMAIN s
  BY <1>1, <1>2, EmptySeq
<1>4. Complete(s) = t
  BY <1>2 DEF Front
<1>5. \A j \in DOMAIN s : j \in 1 .. n \/ j = Len(s)
  BY <1>1
<1>. HIDE DEF n
<1>6. \A i \in 1 .. n : s[i] \in S
  BY <1>3, ElementOfSeq
<1>7. t \in Seq(S) /\ Len(t) = IF 1 <= n THEN n - 1 + 1 ELSE 0
  BY <1>3, <1>6, SubSeqProperties
<1>8. DOMAIN t = 1 .. n
  <2>1. Len(t) = n
    BY <1>3, <1>7
  <2>. QED
    BY <1>7, <2>1, LenProperties
<1>. QED
  BY <1>2, <1>4, <1>5, <1>8 DEF Last

\* A manifest that can be read: its last edit is ahead of everything.
LEMMA LastEditFacts ==
    ASSUME NEW D, DiskInv(D), Readable(D)
    PROVE  /\ Dir(D).current \in Currents(D) /\ Dir(D).current \in Nat /\ Dir(D).current > 0
           /\ LastEdit(D) \in EditRecord /\ LastEdit(D).numbers
           /\ Dir(D).current < LastEdit(D).next /\ LastEdit(D).log < LastEdit(D).next
           /\ LogsBelow(D, LastEdit(D).log, LastEdit(D).last)
           /\ \A t \in Named(D) : TableBelow(D, t, LastEdit(D).next, LastEdit(D).last)
           /\ NextsUpTo(D, LastEdit(D).next)
           /\ TablesOf(Edits(D)) \subseteq Named(D)
<1>. DEFINE c == Dir(D).current
            s == EditsIn(D, c)
            g == Edits(D)
            l == Len(g)
            S == EditRecord \cup {TornEdit}
<1>0. /\ DiskTyped(D) /\ DirsRight(D) /\ EditsRight(D) /\ PairsRight(D)
      /\ c # 0 /\ g # <<>> /\ TornEdit \notin Range1(g) /\ g[l].numbers
  BY DEF DiskInv, Readable
<1>1. c \in Currents(D) /\ c \in Nat /\ c > 0 /\ s \in Seq(S) /\ g = Complete(s)
  BY <1>0, CurrentOfDir, CurrentFacts, EditsComplete
<1>2. /\ g \in Seq(S) /\ Prefix(g, s) /\ DOMAIN g = 1 .. l /\ l \in Nat /\ l >= 1
      /\ DOMAIN s = 1 .. Len(s) /\ Len(s) \in Nat
  <2>1. g \in Seq(S) /\ Prefix(g, s)
    BY <1>1, CompletePrefix
  <2>. QED
    BY <1>0, <1>1, <2>1, LenProperties, EmptySeq
<1>3. \A k \in DOMAIN s : k \in DOMAIN g \/ s[k] = TornEdit
  BY <1>1, CompleteDrops
<1>. HIDE DEF g, s, c
<1>4. /\ l \in DOMAIN g /\ l \in DOMAIN s /\ s[l] = g[l] /\ g[l] = LastEdit(D)
      /\ g[l] \in EditRecord /\ Numbered(g[l])
  <2>1. l \in DOMAIN g
    BY <1>2
  <2>2. l \in DOMAIN s /\ s[l] = g[l]
    BY <1>2, <2>1 DEF Prefix
  <2>3. g[l] \in S /\ g[l] # TornEdit
    BY <1>0, <1>2, <2>1, ElementOfSeq DEF Range1
  <2>4. g[l] = LastEdit(D)
    BY DEF LastEdit, g
  <2>. QED
    BY <1>0, <2>1, <2>2, <2>3, <2>4 DEF Numbered
<1>. HIDE DEF l
<1>5. /\ c < g[l].next /\ g[l].log < g[l].next /\ LogsBelow(D, g[l].log, g[l].last)
  BY <1>0, <1>1, <1>4 DEF EditsRight, s
<1>6. ASSUME NEW d \in Currents(D), NEW k \in DOMAIN EditsIn(D, d), EditsIn(D, d)[k] # TornEdit
      PROVE  Before(d, k, c, l)
  <2>1. d \in Nat /\ d <= c
    BY <1>0, CurrentFacts DEF c
  <2>2. CASE d = c
    <3>1. k \in DOMAIN g
      BY <1>3, <1>6, <2>2 DEF s
    <3>2. k <= l
      BY <1>2, <3>1
    <3>. QED
      BY <2>2, <3>2 DEF Before
  <2>3. CASE d # c
    BY <1>1, <2>1, <2>3 DEF Before
  <2>. QED
    BY <2>2, <2>3
<1>7. ASSUME NEW d \in Currents(D), NEW k \in DOMAIN EditsIn(D, d), EditsIn(D, d)[k] # TornEdit
      PROVE  /\ \A t \in EditsIn(D, d)[k].added : TableBelow(D, t, g[l].next, g[l].last)
             /\ EditsIn(D, d)[k].numbers => EditsIn(D, d)[k].next <= g[l].next
  <2>1. Before(d, k, c, l)
    BY <1>6, <1>7
  <2>2. l \in DOMAIN EditsIn(D, c) /\ EditsIn(D, c)[l] = g[l]
    BY <1>4 DEF s
  <2>. QED
    BY <1>0, <1>1, <1>4, <1>7, <2>1, <2>2 DEF PairsRight
<1>8. \A t \in Named(D) : TableBelow(D, t, g[l].next, g[l].last)
  <2>. SUFFICES ASSUME NEW t \in Named(D) PROVE TableBelow(D, t, g[l].next, g[l].last)
    OBVIOUS
  <2>1. PICK d \in Currents(D) : \E k \in DOMAIN EditsIn(D, d) :
          EditsIn(D, d)[k] # TornEdit /\ t \in EditsIn(D, d)[k].added
    BY DEF Named
  <2>. QED
    BY <1>7, <2>1
<1>9. NextsUpTo(D, g[l].next)
  BY <1>7 DEF NextsUpTo, Numbered
<1>10. TablesOf(g) \subseteq Named(D)
  <2>. SUFFICES ASSUME NEW t \in TablesOf(g) PROVE t \in Named(D)
    OBVIOUS
  <2>1. PICK i \in DOMAIN g : t \in g[i].added
    BY DEF TablesOf
  <2>2. i \in DOMAIN s /\ s[i] = g[i] /\ g[i] # TornEdit /\ g[i] \in S
    BY <1>0, <1>2, <2>1, ElementOfSeq DEF Prefix, Range1
  <2>3. g[i] \in EditRecord
    BY <2>2
  <2>4. t \in Nat
    BY <2>1, <2>3 DEF EditRecord
  <2>. QED
    BY <1>1, <2>1, <2>2, <2>4 DEF Named, s
<1>. QED
  BY <1>1, <1>4, <1>5, <1>8, <1>9, <1>10 DEF g, c, Numbered

\* An open reads the manifest.
LEMMA RecoverManifestInv ==
    ASSUME Inv, RecoverManifest
    PROVE  Inv'
<1>. DEFINE edits == Edits(fs)
            last == edits[Len(edits)]
<1>0. /\ DiskInv(fs) /\ DiskTyped(fs) /\ Typed /\ Steps /\ ProcessInv(fs)
      /\ phase = "down" /\ Readable(fs) /\ phase' = "recovering"
      /\ version' = TablesOf(edits) /\ manifest' = last.next /\ nextFile' = last.next + 1
      /\ lastSequence' = last.last /\ versionLog' = last.log
      /\ toRecover' = LogsFrom(fs, last.log)
      /\ UNCHANGED <<fs, mem, imm, hasImm, logNumber, held, pending, bgError, writer, flush, comp, apply,
                     recovered, written, safe, limbo>>
  BY DEF Inv, DiskInv, RecoverManifest, memoryVars, historyVars
<1>1. /\ Dir(fs).current \in Nat /\ Dir(fs).current > 0 /\ Dir(fs).current < last.next
      /\ last \in EditRecord /\ last.log < last.next /\ LastEdit(fs) = last
      /\ LogsBelow(fs, last.log, last.last)
      /\ \A t \in Named(fs) : TableBelow(fs, t, last.next, last.last)
      /\ NextsUpTo(fs, last.next)
      /\ TablesOf(edits) \subseteq Named(fs)
      /\ edits # <<>>
  BY <1>0, LastEditFacts DEF LastEdit, Readable
<1>2. last.next \in Nat /\ last.log \in Nat /\ last.last \in Nat
  BY <1>1 DEF EditRecord
<1>3. /\ Quiet /\ apply = NoApply /\ recovered = {}
  BY <1>0 DEF Steps
<1>. HIDE DEF edits, last
<1>4. \A m \in Nat : m \in toRecover' <=> FileExists(fs, LogFile(m)) /\ m >= last.log
  <2>. SUFFICES ASSUME NEW m \in Nat
                PROVE  m \in LogsFrom(fs, last.log) <=> LogFile(m) \in Dir(fs).names /\ m >= last.log
    BY <1>0 DEF FileExists
  <2>1. Dir(fs).names \subseteq File
    BY <1>0, DirParts DEF DiskTyped
  <2>2. LogFile(m).kind = "log" /\ LogFile(m).num = m
    BY FileTypes
  <2>3. ASSUME m \in LogsFrom(fs, last.log) PROVE LogFile(m) \in Dir(fs).names /\ m >= last.log
    <3>1. PICK f \in Dir(fs).names : f.kind = "log" /\ f.num >= last.log /\ m = f.num
      BY <2>3 DEF LogsFrom
    <3>2. f = LogFile(m)
      BY <2>1, <3>1, FileNames
    <3>. QED
      BY <3>1, <3>2
  <2>4. ASSUME LogFile(m) \in Dir(fs).names, m >= last.log PROVE m \in LogsFrom(fs, last.log)
    BY <2>2, <2>4 DEF LogsFrom
  <2>. QED
    BY <2>3, <2>4
<1>5. toRecover' \subseteq Nat
  <2>1. \A f \in Dir(fs).names : f.num \in Nat
    BY <1>0, DirParts, FileNames DEF DiskTyped
  <2>. QED
    BY <1>0, <2>1 DEF LogsFrom
<1>6. \A m \in Nat : LogFile(m) \in Files(fs) \ Dir(fs).names => m < last.log
  BY <1>0, <1>1 DEF ProcessInv, LogsGone
<1>7. \A m \in Nat : LogFile(m) \in Files(fs) => m < last.log \/ m \in toRecover'
  <2>. SUFFICES ASSUME NEW m \in Nat, LogFile(m) \in Files(fs), m \notin toRecover' PROVE m < last.log
    OBVIOUS
  <2>1. CASE LogFile(m) \in Dir(fs).names
    <3>1. ~(m >= last.log)
      BY <1>4, <2>1 DEF FileExists
    <3>. QED
      BY <1>2, <3>1
  <2>2. CASE LogFile(m) \notin Dir(fs).names
    BY <1>6, <2>2
  <2>. QED
    BY <2>1, <2>2
<1>8. Typed'
  <2>1. TypedMemory' /\ TypedHistory'
    BY <1>0 DEF Typed, TypedMemory, TypedHistory
  <2>2. TypedVersion'
    <3>1. version' \in SUBSET Nat
      BY <1>0, <1>1 DEF Named
    <3>2. nextFile' \in Nat /\ nextFile' > 0 /\ manifest' \in Nat /\ lastSequence' \in Nat /\ versionLog' \in Nat
      BY <1>0, <1>2
    <3>. QED
      BY <1>0, <1>5, <3>1, <3>2 DEF Typed, TypedVersion
  <2>3. TypedWork'
    BY <1>0 DEF Typed, TypedWork
  <2>. QED
    BY <2>1, <2>2, <2>3 DEF Typed
<1>9. Steps'
  <2>1. Quiet' /\ apply' = NoApply
    BY <1>0, <1>3 DEF Quiet
  <2>2. writer' = NoWrite /\ flush' = NoFlush /\ comp' = NoCompaction /\ imm' = <<>>
    BY <2>1 DEF Quiet
  <2>. QED
    BY <1>0, <2>1, <2>2, NothingTyped DEF Steps
<1>10. LogsGone(fs)'
  <2>1. LastEdit(fs').log >= versionLog'
    BY <1>0, <1>1, <1>2
  <2>. QED
    BY <1>0, <1>6, <2>1 DEF LogsGone
<1>11. /\ Found' = {} /\ comp'.base = {} /\ Reading' = {} /\ Writing' = {} /\ pending' = {}
       /\ mem' = <<>> /\ imm' = <<>> /\ flush' = NoFlush /\ comp' = NoCompaction /\ apply' = NoApply
       /\ apply'.step # "install" /\ writer' = NoWrite
  BY <1>0, <1>3, NothingTyped DEF Quiet, Found, Reading, Writing
<1>12. \A t \in Named(fs) : t \in Nat /\ t > 0 /\ t < last.next + 1 /\ t \in 1 .. (last.next + 1) - 1
  <2>. TAKE t \in Named(fs)
  <2>1. t \in Nat /\ t > 0 /\ t < last.next
    BY <1>1 DEF TableBelow, Named
  <2>. QED
    BY <1>2, <2>1
<1>13. NextsUpTo(fs, last.next + 1)
  <2>. SUFFICES ASSUME NEW d \in Currents(fs), NEW k \in DOMAIN EditsIn(fs, d),
                       Numbered(EditsIn(fs, d)[k])
                PROVE  EditsIn(fs, d)[k].next <= last.next + 1
    BY DEF NextsUpTo
  <2>1. EditsIn(fs, d)[k] \in EditRecord
    BY <1>0, CurrentFacts DEF Numbered, DiskInv
  <2>2. EditsIn(fs, d)[k].next \in Nat
    BY <2>1 DEF EditRecord
  <2>3. EditsIn(fs, d)[k].next <= last.next
    BY <1>1 DEF NextsUpTo
  <2>. QED
    BY <1>2, <2>2, <2>3
<1>14. Numbers(fs)'
  <2>1. \A m \in Nat : LogFile(m) \in Files(fs) => m < last.next + 1 \/ m \in toRecover'
    <3>1. \A m \in Nat : m < last.log => m < last.next + 1
      BY <1>1, <1>2
    <3>. QED
      BY <1>7, <3>1
  <2>2. /\ last.next < last.next + 1 /\ Dir(fs).current <= last.next /\ last.log < last.next + 1
    BY <1>1, <1>2
  <2>3. version' \subseteq 1 .. (last.next + 1) - 1
    BY <1>0, <1>1, <1>12
  <2>. QED
    BY <1>0, <1>1, <1>11, <1>12, <1>13, <2>1, <2>2, <2>3 DEF Numbers
<1>15. Outputs(fs)' /\ OutputsWritten(fs)' /\ EditRight(fs)' /\ EditWritten(fs)'
  BY <1>11, NothingTyped DEF Outputs, OutputsWritten, EditRight, EditWritten
<1>16. InUse(fs)'
  <2>1. \A t \in version' : FileExists(fs', TableFile(t))
    BY <1>0 DEF Readable, edits
  <2>. QED
    BY <1>0, <1>11, <2>1 DEF InUse
<1>17. SeqsBelow(fs)'
  <2>1. \A t \in version' \cup Named(fs') : TableFile(t) \in Files(fs') =>
             \A b \in ReadTable(fs', t) : b.seq <= lastSequence'
    BY <1>0, <1>1 DEF TableBelow
  <2>2. \A m \in Nat \ toRecover' : LogFile(m) \in Files(fs') =>
             \A b \in ReadLog(fs', m) : b.seq <= lastSequence'
    BY <1>0, <1>1, <1>7 DEF LogsBelow
  <2>. QED
    BY <1>11, <2>1, <2>2, EmptySeen DEF SeqsBelow
<1>18. BatchesUnique(fs)'
  <2>1. Shown(fs)' \subseteq Tabled(fs)
    <3>1. \A t \in version' : t \in Named(fs) /\ TableFile(t) \in Files(fs)
      <4>1. Dir(fs).names \subseteq Files(fs)
        BY <1>0, DirParts DEF DiskTyped, DirsTyped
      <4>. QED
        BY <1>0, <1>1, <4>1 DEF Readable, FileExists, edits
    <3>2. \A t \in version' : ReadTable(fs, t) \subseteq Tabled(fs)
      BY <3>1 DEF Tabled
    <3>3. Shown(fs)' = UNION {ReadTable(fs, t) : t \in version'}
      BY <1>0, <1>11, EmptySeen DEF Shown
    <3>. QED
      BY <3>2, <3>3
  <2>. QED
    BY <1>0, <1>11, <2>1 DEF ProcessInv, BatchesUnique, Unique
<1>19. RecoveredRight(fs)'
  BY <1>0, <1>4, <1>5, <1>11 DEF RecoveredRight
<1>20. DiskInv(fs)'
  BY <1>0
<1>. QED
  BY <1>8, <1>9, <1>10, <1>14, <1>15, <1>16, <1>17, <1>18, <1>19, <1>20 DEF Inv, ProcessInv

-----------------------------------------------------------------------------
(* Logs are recovered.                                                     *)

\* A finite set of numbers has a largest one.
Greatest(T, m) == m \in T /\ \A k \in T : m >= k

LEMMA FiniteMax ==
    ASSUME NEW T \in SUBSET Nat, IsFiniteSet(T), T # {}
    PROVE  \E m : Greatest(T, m)
<1>. DEFINE Bad == {S \in FiniteSubsetsOf(Nat) : S # {} /\ ~ \E m : Greatest(S, m)}
<1>1. SUFFICES ASSUME Bad # {} PROVE FALSE
  <2>1. T \in FiniteSubsetsOf(Nat)
    BY DEF FiniteSubsetsOf
  <2>. QED
    BY <1>1, <2>1
<1>2. PICK S \in Bad : \A U \in Bad : ~(<<U, S>> \in StrictSubsetOrdering(Nat))
  <2>1. Bad \subseteq FiniteSubsetsOf(Nat)
    OBVIOUS
  <2>. HIDE DEF Bad
  <2>. QED
    BY <1>1, <2>1, FS_StrictSubsetOrderingWellFounded, WFMin
<1>3. S \in SUBSET Nat /\ IsFiniteSet(S) /\ S # {} /\ ~ \E m : Greatest(S, m)
  BY DEF FiniteSubsetsOf
<1>4. PICK a \in S : TRUE
  BY <1>3
<1>. DEFINE U == S \ {a}
<1>5. a \in Nat /\ U \subseteq S /\ U \subseteq Nat /\ U # S /\ S = U \cup {a}
  BY <1>3, <1>4
<1>6. IsFiniteSet(U)
  BY <1>3, <1>5, FS_Subset
<1>7. <<U, S>> \in StrictSubsetOrdering(Nat)
  BY <1>3, <1>5 DEF StrictSubsetOrdering
<1>8. U \notin Bad
  BY <1>2, <1>7
<1>9. U # {}
  <2>1. U = {} => Greatest(S, a)
    BY <1>5 DEF Greatest
  <2>. QED
    BY <1>3, <2>1
<1>10. PICK m : Greatest(U, m)
  BY <1>5, <1>6, <1>8, <1>9 DEF FiniteSubsetsOf
<1>. HIDE DEF U
<1>11. m \in Nat /\ m \in U
  BY <1>5, <1>10 DEF Greatest
<1>12. CASE m >= a
  <2>1. Greatest(S, m)
    BY <1>5, <1>10, <1>11, <1>12 DEF Greatest
  <2>. QED
    BY <1>3, <2>1
<1>13. CASE ~(m >= a)
  <2>1. \A k \in U : a >= k
    <3>. TAKE k \in U
    <3>1. k \in Nat /\ m >= k
      BY <1>5, <1>10 DEF Greatest
    <3>. QED
      BY <1>5, <1>11, <1>13, <3>1
  <2>2. Greatest(S, a)
    BY <1>5, <2>1 DEF Greatest
  <2>. QED
    BY <1>3, <2>2
<1>. QED
  BY <1>12, <1>13

LEMMA NatLeast ==
    ASSUME NEW T \in SUBSET Nat, T # {}
    PROVE  \E x \in T : \A y \in T : x <= y
<1>1. PICK x \in T : \A y \in T : ~(<<y, x>> \in OpToRel(<, Nat))
  BY NatLessThanWellFounded, WFMin
<1>2. \A y \in T : x <= y
  <2>. TAKE y \in T
  <2>. SUFFICES ASSUME y < x PROVE FALSE
    OBVIOUS
  <2>1. <<y, x>> \in Nat \X Nat
    OBVIOUS
  <2>2. <<y, x>> \in OpToRel(<, Nat)
    BY <2>1 DEF OpToRel
  <2>. QED
    BY <1>1, <2>2
<1>. QED
  BY <1>2

\* The largest sequence number of some batches and of those before.
LEMMA MaxSequenceFacts ==
    ASSUME NEW B \in SUBSET Batch, IsFiniteSet(B), lastSequence \in Nat
    PROVE  LET m == MaxSequence({b.seq : b \in B})
           IN  m \in Nat /\ lastSequence <= m /\ \A b \in B : b.seq <= m
<1>. DEFINE S == {b.seq : b \in B}
            T == S \cup {lastSequence}
            f == [b \in B |-> b.seq]
<1>1. \A b \in B : b.seq \in Nat
  BY DEF Batch
<1>2. IsFiniteSet(S)
  <2>1. f \in Surjection(B, S)
    BY DEF Surjection
  <2>. QED
    BY <2>1, FS_Surjection
<1>3. IsFiniteSet(T)
  BY <1>2, FS_AddElement
<1>4. T \in SUBSET Nat /\ T # {}
  BY <1>1
<1>5. \E m : Greatest(T, m)
  <2>. HIDE DEF T
  <2>. QED
    BY <1>3, <1>4, FiniteMax
<1>. DEFINE n == MaxSequence(S)
<1>6. n \in T /\ \A k \in T : n >= k
  BY <1>5 DEF MaxSequence, Greatest
<1>7. n \in Nat /\ lastSequence <= n
  <2>. HIDE DEF n
  <2>. QED
    BY <1>4, <1>6
<1>8. \A b \in B : b.seq <= n
  <2>. HIDE DEF n
  <2>. TAKE b \in B
  <2>1. b.seq \in T
    OBVIOUS
  <2>. QED
    BY <1>1, <1>6, <1>7, <2>1
<1>. QED
  BY <1>7, <1>8

\* A log's batches become a table.
\* The log that is read next.
LEMMA NextLog ==
    ASSUME Inv, phase = "recovering", toRecover # {}
    PROVE  LET n == OldestLog
               batches == ReadLog(fs, n)
           IN  /\ n \in toRecover /\ n \in Nat
               /\ FileExists(fs, LogFile(n)) /\ LogFile(n) \in Files(fs)
               /\ batches \subseteq Batch /\ IsFiniteSet(batches)
               /\ SetToSeq(batches) \in Seq(Batch) /\ Range1(SetToSeq(batches)) = batches
<1>. DEFINE n == OldestLog
            batches == ReadLog(fs, n)
            s == SetToSeq(batches)
<1>0. DiskTyped(fs) /\ RecoveredRight(fs) /\ toRecover \in SUBSET Nat /\ toRecover # {}
  BY DEF Inv, DiskInv, ProcessInv, Typed, TypedVersion
<1>1. n \in toRecover /\ n \in Nat
  <2>1. \E x \in toRecover : \A y \in toRecover : x <= y
    BY <1>0, NatLeast
  <2>. QED
    BY <1>0, <2>1 DEF OldestLog
<1>. HIDE DEF n
<1>2. /\ FileExists(fs, LogFile(n)) /\ LogFile(n) \in Files(fs)
      /\ batches \subseteq Batch /\ IsFiniteSet(batches)
  <2>1. FileExists(fs, LogFile(n))
    BY <1>0, <1>1 DEF RecoveredRight
  <2>2. LogFile(n) \in Files(fs)
    BY <1>0, <2>1, DirParts DEF DiskTyped, DirsTyped, FileExists
  <2>3. batches \subseteq Batch \ {Torn} /\ IsFiniteSet(batches)
    BY <1>0, <1>1, <2>2, ReadTypes
  <2>. QED
    BY <2>1, <2>2, <2>3
<1>3. s \in Seq(Batch) /\ Range1(s) = batches
  <2>1. s \in Seq(batches) /\ Range1(s) = batches
    BY <1>2, SetToSeqProperties
  <2>2. \A S, U : S \subseteq U => Seq(S) \subseteq Seq(U)
    OBVIOUS
  <2>. QED
    BY <1>2, <2>1, <2>2
<1>. QED
  BY <1>1, <1>2, <1>3 DEF n

LEMMA RecoverLogFileInv ==
    ASSUME Inv, RecoverLogFile
    PROVE  Inv'
<1>. DEFINE n == OldestLog
            batches == ReadLog(fs, n)
            f == TableFile(nextFile)
            s == SetToSeq(batches)
            next == nextFile'
            last == lastSequence'
<1>0. /\ DiskInv(fs) /\ DiskTyped(fs) /\ DirsRight(fs) /\ Typed /\ Steps /\ ProcessInv(fs)
      /\ Numbers(fs) /\ SeqsBelow(fs) /\ RecoveredRight(fs) /\ InUse(fs)
      /\ phase = "recovering" /\ toRecover # {} /\ toRecover' = toRecover \ {n}
      /\ \/ batches = {} /\ nextFile' = MarkFileNumberUsed(nextFile, n) /\ fs' = fs /\ recovered' = recovered
         \/ /\ batches # {} /\ fs' = BuildTable(fs, nextFile, s) /\ recovered' = recovered \cup {nextFile}
            /\ nextFile' = MarkFileNumberUsed(nextFile + 1, n)
      /\ lastSequence' = MaxSequence({b.seq : b \in batches})
      /\ nextFile \in Nat /\ nextFile > 0 /\ lastSequence \in Nat /\ toRecover \in SUBSET Nat
      /\ recovered \subseteq Nat
      /\ UNCHANGED <<phase, mem, imm, hasImm, logNumber, version, versionLog, manifest, pending, bgError, held,
                     writer, flush, comp, apply, written, safe, limbo>>
  BY DEF Inv, DiskInv, ProcessInv, RecoverLogFile, RecoverBatches, memoryVars, historyVars, Typed, TypedVersion
<1>1. /\ n \in toRecover /\ n \in Nat
      /\ FileExists(fs, LogFile(n)) /\ LogFile(n) \in Files(fs)
      /\ batches \subseteq Batch /\ IsFiniteSet(batches)
      /\ s \in Seq(Batch) /\ Range1(s) = batches
  BY <1>0, NextLog
<1>. HIDE DEF n
<1>4. last \in Nat /\ lastSequence <= last /\ \A b \in batches : b.seq <= last
  BY <1>0, <1>1, MaxSequenceFacts
<1>. HIDE DEF last, batches, s
<1>5. /\ next \in Nat /\ next > 0 /\ nextFile <= next /\ n < next
      /\ batches # {} => nextFile < next
  BY <1>0, <1>1 DEF MarkFileNumberUsed
<1>. HIDE DEF next
<1>6. /\ Quiet /\ apply = NoApply /\ Found = recovered /\ Adding = {} /\ Writing = {} /\ Reading = {}
      /\ apply.step = "none" /\ apply.for = "none" /\ comp.step = "none" /\ flush.step = "none"
      /\ comp.base = {} /\ pending = {}
  <2>1. Quiet /\ apply = NoApply
    BY <1>0 DEF Steps
  <2>. QED
    BY <1>0, <2>1, NothingTyped DEF Quiet, Found, Adding, Writing, Reading
<1>7. /\ DiskInv(fs')
      /\ Numbers(fs') /\ LogsGone(fs') /\ Outputs(fs') /\ InUse(fs') /\ SeqsBelow(fs')
      /\ BatchesUnique(fs') /\ RecoveredRight(fs')
      /\ \A m \in Nat : LogFile(m) \in Files(fs') => ReadLog(fs', m) = ReadLog(fs, m)
      /\ FileExists(fs', LogFile(n))
      /\ \A t \in version : ReadTable(fs', t) = ReadTable(fs, t)
      /\ batches # {} => FileExists(fs', f) /\ ReadTable(fs', nextFile) = batches
  <2>1. CASE fs' = fs /\ batches = {}
    BY <1>0, <1>1, <2>1 DEF ProcessInv
  <2>2. CASE fs' = BuildTable(fs, nextFile, s)
    <3>1. Touches(fs, fs', f) /\ Records(fs', f) = s
      BY <1>0, <1>1, <2>2, BuildTableTouches
    <3>2. \A t \in Named(fs) \cup version \cup Found : t \in Nat /\ t # nextFile
      <4>1. \A t \in Named(fs) : t \in Nat /\ t # nextFile
        BY <1>0 DEF Numbers, Named
      <4>2. \A t \in version \cup Found : t \in 1 .. nextFile - 1
        BY <1>0 DEF Numbers
      <4>3. \A t \in 1 .. nextFile - 1 : t \in Nat /\ t # nextFile
        BY <1>0
      <4>. QED
        BY <4>1, <4>2, <4>3
    <3>3. Harmless(fs, fs', f)
      <4>1. /\ \A c \in Currents(fs) : f # DescriptorFile(c)
            /\ \A m \in Nat : f # LogFile(m)
        BY <1>0, FilesDiffer, CurrentFacts
      <4>. QED
        BY <1>0, <1>6, <3>2, <4>1, FilesDiffer DEF Harmless
    <3>4. /\ DiskInv(fs')
          /\ Numbers(fs') /\ LogsGone(fs') /\ Outputs(fs') /\ InUse(fs') /\ SeqsBelow(fs')
          /\ BatchesUnique(fs') /\ RecoveredRight(fs')
      BY <1>0, <3>1, <3>3, HarmlessStep
    <3>5. Dir(fs).current > 0
      BY <1>0 DEF Numbers
    <3>6. /\ \A m \in Nat : LogFile(m) \in Files(fs') => ReadLog(fs', m) = ReadLog(fs, m)
          /\ \A m \in Nat : LogFile(m) \in Dir(fs').names <=> LogFile(m) \in Dir(fs).names
          /\ \A t \in Named(fs) \cup version \cup Found \cup Adding : TableFile(t) \in Files(fs') =>
                 TableFile(t) \in Files(fs) /\ ReadTable(fs', t) = ReadTable(fs, t)
      BY <1>0, <3>1, <3>3, <3>5, HarmlessReads
    <3>7. \A t \in version : TableFile(t) \in Files(fs')
      BY <1>0, <3>4, DirParts DEF InUse, FileExists, DiskInv, DiskTyped, DirsTyped
    <3>8. FileExists(fs', f) /\ ReadTable(fs', nextFile) = batches
      BY <1>1, <3>1 DEF Touches, FileExists, ReadTable
    <3>. QED
      BY <1>1, <3>4, <3>6, <3>7, <3>8 DEF FileExists
  <2>. QED
    BY <1>0, <2>1, <2>2
<1>8. /\ recovered \subseteq recovered' /\ recovered' \subseteq recovered \cup {nextFile}
      /\ nextFile \in recovered' \ recovered => batches # {}
      /\ recovered' \subseteq Nat
  BY <1>0
<1>9. DiskTyped(fs') /\ DirsRight(fs')
  BY <1>7 DEF DiskInv
<1>10. Typed'
  <2>1. TypedMemory' /\ TypedWork' /\ TypedHistory'
    BY <1>0 DEF Typed, TypedMemory, TypedWork, TypedHistory
  <2>2. nextFile' \in Nat /\ nextFile' > 0 /\ lastSequence' \in Nat
    BY <1>4, <1>5 DEF next, last
  <2>3. TypedVersion'
    BY <1>0, <1>8, <2>2 DEF Typed, TypedVersion
  <2>. QED
    BY <2>1, <2>3 DEF Typed
<1>11. Steps'
  <2>1. Quiet'
    BY <1>0, <1>6 DEF Quiet
  <2>2. writer = NoWrite /\ flush = NoFlush /\ comp = NoCompaction /\ imm = <<>>
    BY <1>6 DEF Quiet
  <2>. QED
    BY <1>0, <1>6, <2>1, <2>2, NothingTyped DEF Steps
<1>12. Numbers(fs)'
  <2>. PICK N : N = next
    OBVIOUS
  <2>0. N \in Nat /\ nextFile <= N
    BY <1>5
  <2>1. /\ manifest < N
        /\ \A t \in Named(fs') : t > 0 /\ t < N
        /\ NextsUpTo(fs', N)
        /\ \A m \in Nat : LogFile(m) \in Files(fs') => m < N \/ m \in toRecover
        /\ version \cup Found \cup pending \cup comp.base \cup Reading \subseteq 1 .. N - 1
    BY <1>0, <1>7, <1>9, <2>0, NumbersLater
  <2>2. \A m \in Nat : LogFile(m) \in Files(fs') => m < N \/ m \in toRecover'
    BY <1>0, <1>5, <2>1
  <2>3. Dir(fs').current > 0 /\ Dir(fs').current < manifest /\ Dir(fs').current <= manifest
        /\ versionLog < nextFile /\ versionLog \in Nat
    BY <1>0, <1>6, <1>7 DEF Numbers, Typed, TypedVersion
  <2>4. versionLog < N
    BY <1>0, <2>0, <2>3
  <2>5. recovered' \subseteq 1 .. N - 1
    <3>1. batches # {} => nextFile \in 1 .. N - 1
      BY <1>0, <1>5
    <3>. QED
      BY <1>6, <1>8, <2>1, <3>1
  <2>6. nextFile' = N
    BY DEF next
  <2>7. version' \cup Found' \cup pending' \cup comp'.base \cup Reading' \subseteq 1 .. nextFile' - 1
    BY <1>0, <1>6, <2>1, <2>5, <2>6 DEF Found, Reading
  <2>. QED
    BY <1>0, <1>6, <2>1, <2>2, <2>3, <2>4, <2>6, <2>7 DEF Numbers
<1>13. LogsGone(fs)' /\ Outputs(fs)' /\ OutputsWritten(fs)' /\ EditRight(fs)' /\ EditWritten(fs)'
  BY <1>0, <1>6, <1>7, NothingTyped DEF Quiet, LogsGone, Outputs, OutputsWritten, EditRight, EditWritten
<1>14. InUse(fs)'
  <2>1. \A t \in recovered' : FileExists(fs', TableFile(t))
    BY <1>0, <1>6, <1>7, <1>8 DEF InUse
  <2>. QED
    BY <1>0, <1>6, <1>7, <2>1 DEF InUse, Found, Reading
<1>15. SeqsBelow(fs)'
  <2>. PICK N : N = last
    OBVIOUS
  <2>1. N \in Nat /\ lastSequence <= N
    BY <1>4
  <2>2. /\ \A t \in version \cup Found \cup Named(fs') : TableFile(t) \in Files(fs') =>
                  \A b \in ReadTable(fs', t) : b.seq <= N
        /\ \A b \in Range1(mem) \cup Range1(imm) : b.seq <= N
        /\ \A m \in Nat \ toRecover : LogFile(m) \in Files(fs') =>
                  \A b \in ReadLog(fs', m) : b.seq <= N \/ (m = logNumber /\ b \in Writing)
    BY <1>0, <1>7, <1>9, <2>1, SeqsLater
  <2>3. \A t \in recovered' : TableFile(t) \in Files(fs') => \A b \in ReadTable(fs', t) : b.seq <= N
    BY <1>4, <1>6, <1>7, <1>8, <2>2
  <2>4. \A m \in Nat \ toRecover' : LogFile(m) \in Files(fs') => \A b \in ReadLog(fs', m) : b.seq <= N
    <3>1. \A b \in ReadLog(fs', n) : LogFile(n) \in Files(fs') => b.seq <= N
      BY <1>1, <1>4, <1>7 DEF batches
    <3>2. \A m \in Nat \ toRecover' : m = n \/ m \in Nat \ toRecover
      BY <1>0
    <3>. QED
      BY <1>6, <2>2, <3>1, <3>2
  <2>5. lastSequence' = N
    BY DEF last
  <2>. QED
    BY <1>0, <1>6, <2>2, <2>3, <2>4, <2>5 DEF SeqsBelow, Found
<1>16. BatchesUnique(fs)'
  <2>1. Shown(fs)' = Shown(fs')
    BY <1>0 DEF Shown
  <2>2. Writing' = Writing
    BY <1>0 DEF Writing
  <2>. QED
    BY <1>7, <2>1, <2>2 DEF BatchesUnique
<1>17. RecoveredRight(fs)'
  <2>1. batches \subseteq LoggedNow(fs')
    <3>1. LogFile(n) \in Files(fs')
      BY <1>7, <1>9, DirParts DEF FileExists, DiskTyped, DirsTyped
    <3>2. ReadLog(fs', n) = batches
      BY <1>1, <1>7, <3>1 DEF batches
    <3>. QED
      BY <1>1, <1>7, <3>2 DEF LoggedNow
  <2>2. \A t \in recovered' : ReadTable(fs', t) \subseteq LoggedNow(fs')
    BY <1>6, <1>7, <1>8, <2>1 DEF RecoveredRight
  <2>. QED
    BY <1>0, <1>7, <2>2 DEF RecoveredRight, Found
<1>. QED
  BY <1>7, <1>10, <1>11, <1>12, <1>13, <1>14, <1>15, <1>16, <1>17 DEF Inv, ProcessInv

\* What is left of a sequence.
LEMMA CutPrefix ==
    ASSUME NEW S, NEW s \in Seq(S), NEW n \in 0 .. Len(s)
    PROVE  /\ SubSeq(s, 1, n) \in Seq(S) /\ Len(SubSeq(s, 1, n)) = n
           /\ DOMAIN SubSeq(s, 1, n) = 1 .. n
           /\ \A i \in 1 .. n : SubSeq(s, 1, n)[i] = s[i]
           /\ Prefix(SubSeq(s, 1, n), s)
<1>. DEFINE t == SubSeq(s, 1, n)
<1>1. DOMAIN s = 1 .. Len(s) /\ Len(s) \in Nat /\ n \in Nat /\ 1 .. n \subseteq DOMAIN s
  BY LenProperties
<1>2. \A i \in 1 .. n : s[i] \in S
  BY <1>1, ElementOfSeq
<1>3. /\ t \in Seq(S)
      /\ Len(t) = IF 1 <= n THEN n - 1 + 1 ELSE 0
      /\ \A i \in 1 .. n - 1 + 1 : t[i] = s[1 + i - 1]
  BY <1>1, <1>2, SubSeqProperties
<1>4. Len(t) = n /\ DOMAIN t = 1 .. n
  BY <1>1, <1>3, LenProperties
<1>5. \A i \in 1 .. n : t[i] = s[i]
  <2>. TAKE i \in 1 .. n
  <2>1. i \in 1 .. n - 1 + 1 /\ 1 + i - 1 = i
    BY <1>1
  <2>. QED
    BY <1>3, <2>1
<1>. HIDE DEF t
<1>6. Prefix(t, s)
  BY <1>1, <1>4, <1>5 DEF Prefix
<1>. QED
  BY <1>3, <1>4, <1>5, <1>6 DEF t

\* The machine dies.
LEMMA PowerFailureStep ==
    ASSUME NEW D, DiskInv(D), NEW E \in AfterPowerFailure(D)
    PROVE  /\ DiskInv(E) /\ Files(E) = Dir(E).names
           /\ Logged(E) \subseteq Logged(D) /\ Tabled(E) \subseteq Tabled(D)
<1>0. DiskTyped(D) /\ DirsRight(D) /\ EditsRight(D) /\ PairsRight(D)
  BY DEF DiskInv
<1>1. /\ DiskTyped(E)
      /\ \E d \in Dirs(D) : Dirs(E) = {d} /\ Dir(E) = d /\ Files(E) = d.names
      /\ Files(E) \subseteq Files(D)
      /\ \A f \in Files(E) : \E n \in Synced(D, f) .. Len(Records(D, f)) :
            Records(E, f) = SubSeq(Records(D, f), 1, n) /\ Synced(E, f) = n
  BY <1>0, PowerFailureDisk
<1>2. PICK d \in Dirs(D) : Dirs(E) = {d} /\ Dir(E) = d /\ Files(E) = d.names
  BY <1>1
<1>3. ASSUME NEW f \in Files(E)
      PROVE  /\ Records(D, f) \in Seq(Item(f)) /\ Records(E, f) \in Seq(Item(f))
             /\ Prefix(Records(E, f), Records(D, f))
  <2>1. PICK n \in Synced(D, f) .. Len(Records(D, f)) : Records(E, f) = SubSeq(Records(D, f), 1, n)
    BY <1>1
  <2>2. /\ Records(D, f) \in Seq(Item(f)) /\ Synced(D, f) \in Nat /\ Len(Records(D, f)) \in Nat
    BY <1>0, <1>1, FileParts DEF DiskTyped
  <2>3. n \in 0 .. Len(Records(D, f))
    BY <2>2
  <2>. QED
    BY <2>1, <2>2, <2>3, CutPrefix
<1>4. DirsRight(E) /\ FirstDir(E)
  <2>1. d.current \in Nat
    BY <1>0, DirParts DEF DiskTyped
  <2>2. /\ d.current # 0 => DescriptorFile(d.current) \in d.names
        /\ d.current = 0 => d.names \subseteq {DescriptorFile(1)}
    BY <1>0 DEF DirsRight
  <2>. QED
    BY <1>2, <2>1, <2>2 DEF DirsRight, FirstDir
<1>5. Within(D, E, 0, {})
  <2>1. Currents(E) \subseteq Currents(D)
    BY <1>2 DEF Currents
  <2>2. \A c \in Currents(E) : Prefix(EditsIn(E, c), EditsIn(D, c))
    <3>. TAKE c \in Currents(E)
    <3>1. DescriptorFile(c) \in Files(E)
      BY <1>1, <1>4, CurrentFacts
    <3>. QED
      BY <1>3, <3>1 DEF EditsIn
  <2>3. \A n \in Nat : LogFile(n) \in Files(E) => LogFile(n) \in Files(D) /\ ReadLog(E, n) \subseteq ReadLog(D, n)
    BY <1>1, <1>3, SeenOfPrefix, SeenLog
  <2>4. \A t \in Named(D) : TableFile(t) \in Files(E) =>
          TableFile(t) \in Files(D) /\ ReadTable(E, t) \subseteq ReadTable(D, t)
    BY <1>1, <1>3, SeenOfPrefix DEF ReadTable
  <2>. QED
    BY <2>1, <2>2, <2>3, <2>4 DEF Within
<1>6. /\ EditsRight(E) /\ PairsRight(E)
      /\ Logged(E) \subseteq Logged(D) \cup {}
      /\ Tabled(E) \subseteq Tabled(D)
  BY <1>0, <1>1, <1>4, <1>5, WithinKeeps
<1>. QED
  BY <1>1, <1>2, <1>4, <1>6 DEF DiskInv

LEMMA PowerFailureInv ==
    ASSUME Inv, PowerFailure
    PROVE  Inv'
<1>0. /\ DiskInv(fs) /\ Typed /\ ProcessInv(fs) /\ NoProcess /\ fs' \in AfterPowerFailure(fs)
      /\ UNCHANGED <<written, safe>> /\ limbo' = {}
  BY DEF Inv, PowerFailure
<1>1. TypedHistory'
  <2>1. writer' = NoWrite
    BY <1>0 DEF NoProcess
  <2>. QED
    BY <1>0, <2>1, NothingTyped DEF Typed, TypedHistory
<1>2. /\ DiskInv(fs') /\ Files(fs') = Dir(fs').names
      /\ Logged(fs') \subseteq Logged(fs) /\ Tabled(fs') \subseteq Tabled(fs)
  BY <1>0, PowerFailureStep
<1>3. Unique(Logged(fs') \cup Tabled(fs'))
  BY <1>0, <1>2 DEF ProcessInv, BatchesUnique, Unique
<1>. QED
  BY <1>0, <1>1, <1>2, <1>3, DownInv

-----------------------------------------------------------------------------

\* The invariant holds of an empty directory.
LEMMA InitInv == Init => Inv
<1>. SUFFICES ASSUME Init PROVE Inv
  OBVIOUS
<1>0. /\ fs = EmptyDisk /\ phase = "down"
      /\ mem = <<>> /\ imm = <<>> /\ hasImm = FALSE /\ logNumber = 0
      /\ version = {} /\ held = NoReader
      /\ nextFile = 2 /\ lastSequence = 0 /\ versionLog = 0 /\ manifest = 0
      /\ pending = {} /\ bgError = FALSE
      /\ writer = NoWrite /\ flush = NoFlush /\ comp = NoCompaction /\ apply = NoApply
      /\ toRecover = {} /\ recovered = {}
      /\ written = 0 /\ safe = {} /\ limbo = {}
  BY DEF Init
<1>1. /\ DiskTyped(fs) /\ Files(fs) = {} /\ Dir(fs).names = {} /\ Dir(fs).current = 0
      /\ Dirs(fs) = {Dir(fs)}
  <2>. DEFINE d == [names |-> {}, current |-> 0]
              none == <<>>
  <2>1. fs = [dirs |-> <<d>>, files |-> none] /\ fs.dirs = <<d>> /\ fs.files = none
    BY <1>0 DEF EmptyDisk
  <2>2. d \in Directory /\ d.names = {} /\ d.current = 0 /\ IsFiniteSet(d.names)
    BY FS_EmptySet DEF Directory
  <2>. HIDE DEF d
  <2>3. <<d>> \in Seq(Directory) /\ <<d>> # <<>> /\ Len(<<d>>) = 1 /\ DOMAIN <<d>> = {1} /\ <<d>>[1] = d
    BY <2>2
  <2>4. Dirs(fs) = {d} /\ Dir(fs) = d
    BY <2>1, <2>3 DEF Dirs, Dir
  <2>5. DOMAIN none = {} /\ IsFunction(none)
    BY DEF IsFunction
  <2>6. Files(fs) = {}
    BY <2>1, <2>5 DEF Files
  <2>7. FilesTyped(fs)
    BY <2>1, <2>5, <2>6 DEF FilesTyped
  <2>8. DirsTyped(fs)
    BY <2>1, <2>2, <2>3, <2>4 DEF DirsTyped
  <2>. QED
    BY <2>1, <2>2, <2>4, <2>6, <2>7, <2>8 DEF DiskTyped
<1>2. Currents(fs) = {}
  BY <1>1 DEF Currents
<1>3. DiskInv(fs)
  BY <1>1, <1>2 DEF DiskInv, DirsRight, FirstDir, EditsRight, PairsRight
<1>4. Named(fs) = {} /\ Logged(fs) = {} /\ Tabled(fs) = {}
  BY <1>1, <1>2 DEF Named, Logged, Tabled
<1>5. Typed
  <2>1. <<>> \in Seq(Batch)
    BY EmptySeq
  <2>2. TypedMemory
    BY <1>0, <2>1 DEF TypedMemory
  <2>3. TypedVersion
    <3>1. held \in SUBSET Nat
      BY <1>0, NothingTyped
    <3>2. /\ nextFile \in Nat /\ nextFile > 0 /\ lastSequence \in Nat /\ versionLog \in Nat
          /\ manifest \in Nat
      BY <1>0
    <3>3. bgError \in BOOLEAN
      BY <1>0
    <3>. QED
      BY <1>0, <3>1, <3>2, <3>3 DEF TypedVersion
  <2>4. TypedWork
    BY <1>0, NothingTyped DEF TypedWork
  <2>5. TypedHistory
    BY <1>0, NothingTyped, BoundsAssumption DEF TypedHistory
  <2>. QED
    BY <2>2, <2>3, <2>4, <2>5 DEF Typed
<1>6. Steps
  BY <1>0, NothingTyped DEF Steps, Quiet
<1>7. Numbers(fs) /\ InUse(fs) /\ SeqsBelow(fs)
  BY <1>0 DEF Numbers, InUse, SeqsBelow
<1>8. LogsGone(fs)
  BY <1>0, <1>1 DEF LogsGone
<1>9. Outputs(fs) /\ OutputsWritten(fs) /\ EditRight(fs) /\ EditWritten(fs)
  BY <1>0, NothingTyped DEF Outputs, OutputsWritten, EditRight, EditWritten
<1>10. BatchesUnique(fs)
  <2>1. Shown(fs) = {} /\ Writing = {}
    BY <1>0, EmptySeen, NothingTyped DEF Shown, Writing
  <2>. QED
    BY <1>4, <2>1 DEF BatchesUnique, Unique
<1>11. RecoveredRight(fs)
  BY <1>0 DEF RecoveredRight, Found
<1>. QED
  BY <1>3, <1>5, <1>6, <1>7, <1>8, <1>9, <1>10, <1>11 DEF Inv, ProcessInv

\* What changes nothing but the count of the writes.
LEMMA UnchangedInv ==
    ASSUME Inv, TypedHistory',
           UNCHANGED <<fs, phase, mem, imm, hasImm, logNumber, version, nextFile, lastSequence, versionLog,
                       manifest, pending, bgError, held, writer, flush, comp, apply, toRecover, recovered>>
    PROVE  Inv'
<1>1. DiskInv(fs)'
  BY DEF Inv
<1>2. Typed'
  BY DEF Inv, Typed, TypedMemory, TypedVersion, TypedWork
<1>3. Steps'
  BY DEF Inv, Steps, Quiet
<1>4. Numbers(fs)' /\ LogsGone(fs)' /\ Outputs(fs)' /\ OutputsWritten(fs)' /\ InUse(fs)'
  BY DEF Inv, ProcessInv, Numbers, LogsGone, Outputs, OutputsWritten, InUse, Found, Reading
<1>5. SeqsBelow(fs)' /\ RecoveredRight(fs)' /\ EditRight(fs)' /\ EditWritten(fs)'
  BY DEF Inv, ProcessInv, SeqsBelow, RecoveredRight, EditRight, EditWritten, Found, Writing
<1>6. BatchesUnique(fs)'
  BY DEF Inv, ProcessInv, BatchesUnique, Shown, Writing
<1>. QED
  BY <1>1, <1>2, <1>3, <1>4, <1>5, <1>6 DEF Inv, ProcessInv

\* A write that has no log.
LEMMA NewLogFailsInv ==
    ASSUME Inv, NewLogFails
    PROVE  Inv'
<1>1. /\ Typed /\ written < MaxWrites /\ written' = written + 1
      /\ UNCHANGED <<fs, phase, mem, imm, hasImm, logNumber, version, nextFile, lastSequence, versionLog,
                     manifest, pending, bgError, held, writer, flush, comp, apply, toRecover, recovered,
                     safe, limbo>>
  BY DEF Inv, NewLogFails, memoryVars, versionVars, recoveryVars
<1>2. TypedHistory'
  <2>1. TypedHistory /\ written \in 0 .. MaxWrites /\ MaxWrites \in Nat
    BY <1>1, BoundsAssumption DEF Typed, TypedHistory
  <2>2. written' \in 0 .. MaxWrites /\ 1 .. written \subseteq 1 .. written'
    BY <1>1, <2>1
  <2>. QED
    BY <1>1, <2>1, <2>2 DEF TypedHistory
<1>. QED
  BY <1>1, <1>2, UnchangedInv

\* CURRENT cannot be made to name the new manifest.
LEMMA SetCurrentFailsInv ==
    ASSUME Inv, SetCurrentFails
    PROVE  Inv'
<1>0. /\ Inv /\ Typed /\ Steps /\ ProcessInv(fs) /\ apply.step = "current" /\ apply \in ApplyRecord
      /\ apply' = [apply EXCEPT !.step = "failed"]
      /\ UNCHANGED <<fs, phase, mem, imm, hasImm, logNumber, version, nextFile, lastSequence, versionLog,
                     manifest, pending, bgError, held, writer, flush, comp, toRecover, recovered, written,
                     safe, limbo>>
  BY DEF Inv, SetCurrentFails, memoryVars, versionVars, recoveryVars, historyVars, Typed, TypedWork
<1>1. phase = "opening" /\ apply.for = "open"
  BY <1>0 DEF Steps
<1>2. /\ apply'.step = "failed" /\ apply'.for = apply.for /\ apply'.edit = apply.edit
      /\ apply' \in ApplyRecord
  BY <1>0 DEF ApplyRecord
<1>3. DiskInv(fs)'
  BY <1>0 DEF Inv
<1>4. Typed'
  BY <1>0, <1>2 DEF Typed, TypedMemory, TypedVersion, TypedWork, TypedHistory
<1>5. Steps'
  BY <1>0, <1>1, <1>2 DEF Steps, Quiet
<1>6. Numbers(fs)' /\ LogsGone(fs)' /\ InUse(fs)' /\ RecoveredRight(fs)'
  BY <1>0, <1>1, <1>2 DEF ProcessInv, Numbers, LogsGone, InUse, RecoveredRight, Found, Reading
<1>7. Outputs(fs)' /\ OutputsWritten(fs)'
  BY <1>0 DEF ProcessInv, Outputs, OutputsWritten
<1>8. SeqsBelow(fs)' /\ BatchesUnique(fs)'
  BY <1>0 DEF ProcessInv, SeqsBelow, BatchesUnique, Found, Writing, Shown
<1>9. EditRight(fs)'
  BY <1>0, <1>2 DEF ProcessInv, EditRight
<1>10. EditWritten(fs)'
  BY <1>0, <1>2 DEF ProcessInv, EditWritten
<1>. QED
  BY <1>3, <1>4, <1>5, <1>6, <1>7, <1>8, <1>9, <1>10 DEF Inv, ProcessInv

\* The output of a compaction cannot be opened.
LEMMA CompactionOpenFailsInv ==
    ASSUME Inv, NEW inputs, CompactionOpenFails(inputs)
    PROVE  Inv'
<1>. DEFINE n == nextFile + 1
<1>0. /\ DiskInv(fs) /\ Typed /\ Steps /\ ProcessInv(fs)
      /\ phase = "up" /\ flush = NoFlush /\ comp = NoCompaction /\ nextFile' = n /\ bgError' = TRUE
      /\ UNCHANGED <<fs, phase, mem, imm, hasImm, logNumber, version, lastSequence, versionLog, manifest,
                     pending, held, writer, flush, comp, apply, toRecover, recovered, written, safe, limbo>>
  BY DEF Inv, CompactionOpenFails, AfterNewFileNumber, memoryVars, recoveryVars, historyVars
<1>1. /\ DiskTyped(fs) /\ DirsRight(fs) /\ Numbers(fs) /\ nextFile \in Nat /\ nextFile > 0
      /\ n \in Nat /\ nextFile <= n
  BY <1>0 DEF DiskInv, ProcessInv, Typed, TypedVersion
<1>2. /\ manifest < n
      /\ \A t \in Named(fs) : t > 0 /\ t < n
      /\ NextsUpTo(fs, n)
      /\ logNumber < n
      /\ \A m \in Nat : LogFile(m) \in Files(fs) => m < n \/ m \in toRecover
      /\ version \cup Found \cup pending \cup comp.base \cup Reading \subseteq 1 .. n - 1
  BY <1>0, <1>1, NumbersLater
<1>3. DiskInv(fs)'
  BY <1>0
<1>4. Typed'
  BY <1>0, <1>1 DEF Typed, TypedMemory, TypedVersion, TypedWork, TypedHistory
<1>5. Steps'
  BY <1>0 DEF Steps, Quiet
<1>. HIDE DEF n
<1>6. Numbers(fs)'
  BY <1>0, <1>1, <1>2 DEF ProcessInv, Numbers, Found, Reading
<1>7. Outputs(fs)' /\ OutputsWritten(fs)'
  BY <1>0, NothingTyped DEF ProcessInv, Outputs, OutputsWritten
<1>8. LogsGone(fs)' /\ InUse(fs)' /\ RecoveredRight(fs)'
  BY <1>0 DEF ProcessInv, LogsGone, InUse, RecoveredRight, Found, Reading
<1>9. SeqsBelow(fs)' /\ BatchesUnique(fs)'
  BY <1>0 DEF ProcessInv, SeqsBelow, BatchesUnique, Found, Writing, Shown
<1>10. EditRight(fs)' /\ EditWritten(fs)'
  <2>1. apply.step = "none" \/ apply.for = "none"
    BY <1>0, NothingTyped DEF Steps, Typed, TypedWork, ApplyRecord
  <2>. QED
    BY <1>0, <2>1 DEF ProcessInv, EditRight, EditWritten, Steps
<1>. QED
  BY <1>3, <1>4, <1>5, <1>6, <1>7, <1>8, <1>9, <1>10 DEF Inv, ProcessInv

\* An open gives up.
LEMMA OpenFailsInv ==
    ASSUME Inv, OpenFails
    PROVE  Inv'
<1>0. /\ DiskInv(fs) /\ Typed /\ ProcessInv(fs) /\ NoProcess /\ fs' = fs
      /\ UNCHANGED <<written, safe, limbo>>
  BY DEF Inv, OpenFails, historyVars
<1>1. TypedHistory'
  <2>1. writer' = NoWrite
    BY <1>0 DEF NoProcess
  <2>. QED
    BY <1>0, <2>1, NothingTyped DEF Typed, TypedHistory
<1>2. Unique(Logged(fs') \cup Tabled(fs'))
  BY <1>0 DEF ProcessInv, BatchesUnique, Unique
<1>3. Readable(fs') => \A m \in Nat : LogFile(m) \in Files(fs') \ Dir(fs').names => m < LastEdit(fs').log
  BY <1>0, LogsGoneLater DEF ProcessInv
<1>. QED
  BY <1>0, <1>1, <1>2, <1>3, DownInv

\* A disk that no database has been made on.
Blank(disk) ==
    /\ DiskTyped(disk) /\ Files(disk) \subseteq {DescriptorFile(1)}
    /\ \A d \in Dirs(disk) : d.current = 0

LEMMA BlankDisk ==
    ASSUME NEW D
    PROVE  /\ DiskInv(D) /\ Dir(D).current = 0 => Blank(D)
           /\ Blank(D) => /\ DiskInv(D) /\ Dir(D).current = 0
                          /\ Logged(D) = {} /\ Tabled(D) = {} /\ ~Readable(D)
<1>1. ASSUME DiskInv(D), Dir(D).current = 0 PROVE Blank(D)
  <2>1. DiskTyped(D) /\ DirsRight(D) /\ Files(D) \subseteq {DescriptorFile(1)}
    BY <1>1 DEF DiskInv, FirstDir
  <2>2. \A d \in Dirs(D) : d.current \in Nat /\ d.current <= 0
    BY <1>1, <2>1, DirParts DEF DirsRight, DiskTyped
  <2>. QED
    BY <2>1, <2>2 DEF Blank
<1>2. ASSUME Blank(D)
      PROVE  DiskInv(D) /\ Dir(D).current = 0 /\ Logged(D) = {} /\ Tabled(D) = {} /\ ~Readable(D)
  <2>1. DiskTyped(D) /\ DirsTyped(D) /\ Files(D) \subseteq {DescriptorFile(1)}
    BY <1>2 DEF Blank, DiskTyped
  <2>2. Dir(D).current = 0 /\ Currents(D) = {}
    BY <1>2, <2>1, DirParts DEF Blank, Currents
  <2>3. DirsRight(D)
    <3>1. \A d \in Dirs(D) : d.current = 0 /\ d.names \subseteq Files(D)
      BY <1>2, <2>1 DEF Blank, DirsTyped
    <3>. QED
      BY <2>1, <2>2, <3>1 DEF DirsRight
  <2>4. DiskInv(D)
    BY <2>1, <2>2, <2>3 DEF DiskInv, FirstDir, EditsRight, PairsRight
  <2>5. \A m \in Nat : LogFile(m) \notin Files(D)
    BY <2>1, FilesDiffer
  <2>. QED
    BY <2>2, <2>4, <2>5 DEF Logged, Tabled, Named, Readable
<1>. QED
  BY <1>1, <1>2

\* A first manifest that CURRENT does not come to name.
LEMMA FirstManifestBlank ==
    ASSUME NEW D, Blank(D), NEW E,
           E = FirstManifest(D) \/ E = DeleteFiles(FirstManifest(D), {DescriptorFile(1)})
    PROVE  Blank(E)
<1>. DEFINE f == DescriptorFile(1)
            u == <<Edit({}, {}, 0, 2, 0)>>
            D1 == NewWritableFile(D, f)
            D2 == AddRecords(D1, f, u)
<1>0. DiskTyped(D) /\ Files(D) \subseteq {f} /\ f \in File
  BY FileTypes DEF Blank
<1>1. /\ DiskTyped(D1) /\ Files(D1) = Files(D) \cup {f}
      /\ Dir(D1).current = Dir(D).current
      /\ Dirs(D1) = Dirs(D) \cup {Dir(D1)}
  BY <1>0, NewFileDisk
<1>2. u \in Seq(EditRecord \cup {TornEdit})
  BY DEF Edit, EditRecord
<1>. HIDE DEF u, D1
<1>3. DiskTyped(D2) /\ Files(D2) = Files(D1) /\ Dirs(D2) = Dirs(D1)
  <2>1. f \in Files(D1) /\ 1 \in Nat
    BY <1>1
  <2>. QED
    BY <1>1, <1>2, <2>1, DescriptorAppended
<1>4. Dir(D).current = 0
  BY DirParts DEF Blank, DiskTyped
<1>5. Blank(D2)
  BY <1>0, <1>1, <1>3, <1>4 DEF Blank
<1>6. D2 = FirstManifest(D)
  BY DEF D1, u, FirstManifest
<1>7. PICK F : F = D2
  OBVIOUS
<1>8. ASSUME E = DeleteFiles(F, {f}), Blank(F) PROVE Blank(E)
  <2>1. /\ DiskTyped(E) /\ Files(E) = Files(F)
        /\ \A d \in Dirs(E) : d \in Dirs(F) \/ d.current = Dir(F).current
    BY <1>8, DeleteFilesDisk DEF Blank
  <2>2. Dir(F).current = 0
    BY <1>8, DirParts DEF Blank, DiskTyped
  <2>. QED
    BY <1>8, <2>1, <2>2 DEF Blank
<1>. QED
  BY <1>5, <1>6, <1>7, <1>8

LEMMA NewDBFailsInv ==
    ASSUME Inv, NewDBFails
    PROVE  Inv'
<1>0. /\ DiskInv(fs) /\ Typed /\ Steps /\ phase = "down" /\ Dir(fs).current = 0
      /\ fs' = FirstManifest(fs) \/ fs' = DeleteFiles(FirstManifest(fs), {DescriptorFile(1)})
      /\ UNCHANGED <<phase, mem, imm, hasImm, logNumber, version, nextFile, lastSequence, versionLog,
                     manifest, pending, bgError, held, writer, flush, comp, apply, toRecover, recovered,
                     written, safe, limbo>>
  BY DEF Inv, NewDBFails, memoryVars, versionVars, recoveryVars, historyVars
<1>1. DiskInv(fs') /\ Logged(fs') = {} /\ Tabled(fs') = {} /\ ~Readable(fs')
  BY <1>0, BlankDisk, FirstManifestBlank
<1>2. Quiet /\ apply = NoApply /\ version = {} /\ recovered = {} /\ toRecover = {}
  BY <1>0 DEF Steps
<1>3. Typed'
  BY <1>0 DEF Typed, TypedMemory, TypedVersion, TypedWork, TypedHistory
<1>4. Steps'
  BY <1>0 DEF Steps, Quiet
<1>5. Numbers(fs)' /\ LogsGone(fs)' /\ InUse(fs)' /\ SeqsBelow(fs)'
  BY <1>0, <1>1 DEF Numbers, LogsGone, InUse, SeqsBelow
<1>6. Outputs(fs)' /\ OutputsWritten(fs)'
  BY <1>0, <1>2, NothingTyped DEF Quiet, Outputs, OutputsWritten
<1>7. BatchesUnique(fs)'
  <2>1. Shown(fs)' = {} /\ Writing' = {}
    BY <1>0, <1>2, EmptySeen, NothingTyped DEF Quiet, Shown, Writing
  <2>. QED
    BY <1>1, <2>1 DEF BatchesUnique, Unique
<1>8. RecoveredRight(fs)'
  BY <1>0, <1>2 DEF RecoveredRight, Found
<1>9. EditRight(fs)' /\ EditWritten(fs)'
  BY <1>0, <1>2, NothingTyped DEF EditRight, EditWritten
<1>. QED
  BY <1>1, <1>3, <1>4, <1>5, <1>6, <1>7, <1>8, <1>9 DEF Inv, ProcessInv

-----------------------------------------------------------------------------
(* Once an open has passed over part of a log, the numbers of the batches  *)
(* in it are given again; the invariant is about what comes before that.   *)

LEMMA ReadWholeBefore ==
    ASSUME [Next]_vars, ReadWhole'
    PROVE  ReadWhole /\ ~RecoverLogPartly
<1>1. CASE RecoverLogPartly
  <2>1. PICK count \in 0 .. Len(Records(fs, LogFile(OldestLog))) :
          LET batches == ReadLogTo(fs, OldestLog, count)
              missed == ReadLog(fs, OldestLog) \ batches
          IN  missed # {} /\ skipped' = skipped \cup Ids(missed)
    BY <1>1 DEF RecoverLogPartly
  <2>2. PICK b \in ReadLog(fs, OldestLog) : b.id \in skipped'
    BY <2>1 DEF Ids
  <2>. QED
    BY <2>2 DEF ReadWhole
<1>2. CASE ~RecoverLogPartly
  <2>1. skipped' = skipped
    <3>1. CASE WriterStep
      BY <3>1 DEF WriterStep, AddRecord, NewLogFails, SyncLog, InsertInto, historyVars
    <3>2. CASE ApplyStep
      BY <3>2 DEF ApplyStep, WriteManifest, SyncManifest, WriteCurrent, SetCurrentFails, Install,
                  ApplyFailed, historyVars
    <3>3. CASE BackgroundStep
      BY <3>3 DEF BackgroundStep, FlushBegin, WriteLevel0Table, CompactionBegin, CompactionOpenFails,
                  CompactionFinish, InstallCompactionResults, historyVars
    <3>4. CASE OpenStep
      BY <1>2, <3>4 DEF OpenStep, NewDB, NewDBFails, RecoverManifest, RecoverLogFile, OpenFails, OpenLog,
                  historyVars
    <3>5. CASE ReaderBegin \/ ReaderEnd
      BY <3>5 DEF ReaderBegin, ReaderEnd, historyVars
    <3>6. CASE Kill \/ PowerFailure
      BY <3>6 DEF Kill, PowerFailure
    <3>7. CASE UNCHANGED vars
      BY <3>7 DEF vars, historyVars
    <3>. QED
      BY <3>1, <3>2, <3>3, <3>4, <3>5, <3>6, <3>7 DEF Next
  <2>. QED
    BY <1>2, <2>1 DEF ReadWhole
<1>. QED
  BY <1>1, <1>2

\* Every step.
LEMMA NextInv ==
    ASSUME Inv, [Next]_vars, ReadWhole'
    PROVE  Inv'
<1>1. CASE \E sync \in SyncOptions : AddRecord(sync)
  BY <1>1, AddRecordInv
<1>2. CASE NewLogFails \/ SyncLog \/ InsertInto
  BY <1>2, NewLogFailsInv, SyncLogInv, InsertIntoInv
<1>3. CASE ApplyStep
  BY <1>3, WriteManifestInv, SyncManifestInv, WriteCurrentInv, SetCurrentFailsInv, InstallInv, ApplyFailedInv
     DEF ApplyStep
<1>4. CASE BackgroundStep
  BY <1>4, FlushBeginInv, WriteLevel0TableInv, CompactionBeginInv, CompactionOpenFailsInv,
     CompactionFinishInv, InstallCompactionResultsInv DEF BackgroundStep
<1>5. CASE OpenStep
  BY <1>5, ReadWholeBefore, NewDBInv, NewDBFailsInv, RecoverManifestInv, RecoverLogFileInv, OpenFailsInv,
     OpenLogInv DEF OpenStep
<1>6. CASE ReaderBegin \/ ReaderEnd
  BY <1>6, ReaderInv
<1>7. CASE Kill \/ PowerFailure
  BY <1>7, KillInv, PowerFailureInv
<1>8. CASE UNCHANGED vars
  <2>1. UNCHANGED <<fs, phase, mem, imm, hasImm, logNumber, version, nextFile, lastSequence, versionLog,
                    manifest, pending, bgError, held, writer, flush, comp, apply, toRecover, recovered,
                    written, safe, limbo>>
    BY <1>8 DEF vars, memoryVars, versionVars, recoveryVars, historyVars
  <2>2. TypedHistory'
    BY <2>1 DEF Inv, Typed, TypedHistory
  <2>. QED
    BY <2>1, <2>2, UnchangedInv
<1>. QED
  BY <1>1, <1>2, <1>3, <1>4, <1>5, <1>6, <1>7, <1>8 DEF Next, WriterStep

LEMMA InvConsistent == Inv => FilesConsistent
<1>. SUFFICES ASSUME Inv PROVE FilesConsistent
  OBVIOUS
<1>0. DiskInv(fs) /\ Typed /\ Steps /\ ProcessInv(fs)
  BY DEF Inv
<1>1. TypeOK
  <2>1. /\ version \subseteq 1 .. nextFile - 1 /\ pending \subseteq 1 .. nextFile - 1 /\ logNumber < nextFile
    <3>1. CASE phase = "down"
      BY <1>0, <3>1 DEF Steps, Quiet
    <3>2. CASE phase # "down"
      <4>1. /\ version \subseteq 1 .. nextFile - 1 /\ pending \subseteq 1 .. nextFile - 1
        BY <1>0, <3>2 DEF ProcessInv, Numbers
      <4>2. phase \in {"opening", "up"} => logNumber < nextFile
        BY <1>0, <3>2 DEF ProcessInv, Numbers
      <4>. QED
        BY <1>0, <3>2, <4>1, <4>2 DEF Steps, Typed, TypedMemory, TypedVersion
    <3>. QED
      BY <3>1, <3>2
  <2>2. apply.step \in {"none", "append", "sync", "current", "install", "failed"}
    BY <1>0 DEF Typed, TypedWork, ApplyRecord
  <2>. QED
    BY <1>0, <2>1, <2>2 DEF TypeOK, Typed, TypedMemory, TypedVersion, TypedHistory
<1>2. LiveFilesExist
  BY <1>0 DEF ProcessInv, InUse, LiveFilesExist, Reading
<1>3. SequencesUnique
  <2>1. Visible = Shown(fs)
    BY DEF Visible, Shown, Tables
  <2>. QED
    BY <1>0, <2>1 DEF ProcessInv, BatchesUnique, SequencesUnique, Unique
<1>. QED
  BY <1>1, <1>2, <1>3 DEF FilesConsistent

\* The invariant holds throughout: what the files, the manifests that CURRENT
\* may name and the process's own numbers have to do with each other, while
\* LogAndApply, CompactMemTable, DoCompactionWork, Recover and the deaths of the
\* process and the machine interleave, as long as every open could read the
\* logs it found to their ends.
THEOREM DiskAndProcessAgree == Spec => [](ReadWhole => Inv)
<1>1. Init => (ReadWhole => Inv)
  BY InitInv
<1>2. (ReadWhole => Inv) /\ [Next]_vars => (ReadWhole => Inv)'
  BY NextInv, ReadWholeBefore
<1>. QED
  BY <1>1, <1>2, PTL DEF Spec

\* DeleteObsoleteFiles deletes no table that the current version, a reader or a
\* compaction uses, nor the log that takes the writes, and Write and Recover
\* give no sequence number to two batches that a reader could meet, whatever
\* flush, compaction, failed operation or death comes between, as long as every
\* open could read the logs it found to their ends.
THEOREM FilesStayConsistent == Spec => [](ReadWhole => FilesConsistent)
BY DiskAndProcessAgree, InvConsistent, PTL

-----------------------------------------------------------------------------
(* What is kept of the writes.                                             *)

TablesRead(disk, tables) == UNION {ReadTable(disk, t) : t \in tables}

\* The tables that the next open will find.
Opened(disk) == TablesOf(Edits(disk))

Damaged(disk) == Dir(disk).current # 0 /\ TornEdit \in Range1(Edits(disk))

\* Acknowledged writes that are not behind part of a record.
Due == acked \ hidden

\* The batches of the memtables are still in a log.
MemLogged(disk) ==
    phase = "up" =>
       \A b \in Range1(mem) \cup Writing : b.id \in hidden \/ b \in ReadLog(disk, logNumber)
LoggedFrom(disk, n) ==
    {b \in Batch : \E m \in Nat : /\ n <= m /\ FileExists(disk, LogFile(m))
                                  /\ b \in ReadLog(disk, m)}
ImmLogged(disk) ==
    phase = "up" => \A b \in Range1(imm) : b.id \in hidden \/ b \in LoggedFrom(disk, versionLog)

\* A reader finds what is due.
AckedShown(disk) == phase = "up" => Due \subseteq Ids(Shown(disk))

\* A manifest that was not written to behind part of an edit can be read, and
\* it names the tables of the current version or ones with what is in them.
ManifestKeeps(disk) ==
    phase = "up" /\ ~Damaged(disk) =>
       /\ Readable(disk)
       /\ \A b \in Range1(imm) : b.id \in hidden \/ b \in Recoverable(disk)
       /\ \A t \in version : ReadTable(disk, t) \subseteq TablesRead(disk, Opened(disk))

\* Without an error, these and no others; DeleteObsoleteFiles relies on it.
ManifestExact(disk) ==
    phase = "up" /\ ~Damaged(disk) /\ ~bgError =>
       /\ apply.step \in {"none", "append"} => Opened(disk) = version
       /\ apply.step \in {"sync", "install"} =>
             Opened(disk) = (version \cup apply.edit.added) \ apply.edit.deleted

\* A recovery has in tables what the logs it has read hold.
RecoveryKeeps(disk) ==
    phase \in {"recovering", "opening"} =>
       /\ Readable(disk)
       /\ apply.step # "install" => Opened(disk) = version /\ LastEdit(disk).log = versionLog
       /\ apply.step = "install" => Opened(disk) = version \cup recovered
       /\ \A m \in Nat \ toRecover : FileExists(disk, LogFile(m)) /\ versionLog <= m =>
             ReadLog(disk, m) \subseteq TablesRead(disk, version \cup recovered)
DownKeeps(disk) == phase # "up" => Damaged(disk) \/ Due \subseteq Ids(Recoverable(disk))

KeepsInv(disk) ==
    /\ MemLogged(disk) /\ ImmLogged(disk) /\ AckedShown(disk)
    /\ ManifestKeeps(disk) /\ ManifestExact(disk)
    /\ RecoveryKeeps(disk) /\ DownKeeps(disk)

LEMMA LogsFromIs ==
    ASSUME NEW D, DiskTyped(D), NEW k \in Nat
    PROVE  LogsFrom(D, k) = {m \in Nat : m >= k /\ FileExists(D, LogFile(m))}
<1>1. Dir(D).names \subseteq File
  BY DirParts DEF DiskTyped
<1>2. ASSUME NEW m \in LogsFrom(D, k) PROVE m \in Nat /\ m >= k /\ FileExists(D, LogFile(m))
  <2>1. PICK f \in Dir(D).names : f.kind = "log" /\ f.num >= k /\ m = f.num
    BY <1>2 DEF LogsFrom
  <2>. QED
    BY <1>1, <2>1, FileNames DEF FileExists
<1>3. ASSUME NEW m \in Nat, m >= k, FileExists(D, LogFile(m)) PROVE m \in LogsFrom(D, k)
  BY <1>3, FileTypes DEF FileExists, LogsFrom
<1>. QED
  BY <1>2, <1>3

\* What an open finds, when the manifest can be read.
LEMMA RecoverableIs ==
    ASSUME NEW D, DiskInv(D), Readable(D)
    PROVE  /\ LastEdit(D).log \in Nat
           /\ TablesRead(D, Opened(D)) \subseteq Recoverable(D)
           /\ LoggedFrom(D, LastEdit(D).log) \subseteq Recoverable(D)
           /\ Recoverable(D) \subseteq TablesRead(D, Opened(D)) \cup LoggedFrom(D, LastEdit(D).log)
           /\ ~Damaged(D)
           /\ Opened(D) \subseteq Named(D) /\ Opened(D) \subseteq Nat
           /\ \A t \in Opened(D) : FileExists(D, TableFile(t)) /\ TableFile(t) \in Files(D)
           /\ FileExists(D, DescriptorFile(Dir(D).current))
<1>. DEFINE k == LastEdit(D).log
<1>1. k \in Nat /\ Opened(D) \subseteq Named(D)
  <2>1. LastEdit(D) \in EditRecord /\ TablesOf(Edits(D)) \subseteq Named(D)
    BY LastEditFacts
  <2>. QED
    BY <2>1 DEF EditRecord, Opened
<1>2. LogsFrom(D, k) = {m \in Nat : m >= k /\ FileExists(D, LogFile(m))}
  BY <1>1, LogsFromIs DEF DiskInv
<1>3. Recoverable(D) = TablesRead(D, Opened(D)) \cup UNION {ReadLog(D, n) : n \in LogsFrom(D, k)}
  BY DEF Recoverable, TablesRead, Opened, LastEdit
<1>4. UNION {ReadLog(D, n) : n \in LogsFrom(D, k)} = LoggedFrom(D, k)
  <2>0. Dir(D).names \subseteq Files(D)
    BY DirParts DEF DiskInv, DiskTyped, DirsTyped
  <2>1. ASSUME NEW n \in LogsFrom(D, k), NEW b \in ReadLog(D, n) PROVE b \in LoggedFrom(D, k)
    <3>1. n \in Nat /\ k <= n /\ FileExists(D, LogFile(n))
      BY <1>1, <1>2
    <3>2. b \in Batch
      BY <2>0, <3>1, ReadTypes DEF FileExists, DiskInv
    <3>. QED
      BY <2>1, <3>1, <3>2 DEF LoggedFrom
  <2>2. ASSUME NEW b \in LoggedFrom(D, k) PROVE \E n \in LogsFrom(D, k) : b \in ReadLog(D, n)
    <3>1. PICK m \in Nat : k <= m /\ FileExists(D, LogFile(m)) /\ b \in ReadLog(D, m)
      BY DEF LoggedFrom
    <3>. QED
      BY <1>1, <1>2, <3>1
  <2>3. LoggedFrom(D, k) \subseteq UNION {ReadLog(D, n) : n \in LogsFrom(D, k)}
    BY <2>2
  <2>4. UNION {ReadLog(D, n) : n \in LogsFrom(D, k)} \subseteq LoggedFrom(D, k)
    BY <2>1
  <2>. QED
    BY <2>3, <2>4
<1>5. ~Damaged(D) /\ FileExists(D, DescriptorFile(Dir(D).current))
  BY DEF Readable, Damaged
<1>6. \A t \in Opened(D) : FileExists(D, TableFile(t)) /\ TableFile(t) \in Files(D)
  <2>1. Dir(D).names \subseteq Files(D)
    BY DirParts DEF DiskInv, DiskTyped, DirsTyped
  <2>. QED
    BY <2>1 DEF Readable, Opened, FileExists
<1>7. Opened(D) \subseteq Nat
  BY <1>1 DEF Named
<1>. QED
  BY <1>1, <1>3, <1>4, <1>5, <1>6, <1>7

\* E keeps what an open finds on D.
OpenKept(D, E) ==
    /\ Dir(E).current = Dir(D).current /\ Edits(E) = Edits(D)
    /\ Readable(D) =>
          /\ FileExists(E, DescriptorFile(Dir(D).current))
          /\ \A t \in Opened(D) : FileExists(E, TableFile(t)) /\ ReadTable(E, t) = ReadTable(D, t)
          /\ \A n \in Nat : LastEdit(D).log <= n /\ FileExists(D, LogFile(n)) =>
                FileExists(E, LogFile(n)) /\ ReadLog(D, n) \subseteq ReadLog(E, n)

LEMMA SameTablesRead ==
    ASSUME NEW D, NEW E, NEW T, \A t \in T : ReadTable(E, t) = ReadTable(D, t)
    PROVE  TablesRead(E, T) = TablesRead(D, T)
<1>1. {ReadTable(E, t) : t \in T} = {ReadTable(D, t) : t \in T}
  OBVIOUS
<1>. QED
  BY <1>1 DEF TablesRead

LEMMA OpenKeeps ==
    ASSUME NEW D, NEW E, DiskInv(D), DiskInv(E), OpenKept(D, E)
    PROVE  /\ Damaged(E) <=> Damaged(D)
           /\ Opened(E) = Opened(D) /\ LastEdit(E) = LastEdit(D)
           /\ Readable(D) => Readable(E) /\ TablesRead(E, Opened(E)) = TablesRead(D, Opened(D))
           /\ Recoverable(D) \subseteq Recoverable(E)
<1>0. Dir(E).current = Dir(D).current /\ Edits(E) = Edits(D)
  BY DEF OpenKept
<1>1. (Damaged(E) <=> Damaged(D)) /\ Opened(E) = Opened(D) /\ LastEdit(E) = LastEdit(D)
  BY <1>0 DEF Damaged, Opened, LastEdit
<1>2. ASSUME Readable(D)
      PROVE  /\ Readable(E) /\ TablesRead(E, Opened(E)) = TablesRead(D, Opened(D))
             /\ LoggedFrom(D, LastEdit(D).log) \subseteq LoggedFrom(E, LastEdit(D).log)
  <2>1. Readable(E)
    BY <1>0, <1>2 DEF OpenKept, Readable, Opened
  <2>2. TablesRead(E, Opened(E)) = TablesRead(D, Opened(D))
    BY <1>1, <1>2, SameTablesRead DEF OpenKept
  <2>3. LoggedFrom(D, LastEdit(D).log) \subseteq LoggedFrom(E, LastEdit(D).log)
    BY <1>2 DEF OpenKept, LoggedFrom
  <2>. QED
    BY <2>1, <2>2, <2>3
<1>3. Recoverable(D) \subseteq Recoverable(E)
  <2>1. CASE Readable(D)
    BY <1>1, <1>2, <2>1, RecoverableIs
  <2>2. CASE ~Readable(D)
    BY <2>2 DEF Recoverable
  <2>. QED
    BY <2>1, <2>2
<1>. QED
  BY <1>1, <1>2, <1>3

\* A step that touches one file, when it is none that an open uses, or a log
\* that loses nothing.
LEMMA TouchOpenKept ==
    ASSUME NEW D, NEW E, NEW f, DiskInv(D), Touches(D, E, f), Dir(D).current > 0,
           f = DescriptorFile(Dir(D).current) => Records(E, f) = Records(D, f),
           \A t \in Opened(D) : f = TableFile(t) => Records(E, f) = Records(D, f),
           \A n \in Nat : f = LogFile(n) /\ f \in Dir(D).names => ReadLog(D, n) \subseteq ReadLog(E, n)
    PROVE  OpenKept(D, E)
<1>1. /\ Dir(E).current = Dir(D).current /\ Dir(D).names \subseteq Dir(E).names
      /\ \A g \in Files(E) : g # f => Records(E, g) = Records(D, g)
      /\ Dir(E).names \subseteq Files(E)
  BY DirParts DEF Touches, DiskTyped, DirsTyped, Records
<1>2. DescriptorFile(Dir(D).current) \in Dir(D).names
  BY DirParts DEF DiskInv, DiskTyped, DirsRight
<1>3. EditsIn(E, Dir(E).current) = EditsIn(D, Dir(D).current)
  BY <1>1, <1>2 DEF EditsIn
<1>4. Edits(E) = Edits(D)
  BY <1>3, EditsFacts
<1>5. ASSUME Readable(D), NEW t \in Opened(D)
      PROVE  FileExists(E, TableFile(t)) /\ ReadTable(E, t) = ReadTable(D, t)
  <2>1. TableFile(t) \in Dir(D).names
    BY <1>5, RecoverableIs DEF FileExists
  <2>2. Records(E, TableFile(t)) = Records(D, TableFile(t))
    BY <1>1, <2>1
  <2>. QED
    BY <1>1, <2>1, <2>2 DEF FileExists, ReadTable
<1>6. ASSUME NEW n \in Nat, FileExists(D, LogFile(n))
      PROVE  FileExists(E, LogFile(n)) /\ ReadLog(D, n) \subseteq ReadLog(E, n)
  <2>1. LogFile(n) \in Dir(D).names /\ LogFile(n) \in Files(E) /\ FileExists(E, LogFile(n))
    BY <1>1, <1>6 DEF FileExists
  <2>2. CASE f = LogFile(n)
    BY <2>1, <2>2
  <2>3. CASE f # LogFile(n)
    <3>1. Records(E, LogFile(n)) = Records(D, LogFile(n))
      BY <1>1, <2>1, <2>3
    <3>. QED
      BY <2>1, <3>1 DEF ReadLog
  <2>. QED
    BY <2>1, <2>2, <2>3
<1>. QED
  BY <1>1, <1>2, <1>4, <1>5, <1>6 DEF OpenKept, FileExists

\* Harmless steps of the disk lose nothing.
LEMMA HarmlessKeeps ==
    ASSUME NEW D, NEW E, NEW f, DiskInv(D), DiskInv(E), Typed, Steps, ProcessInv(D),
           phase # "down", Touches(D, E, f), Harmless(D, E, f), KeepsInv(D)
    PROVE  /\ KeepsInv(E) /\ OpenKept(D, E)
           /\ \A t \in version \cup Found \cup Adding : FileExists(D, TableFile(t)) =>
                 FileExists(E, TableFile(t)) /\ ReadTable(E, t) = ReadTable(D, t)
<1>0. Dir(D).current > 0 /\ Numbers(D) /\ DiskTyped(D) /\ DirsRight(D)
  BY DEF ProcessInv, Numbers, DiskInv
<1>1. /\ \A n \in Nat : LogFile(n) \in Files(E) => ReadLog(E, n) = ReadLog(D, n)
      /\ \A n \in Nat : FileExists(E, LogFile(n)) <=> FileExists(D, LogFile(n))
      /\ \A t \in version \cup Found \cup Adding : TableFile(t) \in Files(E) =>
            ReadTable(E, t) = ReadTable(D, t)
      /\ Edits(E) = Edits(D)
  BY <1>0, HarmlessReads DEF FileExists
<1>2. /\ Dir(E).current = Dir(D).current /\ Dir(D).names \subseteq Dir(E).names
      /\ Dir(E).names \subseteq Files(E)
  BY DirParts DEF Touches, DiskInv, DiskTyped, DirsTyped
<1>3. \A n \in Nat : FileExists(D, LogFile(n)) => ReadLog(E, n) = ReadLog(D, n)
  BY <1>1, <1>2 DEF FileExists
<1>4. \A t \in version \cup Found \cup Adding : FileExists(D, TableFile(t)) =>
          FileExists(E, TableFile(t)) /\ ReadTable(E, t) = ReadTable(D, t)
  BY <1>1, <1>2 DEF FileExists
<1>5. OpenKept(D, E)
  <2>1. f = DescriptorFile(Dir(D).current) => Records(E, f) = Records(D, f)
    BY <1>0, CurrentOfDir DEF Harmless
  <2>2. ASSUME Readable(D), NEW t \in Opened(D)
        PROVE  FileExists(E, TableFile(t)) /\ ReadTable(E, t) = ReadTable(D, t)
    <3>1. t \in Named(D) /\ FileExists(D, TableFile(t))
      BY <2>2, RecoverableIs
    <3>2. TableFile(t) \in Files(E) => ReadTable(E, t) = ReadTable(D, t)
      BY <1>0, <3>1, HarmlessReads
    <3>. QED
      BY <1>2, <3>1, <3>2 DEF FileExists
  <2>3. DescriptorFile(Dir(D).current) \in Dir(D).names
    BY <1>0, DirParts DEF DiskTyped, DirsRight
  <2>. QED
    BY <1>1, <1>2, <1>3, <2>2, <2>3 DEF OpenKept, FileExists
<1>6. /\ Damaged(E) <=> Damaged(D)
      /\ Opened(E) = Opened(D) /\ LastEdit(E) = LastEdit(D)
      /\ Readable(D) => Readable(E) /\ TablesRead(E, Opened(E)) = TablesRead(D, Opened(D))
      /\ Recoverable(D) \subseteq Recoverable(E)
  BY <1>5, OpenKeeps
<1>7. \A n : LoggedFrom(E, n) = LoggedFrom(D, n)
  BY <1>1, <1>3 DEF LoggedFrom
<1>8. \A t \in version \cup Found : FileExists(D, TableFile(t)) /\ ReadTable(E, t) = ReadTable(D, t)
  BY <1>4 DEF ProcessInv, InUse
<1>9. TablesRead(E, version \cup Found) = TablesRead(D, version \cup Found)
  BY <1>8, SameTablesRead
<1>10. MemLogged(E)
  <2>1. phase = "up" => ReadLog(E, logNumber) = ReadLog(D, logNumber)
    BY <1>3 DEF ProcessInv, InUse, Typed, TypedMemory
  <2>. QED
    BY <2>1 DEF KeepsInv, MemLogged
<1>11. ImmLogged(E)
  BY <1>7 DEF KeepsInv, ImmLogged
<1>12. AckedShown(E)
  <2>1. {ReadTable(E, t) : t \in version} = {ReadTable(D, t) : t \in version}
    BY <1>8
  <2>. QED
    BY <2>1 DEF KeepsInv, AckedShown, Shown
<1>13. ManifestKeeps(E)
  BY <1>6, <1>8 DEF KeepsInv, ManifestKeeps
<1>14. ManifestExact(E)
  BY <1>6 DEF KeepsInv, ManifestExact
<1>15. RecoveryKeeps(E)
  <2>. SUFFICES ASSUME phase \in {"recovering", "opening"} PROVE RecoveryKeeps(E)
    BY DEF RecoveryKeeps
  <2>1. Found = recovered
    BY DEF Found
  <2>2. /\ Readable(E)
        /\ apply.step # "install" => Opened(E) = version /\ LastEdit(E).log = versionLog
        /\ apply.step = "install" => Opened(E) = version \cup recovered
    BY <1>6 DEF KeepsInv, RecoveryKeeps
  <2>3. ASSUME NEW m \in Nat \ toRecover, FileExists(E, LogFile(m)), versionLog <= m
        PROVE  ReadLog(E, m) \subseteq TablesRead(E, version \cup recovered)
    <3>1. FileExists(D, LogFile(m)) /\ ReadLog(E, m) = ReadLog(D, m)
      BY <1>1, <1>3, <2>3
    <3>2. ReadLog(D, m) \subseteq TablesRead(D, version \cup recovered)
      BY <2>3, <3>1 DEF KeepsInv, RecoveryKeeps
    <3>. QED
      BY <1>9, <2>1, <3>1, <3>2
  <2>. QED
    BY <2>2, <2>3 DEF RecoveryKeeps
<1>16. DownKeeps(E)
  BY <1>6 DEF KeepsInv, DownKeeps, Ids
<1>. QED
  BY <1>4, <1>5, <1>10, <1>11, <1>12, <1>13, <1>14, <1>15, <1>16 DEF KeepsInv

-----------------------------------------------------------------------------
(* Steps of the process that keep what there is.                           *)

LEMMA InitKeeps == Init => KeepsInv(fs)
<1>. SUFFICES ASSUME Init PROVE KeepsInv(fs)
  OBVIOUS
<1>1. phase = "down" /\ acked = {} /\ hidden = {}
  BY DEF Init
<1>2. Due = {}
  BY <1>1 DEF Due
<1>. QED
  BY <1>1, <1>2 DEF KeepsInv, MemLogged, ImmLogged, AckedShown, ManifestKeeps, ManifestExact,
                    RecoveryKeeps, DownKeeps

\* Where no process is left, what is due must be on the disk.
LEMMA NoProcessKeeps ==
    ASSUME NoProcess, Damaged(fs') \/ Due' \subseteq Ids(Recoverable(fs'))
    PROVE  KeepsInv(fs)'
<1>1. phase' = "down"
  BY DEF NoProcess
<1>. QED
  BY <1>1 DEF KeepsInv, MemLogged, ImmLogged, AckedShown, ManifestKeeps, ManifestExact,
              RecoveryKeeps, DownKeeps, Damaged, Recoverable, Readable, Edits, ReadTable, ReadLog

\* The manifest's log number is not above what every edit's is not.
LEMMA LastEditLog ==
    ASSUME NEW D, DiskInv(D), Readable(D), NEW n, LogsUpTo(D, n)
    PROVE  LastEdit(D).log <= n
<1>. DEFINE c == Dir(D).current
            s == EditsIn(D, c)
            g == Edits(D)
            l == Len(g)
<1>1. c \in Currents(D) /\ LastEdit(D) \in EditRecord /\ LastEdit(D).numbers
  BY LastEditFacts
<1>2. s \in Seq(EditRecord \cup {TornEdit})
  BY <1>1, CurrentFacts DEF DiskInv
<1>3. g = Complete(s) /\ g \in Seq(EditRecord \cup {TornEdit}) /\ Prefix(g, s) /\ g # <<>>
  BY <1>2, CompletePrefix, EditsComplete DEF Readable
<1>. HIDE DEF g, s
<1>4. l \in DOMAIN g
  BY <1>3, LenProperties, EmptySeq
<1>5. l \in DOMAIN s /\ s[l] = g[l] /\ g[l] = LastEdit(D)
  BY <1>3, <1>4 DEF Prefix, LastEdit, g
<1>6. Numbered(s[l])
  BY <1>1, <1>5, EditsNotTorn DEF Numbered
<1>. QED
  BY <1>1, <1>5, <1>6 DEF LogsUpTo, s

\* What is due is on the disk before a death of the process.
LEMMA DueRecoverable ==
    ASSUME Inv, KeepsInv(fs)
    PROVE  Damaged(fs) \/ Due \subseteq Ids(Recoverable(fs))
<1>. SUFFICES ASSUME phase = "up", ~Damaged(fs), NEW i \in Due PROVE i \in Ids(Recoverable(fs))
  BY DEF KeepsInv, DownKeeps
<1>0. DiskInv(fs) /\ Readable(fs) /\ i \notin hidden /\ Numbers(fs) /\ logNumber \in Nat
  BY DEF Inv, ProcessInv, KeepsInv, ManifestKeeps, Due, Typed, TypedMemory
<1>1. PICK b \in Shown(fs) : i = b.id
  BY DEF KeepsInv, AckedShown, Ids
<1>2. b \in Recoverable(fs)
  <2>1. CASE b \in Range1(mem)
    <3>1. b \in ReadLog(fs, logNumber) /\ FileExists(fs, LogFile(logNumber))
      BY <1>0, <1>1, <2>1 DEF KeepsInv, MemLogged, Inv, ProcessInv, InUse
    <3>2. LastEdit(fs).log <= logNumber
      BY <1>0, LastEditLog DEF Numbers
    <3>3. b \in Batch
      BY <2>1, RangeFinite DEF Inv, Typed, TypedMemory
    <3>4. b \in LoggedFrom(fs, LastEdit(fs).log)
      BY <1>0, <3>1, <3>2, <3>3 DEF LoggedFrom
    <3>. QED
      BY <1>0, <3>4, RecoverableIs
  <2>2. CASE b \in Range1(imm)
    BY <1>0, <1>1, <2>2 DEF KeepsInv, ManifestKeeps
  <2>3. CASE b \in UNION {ReadTable(fs, t) : t \in version}
    <3>1. b \in TablesRead(fs, Opened(fs))
      BY <2>3 DEF KeepsInv, ManifestKeeps
    <3>. QED
      BY <1>0, <3>1, RecoverableIs
  <2>. QED
    BY <2>1, <2>2, <2>3 DEF Shown
<1>. QED
  BY <1>1, <1>2 DEF Ids

LEMMA KillKeeps ==
    ASSUME Inv, KeepsInv(fs), Kill
    PROVE  KeepsInv(fs)'
<1>1. NoProcess /\ fs' = fs /\ acked' = acked /\ hidden' = hidden
  BY DEF Kill
<1>2. Due' = Due
  BY <1>1 DEF Due
<1>. QED
  BY <1>1, <1>2, DueRecoverable, NoProcessKeeps

LEMMA PowerFailureKeeps ==
    ASSUME PowerFailure
    PROVE  KeepsInv(fs)'
<1>1. NoProcess /\ Due' \subseteq Ids(Recoverable(fs'))
  BY DEF PowerFailure, Due
<1>. QED
  BY <1>1, NoProcessKeeps

\* The steps that change neither the memtables, the versions nor the recovery.
LEMMA QuietStepKeeps ==
    ASSUME KeepsInv(fs'), Writing' \subseteq Writing,
           UNCHANGED <<phase, mem, imm, logNumber, version, versionLog, acked, hidden>>,
           ManifestExact(fs)', RecoveryKeeps(fs)'
    PROVE  KeepsInv(fs)'
<1>1. MemLogged(fs)'
  BY DEF KeepsInv, MemLogged
<1>2. ImmLogged(fs)'
  BY DEF KeepsInv, ImmLogged
<1>3. AckedShown(fs)'
  BY DEF KeepsInv, AckedShown, Due, Shown
<1>4. ManifestKeeps(fs)'
  BY DEF KeepsInv, ManifestKeeps
<1>5. DownKeeps(fs)'
  BY DEF KeepsInv, DownKeeps, Due
<1>. QED
  BY <1>1, <1>2, <1>3, <1>4, <1>5 DEF KeepsInv

\* What a process that is open does not disturb.
LEMMA OpenStepKeeps ==
    ASSUME phase = "up", KeepsInv(fs'), Writing' \subseteq Writing,
           UNCHANGED <<phase, mem, imm, logNumber, version, versionLog, acked, hidden>>,
           \/ bgError'
           \/ bgError' = bgError /\ apply' = apply
           \/ /\ bgError' = bgError /\ apply.step \in {"none", "append"}
              /\ apply'.step \in {"none", "append", "failed"}
    PROVE  KeepsInv(fs)'
<1>1. ManifestExact(fs)'
  BY DEF KeepsInv, ManifestExact
<1>2. RecoveryKeeps(fs)'
  BY DEF RecoveryKeeps
<1>. QED
  BY <1>1, <1>2, QuietStepKeeps

\* In the middle of a write, a flush or a compaction, the database is open.
LEMMA WorkIsUp ==
    ASSUME Inv, writer.step # "idle" \/ flush.step # "none" \/ comp.step # "none" \/ held # NoReader
    PROVE  phase = "up"
BY NothingTyped DEF Inv, Steps, Quiet

LEMMA FlushBeginKeeps ==
    ASSUME Inv, KeepsInv(fs), FlushBegin
    PROVE  KeepsInv(fs)'
<1>1. /\ phase = "up" /\ fs' = fs /\ apply' = apply /\ bgError' = bgError /\ writer' = writer
      /\ UNCHANGED <<phase, mem, imm, logNumber, version, versionLog, acked, hidden>>
  BY DEF FlushBegin, memoryVars, historyVars
<1>. QED
  BY <1>1, OpenStepKeeps DEF Writing

LEMMA ReaderKeeps ==
    ASSUME Inv, KeepsInv(fs), ReaderBegin \/ ReaderEnd
    PROVE  KeepsInv(fs)'
<1>1. /\ phase = "up" /\ fs' = fs /\ apply' = apply /\ bgError' = bgError /\ writer' = writer
      /\ UNCHANGED <<phase, mem, imm, logNumber, version, versionLog, acked, hidden>>
  BY WorkIsUp DEF ReaderBegin, ReaderEnd, memoryVars, versionVars, historyVars
<1>. QED
  BY <1>1, OpenStepKeeps DEF Writing

\* No edit is applied while a compaction is not at its end and no flush is.
LEMMA NothingApplied ==
    ASSUME Inv, phase = "up", comp.step # "apply", flush.step # "apply"
    PROVE  apply.step = "none" /\ Adding = {}
<1>1. apply.for \in {"none", "open", "flush", "compaction"}
  BY DEF Inv, Typed, TypedWork, ApplyRecord
<1>. QED
  BY <1>1 DEF Inv, Steps, Adding

LEMMA InstallCompactionResultsKeeps ==
    ASSUME Inv, KeepsInv(fs), InstallCompactionResults
    PROVE  KeepsInv(fs)'
<1>1. /\ comp.step = "written" /\ flush.step = "none" /\ fs' = fs /\ apply'.step = "append"
      /\ bgError' = bgError /\ writer' = writer
      /\ UNCHANGED <<phase, mem, imm, logNumber, version, versionLog, acked, hidden>>
  BY NothingTyped DEF InstallCompactionResults, BeginApply, memoryVars, historyVars
<1>2. phase = "up" /\ apply.step = "none"
  BY <1>1, WorkIsUp, NothingApplied
<1>. QED
  BY <1>1, <1>2, OpenStepKeeps DEF Writing

\* A table that nothing uses yet.
LEMMA NewTableHarmless ==
    ASSUME NEW D, NEW E, Inv, DiskTyped(D), DirsRight(D), NEW n \in Nat, Adding = {},
           n \notin Named(D) \cup version \cup Found
    PROVE  Harmless(D, E, TableFile(n))
<1>1. /\ \A c \in Currents(D) : TableFile(n) # DescriptorFile(c)
      /\ \A k \in Nat : TableFile(n) # LogFile(k)
  BY FilesDiffer, CurrentFacts
<1>2. \A t \in Named(D) \cup version \cup Found : TableFile(n) # TableFile(t)
  <2>1. \A t \in Named(D) \cup version \cup Found : t \in Nat /\ t # n
    BY DEF Named, Found, Inv, Typed, TypedVersion
  <2>. QED
    BY <2>1, FilesDiffer
<1>. QED
  BY <1>1, <1>2 DEF Harmless

LEMMA WriteLevel0TableKeeps ==
    ASSUME Inv, Inv', KeepsInv(fs), WriteLevel0Table
    PROVE  KeepsInv(fs)'
<1>. DEFINE f == TableFile(flush.out)
<1>0. /\ flush.step = "build" /\ writer' = writer
      /\ UNCHANGED <<phase, mem, imm, logNumber, version, versionLog, acked, hidden>>
      /\ \/ fs' = BuildTable(fs, flush.out, imm) /\ bgError' = bgError /\ apply'.step = "append"
         \/ fs' = fs /\ bgError' = TRUE
  BY DEF WriteLevel0Table, BeginApply, memoryVars, historyVars
<1>1. phase = "up" /\ comp.step # "apply" /\ Found = {}
  BY <1>0, WorkIsUp DEF Inv, Steps, Found
<1>2. apply.step = "none" /\ Adding = {}
  BY <1>0, <1>1, NothingApplied
<1>3. CASE fs' = BuildTable(fs, flush.out, imm) /\ bgError' = bgError /\ apply'.step = "append"
  <2>0. DiskInv(fs) /\ DiskInv(fs') /\ Typed /\ Steps /\ ProcessInv(fs)
    BY DEF Inv
  <2>1. flush.out \in Nat /\ imm \in Seq(Batch)
    BY <2>0 DEF Typed, TypedMemory, TypedWork, FlushRecord
  <2>2. Touches(fs, fs', f)
    BY <1>3, <2>0, <2>1, BuildTableTouches DEF DiskInv
  <2>3. flush.out \notin Named(fs) \cup version \cup Found
    BY <1>0, <1>1, <2>0 DEF ProcessInv, Outputs
  <2>4. Harmless(fs, fs', f)
    BY <1>2, <2>0, <2>1, <2>3, NewTableHarmless DEF DiskInv
  <2>5. KeepsInv(fs')
    BY <1>1, <2>0, <2>2, <2>4, HarmlessKeeps
  <2>. QED
    BY <1>0, <1>1, <1>2, <1>3, <2>5, OpenStepKeeps DEF Writing
<1>4. CASE fs' = fs /\ bgError' = TRUE
  BY <1>0, <1>1, <1>4, OpenStepKeeps DEF Writing
<1>. QED
  BY <1>0, <1>3, <1>4

LEMMA CompactionBeginKeeps ==
    ASSUME Inv, Inv', KeepsInv(fs), NEW inputs \in SUBSET version, CompactionBegin(inputs)
    PROVE  KeepsInv(fs)'
<1>. DEFINE f == TableFile(nextFile)
<1>0. /\ phase = "up" /\ comp.step = "none" /\ flush.step = "none" /\ writer' = writer
      /\ UNCHANGED <<phase, mem, imm, logNumber, version, versionLog, acked, hidden>>
      /\ fs' = NewWritableFile(fs, f) /\ bgError' = bgError /\ apply' = apply
  BY NothingTyped DEF CompactionBegin, memoryVars, historyVars
<1>1. Adding = {} /\ Found = {}
  BY <1>0, NothingApplied DEF Found
<1>2. /\ DiskInv(fs) /\ DiskInv(fs') /\ Typed /\ Steps /\ ProcessInv(fs) /\ Numbers(fs)
      /\ nextFile \in Nat
  BY DEF Inv, ProcessInv, Typed, TypedVersion
<1>3. Touches(fs, fs', f)
  BY <1>0, <1>2, NewFileTouches, FileTypes DEF DiskInv
<1>4. nextFile \notin Named(fs) \cup version \cup Found
  <2>1. /\ \A t \in Named(fs) : t > 0 /\ t < nextFile
        /\ version \subseteq 1 .. nextFile - 1
    BY <1>0, <1>2 DEF Numbers
  <2>. QED
    BY <1>1, <1>2, <2>1
<1>5. Harmless(fs, fs', f)
  BY <1>1, <1>2, <1>4, NewTableHarmless DEF DiskInv
<1>6. KeepsInv(fs')
  BY <1>0, <1>2, <1>3, <1>5, HarmlessKeeps
<1>. QED
  BY <1>0, <1>6, OpenStepKeeps DEF Writing

LEMMA CompactionFinishKeeps ==
    ASSUME Inv, Inv', KeepsInv(fs), CompactionFinish
    PROVE  KeepsInv(fs)'
<1>. DEFINE f == TableFile(comp.out)
            s == SetToSeq(UNION {ReadTable(fs, t) : t \in comp.inputs})
<1>0. /\ comp.step = "running" /\ flush.step = "none" /\ writer' = writer
      /\ UNCHANGED <<phase, mem, imm, logNumber, version, versionLog, acked, hidden>>
      /\ \/ fs' = Sync(AddRecords(fs, f, s), f) /\ bgError' = bgError /\ apply' = apply
         \/ fs' = fs /\ bgError' = TRUE
  BY NothingTyped DEF CompactionFinish, CompactionAborts, memoryVars, historyVars
<1>1. phase = "up" /\ Found = {}
  BY <1>0, WorkIsUp DEF Found
<1>2. apply.step = "none" /\ Adding = {}
  BY <1>0, <1>1, NothingApplied
<1>3. CASE fs' = Sync(AddRecords(fs, f, s), f) /\ bgError' = bgError /\ apply' = apply
  <2>0. DiskInv(fs) /\ DiskInv(fs') /\ Typed /\ Steps /\ ProcessInv(fs) /\ DiskTyped(fs)
    BY DEF Inv, DiskInv
  <2>1. s \in Seq(Batch)
    BY <1>0, CompactionBatches
  <2>2. comp.out \in Nat /\ f \in Dir(fs).names /\ comp.out \notin Named(fs) \cup version \cup Found
    BY <1>0, <1>1, <2>0 DEF Typed, TypedWork, CompactionRecord, ProcessInv, Outputs, FileExists
  <2>. HIDE DEF s
  <2>. DEFINE D1 == AddRecords(fs, f, s)
  <2>3. Touches(fs, D1, f)
    <3>1. Item(f) = Batch
      BY <2>2, FileTypes DEF Item
    <3>. HIDE DEF f
    <3>. QED
      BY <2>0, <2>1, <2>2, <3>1, AddRecordsTouches
  <2>4. fs' = Sync(D1, f)
    BY <1>3
  <2>. HIDE DEF D1
  <2>5. DiskTyped(D1) /\ f \in Dir(D1).names
    BY <2>2, <2>3 DEF Touches
  <2>6. Touches(fs, fs', f)
    BY <2>3, <2>4, <2>5, SyncTouches, TouchTwice
  <2>7. Harmless(fs, fs', f)
    BY <1>2, <2>0, <2>2, NewTableHarmless DEF DiskInv
  <2>8. KeepsInv(fs')
    BY <1>1, <2>0, <2>6, <2>7, HarmlessKeeps
  <2>. QED
    BY <1>0, <1>1, <1>3, <2>8, OpenStepKeeps DEF Writing
<1>4. CASE fs' = fs /\ bgError' = TRUE
  BY <1>0, <1>1, <1>4, OpenStepKeeps DEF Writing
<1>. QED
  BY <1>0, <1>3, <1>4

LEMMA SyncLogKeeps ==
    ASSUME Inv, Inv', KeepsInv(fs), SyncLog
    PROVE  KeepsInv(fs)'
<1>. DEFINE f == LogFile(logNumber)
<1>0. /\ writer.step = "logged" /\ writer \in WriteRecord
      /\ UNCHANGED <<phase, mem, imm, logNumber, version, versionLog, acked, hidden, apply>>
      /\ \/ fs' = Sync(fs, f) /\ bgError' = bgError /\ writer' = [writer EXCEPT !.step = "synced"]
         \/ fs' = fs /\ bgError' = TRUE /\ writer' = NoWrite
  BY DEF SyncLog, memoryVars, historyVars, Inv, Typed, TypedWork
<1>1. phase = "up" /\ Writing' \subseteq Writing
  BY <1>0, WorkIsUp, NothingTyped DEF Writing, WriteRecord
<1>2. CASE fs' = Sync(fs, f) /\ bgError' = bgError
  <2>0. DiskInv(fs) /\ DiskInv(fs') /\ Typed /\ Steps /\ ProcessInv(fs) /\ DiskTyped(fs)
    BY DEF Inv, DiskInv
  <2>1. f \in Dir(fs).names
    BY <1>1, <2>0 DEF ProcessInv, InUse, FileExists
  <2>2. Touches(fs, fs', f) /\ Harmless(fs, fs', f)
    BY <1>2, <2>0, <2>1, SyncHarmless
  <2>3. KeepsInv(fs')
    BY <1>1, <2>0, <2>2, HarmlessKeeps
  <2>. QED
    BY <1>0, <1>1, <1>2, <2>3, OpenStepKeeps
<1>3. CASE fs' = fs /\ bgError' = TRUE
  BY <1>0, <1>1, <1>3, OpenStepKeeps
<1>. QED
  BY <1>0, <1>2, <1>3

LEMMA InsertIntoKeeps ==
    ASSUME Inv, KeepsInv(fs), InsertInto
    PROVE  KeepsInv(fs)'
<1>0. /\ writer.step # "idle" /\ phase = "up" /\ mem' = Append(mem, writer.batch) /\ writer' = NoWrite
      /\ acked' = acked \cup {writer.batch.id} /\ writer.batch \in Batch /\ mem \in Seq(Batch)
      /\ UNCHANGED <<fs, phase, imm, logNumber, version, versionLog, bgError, apply, hidden>>
  BY WorkIsUp, NothingTyped DEF InsertInto, Inv, Typed, TypedMemory, TypedWork, WriteRecord
<1>1. Range1(mem') = Range1(mem) \cup {writer.batch} /\ Writing = {writer.batch} /\ Writing' = {}
  <2>1. mem' = mem \o <<writer.batch>>
    BY <1>0, AppendIsConcat
  <2>. QED
    BY <1>0, <2>1, OneMore, NothingTyped DEF Writing
<1>2. MemLogged(fs)'
  BY <1>0, <1>1 DEF KeepsInv, MemLogged
<1>3. ImmLogged(fs)'
  BY <1>0 DEF KeepsInv, ImmLogged
<1>4. AckedShown(fs)'
  <2>1. Shown(fs)' = Shown(fs) \cup {writer.batch}
    BY <1>0, <1>1 DEF Shown
  <2>2. Due' \subseteq Due \cup {writer.batch.id}
    BY <1>0 DEF Due
  <2>3. Due \subseteq Ids(Shown(fs))
    BY <1>0 DEF KeepsInv, AckedShown
  <2>4. Ids(Shown(fs)') = Ids(Shown(fs)) \cup {writer.batch.id}
    BY <2>1 DEF Ids
  <2>. QED
    BY <2>2, <2>3, <2>4 DEF AckedShown
<1>5. ManifestKeeps(fs)' /\ ManifestExact(fs)'
  BY <1>0 DEF KeepsInv, ManifestKeeps, ManifestExact
<1>6. RecoveryKeeps(fs)' /\ DownKeeps(fs)'
  BY <1>0 DEF RecoveryKeeps, DownKeeps
<1>. QED
  BY <1>2, <1>3, <1>4, <1>5, <1>6 DEF KeepsInv

LEMMA SyncManifestKeeps ==
    ASSUME Inv, Inv', KeepsInv(fs), SyncManifest
    PROVE  KeepsInv(fs)'
<1>0. /\ apply.step = "sync" /\ apply \in ApplyRecord
      /\ UNCHANGED <<phase, mem, imm, logNumber, version, versionLog, acked, hidden, bgError, writer,
                     toRecover, recovered>>
      /\ \/ /\ fs' = Sync(fs, Descriptor)
            /\ apply' = [apply EXCEPT !.step = IF apply.for = "open" THEN "current" ELSE "install"]
         \/ fs' = fs /\ apply' = [apply EXCEPT !.step = "failed"]
  BY DEF SyncManifest, memoryVars, versionVars, recoveryVars, historyVars, Inv, Typed, TypedWork
<1>1. /\ phase \in {"up", "opening"} /\ (phase = "opening" <=> apply.for = "open") /\ manifest \in Nat
      /\ apply.for # "none"
  BY <1>0, NothingTyped DEF Inv, Steps, Typed, TypedMemory, TypedVersion, TypedWork, ApplyRecord
<1>2. KeepsInv(fs')
  <2>1. CASE fs' = fs
    BY <2>1
  <2>2. CASE fs' = Sync(fs, Descriptor)
    <3>0. DiskInv(fs) /\ DiskInv(fs') /\ Typed /\ Steps /\ ProcessInv(fs) /\ DiskTyped(fs) /\ DirsRight(fs)
      BY DEF Inv, DiskInv
    <3>1. Descriptor \in Dir(fs).names
      <4>1. CASE phase = "opening"
        BY <1>0, <1>1, <3>0, <4>1 DEF ProcessInv, EditWritten, FileExists, Descriptor
      <4>2. CASE phase = "up"
        <5>1. Dir(fs).current = manifest /\ Dir(fs) \in Dirs(fs) /\ Dir(fs).current > 0
          BY <3>0, <4>2, DirParts DEF ProcessInv, Numbers, DiskTyped
        <5>. QED
          BY <1>1, <3>0, <5>1 DEF DirsRight, Descriptor
      <4>. QED
        BY <1>1, <4>1, <4>2
    <3>2. Touches(fs, fs', Descriptor) /\ Harmless(fs, fs', Descriptor)
      BY <2>2, <3>0, <3>1, SyncHarmless
    <3>. QED
      BY <1>1, <3>0, <3>2, HarmlessKeeps
  <2>. QED
    BY <1>0, <2>1, <2>2
<1>3. \/ apply'.step = "failed" /\ apply'.edit = apply.edit
      \/ apply'.step = "install" /\ phase = "up" /\ apply'.edit = apply.edit
      \/ apply'.step = "current" /\ phase = "opening" /\ apply'.edit = apply.edit
  BY <1>0, <1>1 DEF ApplyRecord
<1>4. ManifestExact(fs)'
  BY <1>0, <1>2, <1>3 DEF KeepsInv, ManifestExact
<1>5. RecoveryKeeps(fs)'
  BY <1>0, <1>1, <1>2, <1>3 DEF KeepsInv, RecoveryKeeps
<1>. QED
  BY <1>0, <1>2, <1>4, <1>5, QuietStepKeeps DEF Writing

\* The new manifest is given up.
LEMMA SetCurrentFailsKeeps ==
    ASSUME Inv, KeepsInv(fs), SetCurrentFails
    PROVE  KeepsInv(fs)'
<1>0. /\ apply.step = "current" /\ apply \in ApplyRecord /\ fs' = fs
      /\ UNCHANGED <<phase, mem, imm, logNumber, version, versionLog, acked, hidden, bgError, writer,
                     toRecover, recovered>>
      /\ apply' = [apply EXCEPT !.step = "failed"]
  BY DEF SetCurrentFails, memoryVars, versionVars, recoveryVars, historyVars, Inv, Typed, TypedWork
<1>1. apply'.step = "failed"
  BY <1>0 DEF ApplyRecord
<1>2. ManifestExact(fs)'
  BY <1>0, <1>1 DEF KeepsInv, ManifestExact
<1>3. RecoveryKeeps(fs)'
  BY <1>0, <1>1 DEF KeepsInv, RecoveryKeeps
<1>. QED
  BY <1>0, <1>2, <1>3, QuietStepKeeps DEF Writing

\* A write that has no log.
LEMMA NewLogFailsKeeps ==
    ASSUME KeepsInv(fs), NewLogFails
    PROVE  KeepsInv(fs)'
<1>1. /\ phase = "up" /\ fs' = fs /\ apply' = apply /\ bgError' = bgError /\ writer' = writer
      /\ UNCHANGED <<phase, mem, imm, logNumber, version, versionLog, acked, hidden>>
  BY DEF NewLogFails, memoryVars, versionVars
<1>. QED
  BY <1>1, OpenStepKeeps DEF Writing

LEMMA CompactionOpenFailsKeeps ==
    ASSUME KeepsInv(fs), NEW inputs, CompactionOpenFails(inputs)
    PROVE  KeepsInv(fs)'
<1>1. /\ phase = "up" /\ fs' = fs /\ apply' = apply /\ bgError' /\ writer' = writer
      /\ UNCHANGED <<phase, mem, imm, logNumber, version, versionLog, acked, hidden>>
  BY DEF CompactionOpenFails, memoryVars, historyVars
<1>. QED
  BY <1>1, OpenStepKeeps DEF Writing

\* An open that gives up leaves the disk as it is.
LEMMA OpenFailsKeeps ==
    ASSUME KeepsInv(fs), OpenFails
    PROVE  KeepsInv(fs)'
<1>1. NoProcess /\ fs' = fs /\ acked' = acked /\ hidden' = hidden /\ phase = "recovering"
  BY DEF OpenFails, historyVars
<1>2. Due' = Due /\ (Damaged(fs) \/ Due \subseteq Ids(Recoverable(fs)))
  BY <1>1 DEF Due, KeepsInv, DownKeeps
<1>. QED
  BY <1>1, <1>2, NoProcessKeeps

LEMMA RecoverManifestKeeps ==
    ASSUME Inv, KeepsInv(fs), RecoverManifest
    PROVE  KeepsInv(fs)'
<1>0. /\ phase = "down" /\ phase' = "recovering" /\ fs' = fs /\ Readable(fs)
      /\ version' = Opened(fs) /\ versionLog' = LastEdit(fs).log
      /\ toRecover' = LogsFrom(fs, LastEdit(fs).log)
      /\ apply' = apply /\ acked' = acked /\ hidden' = hidden /\ apply.step = "none"
      /\ DiskInv(fs) /\ DiskTyped(fs)
  BY NothingTyped DEF RecoverManifest, Opened, LastEdit, historyVars, Inv, Steps, DiskInv
<1>1. LastEdit(fs).log \in Nat
  BY <1>0, RecoverableIs
<1>2. toRecover' = {m \in Nat : m >= versionLog' /\ FileExists(fs, LogFile(m))}
  BY <1>0, <1>1, LogsFromIs
<1>3. RecoveryKeeps(fs)'
  <2>1. \A m \in Nat \ toRecover' : ~(FileExists(fs, LogFile(m)) /\ versionLog' <= m)
    BY <1>0, <1>1, <1>2
  <2>. QED
    BY <1>0, <2>1 DEF RecoveryKeeps
<1>4. DownKeeps(fs)'
  BY <1>0 DEF KeepsInv, DownKeeps, Due
<1>. QED
  BY <1>0, <1>3, <1>4 DEF KeepsInv, MemLogged, ImmLogged, AckedShown, ManifestKeeps, ManifestExact

LEMMA RecoverLogFileKeeps ==
    ASSUME Inv, Inv', KeepsInv(fs), RecoverLogFile
    PROVE  KeepsInv(fs)'
<1>. DEFINE n == OldestLog
            batches == ReadLog(fs, n)
            s == SetToSeq(batches)
            f == TableFile(nextFile)
<1>0. /\ phase = "recovering" /\ toRecover # {} /\ toRecover' = toRecover \ {n}
      /\ \/ batches = {} /\ fs' = fs /\ recovered' = recovered
         \/ fs' = BuildTable(fs, nextFile, s) /\ recovered' = recovered \cup {nextFile}
      /\ UNCHANGED <<phase, version, versionLog, apply, acked, hidden>>
      /\ DiskInv(fs) /\ DiskInv(fs') /\ DiskTyped(fs) /\ Typed /\ Steps /\ ProcessInv(fs)
      /\ nextFile \in Nat
  BY DEF RecoverLogFile, RecoverBatches, historyVars, Inv, DiskInv, Typed, TypedVersion
<1>1. /\ n \in toRecover /\ n \in Nat /\ FileExists(fs, LogFile(n)) /\ LogFile(n) \in Files(fs)
      /\ s \in Seq(Batch) /\ Range1(s) = batches
  BY <1>0, NextLog
<1>. HIDE DEF n, s
<1>2. apply.step = "none" /\ Adding = {} /\ Found = recovered
  BY <1>0, NothingTyped DEF Steps, Adding, Found
<1>3. /\ KeepsInv(fs')
      /\ \A t \in version \cup recovered : ReadTable(fs', t) = ReadTable(fs, t)
      /\ FileExists(fs', LogFile(n)) /\ ReadLog(fs', n) = batches
      /\ batches \subseteq TablesRead(fs', version \cup recovered')
  <2>1. CASE fs' = fs /\ batches = {}
    BY <1>1, <2>1
  <2>2. CASE fs' = BuildTable(fs, nextFile, s) /\ recovered' = recovered \cup {nextFile}
    <3>1. Touches(fs, fs', f) /\ Records(fs', f) = s
      BY <1>0, <1>1, <2>2, BuildTableTouches
    <3>2. nextFile \notin Named(fs) \cup version \cup Found
      <4>1. /\ \A t \in Named(fs) : t > 0 /\ t < nextFile
            /\ version \cup Found \subseteq 1 .. nextFile - 1
        BY <1>0 DEF ProcessInv, Numbers
      <4>. QED
        BY <1>0, <4>1
    <3>3. Harmless(fs, fs', f)
      BY <1>0, <1>2, <3>2, NewTableHarmless DEF DiskInv
    <3>4. KeepsInv(fs')
      BY <1>0, <3>1, <3>3, HarmlessKeeps
    <3>5. \A t \in version \cup Found : ReadTable(fs', t) = ReadTable(fs, t)
      BY <1>0, <3>1, <3>3, HarmlessKeeps DEF ProcessInv, InUse
    <3>6. FileExists(fs', LogFile(n)) /\ ReadLog(fs', n) = batches
      <4>1. Dir(fs).current > 0 /\ DirsRight(fs)
        BY <1>0 DEF ProcessInv, Numbers, DiskInv
      <4>2. /\ LogFile(n) \in Dir(fs').names
            /\ LogFile(n) \in Files(fs') => ReadLog(fs', n) = ReadLog(fs, n)
        BY <1>0, <1>1, <3>1, <3>3, <4>1, HarmlessReads DEF FileExists
      <4>3. Dir(fs').names \subseteq Files(fs')
        BY <1>0, DirParts DEF DiskInv, DiskTyped, DirsTyped
      <4>. QED
        BY <4>2, <4>3 DEF FileExists
    <3>7. ReadTable(fs', nextFile) = batches
      BY <1>1, <3>1 DEF ReadTable
    <3>8. batches \subseteq TablesRead(fs', version \cup recovered')
      BY <2>2, <3>7 DEF TablesRead
    <3>. QED
      BY <1>2, <3>4, <3>5, <3>6, <3>8
  <2>. QED
    BY <1>0, <2>1, <2>2
<1>. HIDE DEF batches
<1>4. RecoveryKeeps(fs)'
  <2>1. ASSUME NEW m \in Nat \ toRecover', FileExists(fs', LogFile(m)), versionLog <= m
        PROVE  ReadLog(fs', m) \subseteq TablesRead(fs', version \cup recovered')
    <3>1. CASE m = n
      BY <1>3, <3>1
    <3>2. CASE m # n
      <4>1. ReadLog(fs', m) \subseteq TablesRead(fs', version \cup recovered)
        BY <1>0, <1>3, <2>1, <3>2 DEF KeepsInv, RecoveryKeeps
      <4>2. recovered \subseteq recovered'
        BY <1>0
      <4>. QED
        BY <4>1, <4>2 DEF TablesRead
    <3>. QED
      BY <3>1, <3>2
  <2>. QED
    BY <1>0, <1>2, <1>3, <2>1 DEF KeepsInv, RecoveryKeeps
<1>5. DownKeeps(fs)'
  BY <1>0, <1>3 DEF KeepsInv, DownKeeps, Due
<1>. QED
  BY <1>0, <1>4, <1>5 DEF KeepsInv, MemLogged, ImmLogged, AckedShown, ManifestKeeps, ManifestExact

LEMMA OpenLogKeeps ==
    ASSUME Inv, Inv', KeepsInv(fs), OpenLog
    PROVE  KeepsInv(fs)'
<1>. DEFINE f == LogFile(nextFile)
<1>0. /\ phase = "recovering" /\ toRecover = {} /\ phase' = "opening" /\ apply'.step = "append"
      /\ fs' = NewWritableFile(fs, f) /\ nextFile \in Nat
      /\ UNCHANGED <<version, versionLog, toRecover, recovered, acked, hidden>>
      /\ DiskInv(fs) /\ DiskInv(fs') /\ DiskTyped(fs) /\ Typed /\ Steps /\ ProcessInv(fs)
      /\ Dir(fs).current > 0 /\ version \subseteq Nat /\ recovered \subseteq Nat
  BY DEF OpenLog, BeginApply, recoveryVars, historyVars, Inv, DiskInv, Typed, TypedVersion, ProcessInv, Numbers
<1>1. apply.step = "none" /\ Found = recovered
  BY <1>0, NothingTyped DEF Steps, Found
<1>2. Touches(fs, fs', f) /\ ReadLog(fs', nextFile) = {}
  BY <1>0, LogStarted
<1>3. f \notin Dir(fs).names
  <2>1. \A m \in Nat : LogFile(m) \in Files(fs) => m < nextFile
    BY <1>0 DEF ProcessInv, Numbers
  <2>2. Dir(fs).names \subseteq Files(fs)
    BY <1>0, DirParts DEF DiskTyped, DirsTyped
  <2>. QED
    BY <1>0, <2>1, <2>2
<1>4. OpenKept(fs, fs')
  <2>1. /\ f # DescriptorFile(Dir(fs).current)
        /\ \A t \in Opened(fs) : f # TableFile(t)
    BY <1>0, FilesDiffer, CurrentOfDir, RecoverableIs DEF KeepsInv, RecoveryKeeps
  <2>. QED
    BY <1>0, <1>2, <1>3, <2>1, TouchOpenKept
<1>5. /\ Readable(fs') /\ Opened(fs') = version /\ LastEdit(fs').log = versionLog
      /\ Recoverable(fs) \subseteq Recoverable(fs')
      /\ Damaged(fs') <=> Damaged(fs)
  BY <1>0, <1>1, <1>4, OpenKeeps DEF KeepsInv, RecoveryKeeps
<1>6. ASSUME NEW g, g \in Dir(fs').names, g # f
      PROVE  g \in Dir(fs).names /\ Records(fs', g) = Records(fs, g)
  <2>1. g \in Dir(fs).names /\ g \in Files(fs')
    BY <1>0, <1>2, <1>6, DirParts DEF Touches, DiskInv, DiskTyped, DirsTyped
  <2>. QED
    BY <1>2, <1>6, <2>1 DEF Touches, Records
<1>7. \A t \in version \cup recovered : ReadTable(fs', t) = ReadTable(fs, t)
  <2>1. \A t \in version \cup recovered : TableFile(t) \in Dir(fs).names /\ TableFile(t) # f
    BY <1>0, <1>1, FilesDiffer DEF ProcessInv, InUse, FileExists
  <2>. QED
    BY <1>2, <1>6, <2>1 DEF Touches, ReadTable
<1>8. RecoveryKeeps(fs)'
  <2>1. ASSUME NEW m \in Nat \ toRecover, FileExists(fs', LogFile(m)), versionLog <= m
        PROVE  ReadLog(fs', m) \subseteq TablesRead(fs', version \cup recovered)
    <3>1. CASE m = nextFile
      BY <1>2, <3>1
    <3>2. CASE m # nextFile
      <4>1. LogFile(m) # f
        BY <1>0, <3>2, FilesDiffer
      <4>2. FileExists(fs, LogFile(m)) /\ ReadLog(fs', m) = ReadLog(fs, m)
        BY <1>6, <2>1, <4>1 DEF FileExists, ReadLog
      <4>3. ReadLog(fs, m) \subseteq TablesRead(fs, version \cup recovered)
        BY <1>0, <2>1, <4>2 DEF KeepsInv, RecoveryKeeps
      <4>. QED
        BY <1>7, <4>2, <4>3, SameTablesRead
    <3>. QED
      BY <3>1, <3>2
  <2>. QED
    BY <1>0, <1>5, <2>1 DEF RecoveryKeeps
<1>9. DownKeeps(fs)'
  BY <1>0, <1>5 DEF KeepsInv, DownKeeps, Due, Ids
<1>. QED
  BY <1>0, <1>8, <1>9 DEF KeepsInv, MemLogged, ImmLogged, AckedShown, ManifestKeeps, ManifestExact

LEMMA NewDBKeeps ==
    ASSUME KeepsInv(fs), NewDB
    PROVE  KeepsInv(fs)'
<1>0. phase = "down" /\ phase' = "down" /\ Dir(fs).current = 0 /\ acked' = acked /\ hidden' = hidden
  BY DEF NewDB, historyVars
<1>1. Due' = {}
  <2>1. Recoverable(fs) = {} /\ ~Damaged(fs)
    BY <1>0 DEF Recoverable, Readable, Damaged
  <2>. QED
    BY <1>0, <2>1 DEF KeepsInv, DownKeeps, Ids, Due
<1>. QED
  BY <1>0, <1>1 DEF KeepsInv, MemLogged, ImmLogged, AckedShown, ManifestKeeps, ManifestExact,
                    RecoveryKeeps, DownKeeps

LEMMA NewDBFailsKeeps ==
    ASSUME KeepsInv(fs), NewDBFails
    PROVE  KeepsInv(fs)'
<1>0. phase = "down" /\ phase' = "down" /\ Dir(fs).current = 0 /\ acked' = acked /\ hidden' = hidden
  BY DEF NewDBFails, historyVars
<1>1. Due' = {}
  <2>1. Recoverable(fs) = {} /\ ~Damaged(fs)
    BY <1>0 DEF Recoverable, Readable, Damaged
  <2>. QED
    BY <1>0, <2>1 DEF KeepsInv, DownKeeps, Ids, Due
<1>. QED
  BY <1>0, <1>1 DEF KeepsInv, MemLogged, ImmLogged, AckedShown, ManifestKeeps, ManifestExact,
                    RecoveryKeeps, DownKeeps

\* Deleting files that no open uses.
LEMMA DeleteOpenKept ==
    ASSUME NEW D, NEW E, DiskInv(D), Dir(D).current > 0, Dir(E).current = Dir(D).current,
           Edits(E) = Edits(D), \A f \in Files(D) : Records(E, f) = Records(D, f),
           DescriptorFile(Dir(D).current) \in Dir(E).names,
           Readable(D) => \A t \in Opened(D) : TableFile(t) \in Dir(E).names,
           Readable(D) => \A n \in Nat : LastEdit(D).log <= n /\ FileExists(D, LogFile(n)) =>
                              LogFile(n) \in Dir(E).names
    PROVE  OpenKept(D, E)
<1>1. \A g \in Dir(D).names : Records(E, g) = Records(D, g)
  BY DirParts DEF DiskInv, DiskTyped, DirsTyped
<1>2. ASSUME Readable(D), NEW t \in Opened(D) PROVE ReadTable(E, t) = ReadTable(D, t)
  BY <1>1, <1>2, RecoverableIs DEF FileExists, ReadTable
<1>3. ASSUME NEW n \in Nat, FileExists(D, LogFile(n)) PROVE ReadLog(E, n) = ReadLog(D, n)
  BY <1>1, <1>3 DEF FileExists, ReadLog
<1>. QED
  BY <1>2, <1>3 DEF OpenKept, FileExists

LEMMA ApplyFailedKeeps ==
    ASSUME Inv, Inv', KeepsInv(fs), ApplyFailed
    PROVE  KeepsInv(fs)'
<1>0. /\ apply.step = "failed" /\ acked' = acked /\ hidden' = hidden
      /\ DiskInv(fs) /\ DiskInv(fs') /\ DiskTyped(fs) /\ Typed /\ Steps /\ ProcessInv(fs)
      /\ manifest \in Nat
  BY DEF ApplyFailed, historyVars, Inv, DiskInv, Typed, TypedVersion
<1>1. CASE apply.for = "open"
  <2>1. NoProcess /\ fs' = DeleteFiles(fs, {Descriptor}) /\ phase = "opening"
    BY <1>0, <1>1 DEF ApplyFailed, Steps
  <2>2. Dir(fs).current > 0 /\ Dir(fs).current < manifest /\ Dir(fs).current \in Nat
    BY <1>0, <2>1, CurrentOfDir DEF ProcessInv, Numbers
  <2>3. DescriptorFile(Dir(fs).current) \notin {Descriptor}
    BY <1>0, <2>2, FilesDiffer DEF Descriptor
  <2>4. /\ \A f \in Files(fs) : Records(fs', f) = Records(fs, f)
        /\ Dir(fs').names = Dir(fs).names \ {Descriptor} /\ Dir(fs').current = Dir(fs).current
        /\ Edits(fs') = Edits(fs)
    BY <1>0, <2>1, <2>2, <2>3, DeleteStep
  <2>5. DescriptorFile(Dir(fs).current) \in Dir(fs').names
    <3>1. DescriptorFile(Dir(fs).current) \in Dir(fs).names
      BY <1>0, <2>2, DirParts DEF DiskTyped, DiskInv, DirsRight
    <3>. QED
      BY <2>3, <2>4, <3>1
  <2>6. Readable(fs) => \A t \in Opened(fs) : TableFile(t) \in Dir(fs').names
    BY <1>0, <2>4, RecoverableIs, FilesDiffer DEF FileExists, Descriptor
  <2>7. \A n \in Nat : FileExists(fs, LogFile(n)) => LogFile(n) \in Dir(fs').names
    BY <1>0, <2>4, FilesDiffer DEF FileExists, Descriptor
  <2>8. OpenKept(fs, fs')
    BY <1>0, <2>2, <2>4, <2>5, <2>6, <2>7, DeleteOpenKept
  <2>9. Damaged(fs') \/ Due' \subseteq Ids(Recoverable(fs'))
    <3>1. (Damaged(fs') <=> Damaged(fs)) /\ Recoverable(fs) \subseteq Recoverable(fs')
      BY <1>0, <2>8, OpenKeeps
    <3>. QED
      BY <1>0, <2>1, <3>1 DEF KeepsInv, DownKeeps, Due, Ids
  <2>. QED
    BY <2>1, <2>9, NoProcessKeeps
<1>2. CASE apply.for # "open"
  <2>1. /\ bgError' = TRUE /\ writer' = writer /\ fs' = fs
        /\ UNCHANGED <<phase, mem, imm, logNumber, version, versionLog>>
    BY <1>0, <1>2 DEF ApplyFailed, DeleteObsoleteFiles, MayDelete, memoryVars
  <2>2. phase = "up"
    BY <1>0, <1>2, NothingTyped DEF Steps, Typed, TypedMemory
  <2>. QED
    BY <1>0, <2>1, <2>2, OpenStepKeeps DEF Writing
<1>. QED
  BY <1>1, <1>2

\* What a write does to the disk.
LEMMA AddRecordTouches ==
    ASSUME Inv, NEW sync \in SyncOptions, AddRecord(sync)
    PROVE  LET l == IF Switches THEN nextFile ELSE logNumber
           IN  /\ l \in Nat /\ Touches(fs, fs', LogFile(l))
               /\ l = nextFile => LogFile(l) \notin Files(fs)
               /\ LogFile(l) \in Files(fs) => ReadLog(fs, l) \subseteq ReadLog(fs', l)
               /\ hidden \subseteq hidden'
               /\ \A b \in Writing' : b.id \in hidden' \/ b \in ReadLog(fs', l)
<1>. DEFINE batch == [seq |-> lastSequence + 1, id |-> written + 1]
            l == IF Switches THEN nextFile ELSE logNumber
            f == LogFile(l)
            D1 == IF Switches THEN NewWritableFile(fs, f) ELSE fs
<1>0. /\ DiskInv(fs) /\ DiskTyped(fs) /\ Numbers(fs) /\ InUse(fs) /\ phase = "up"
      /\ writer.step = "idle" /\ toRecover = {} /\ Writing = {}
      /\ nextFile \in Nat /\ logNumber \in Nat /\ lastSequence \in Nat /\ written \in Nat
  BY DEF Inv, DiskInv, ProcessInv, AddRecord, Steps, Writing, Typed, TypedMemory, TypedVersion, TypedHistory
<1>1. \/ /\ fs' = AddRecords(D1, f, <<batch>>)
         /\ writer' = [step |-> "logged", batch |-> batch, sync |-> sync]
         /\ hidden' = IF Torn \in Range1(Records(D1, f)) THEN hidden \cup {batch.id} ELSE hidden
      \/ /\ fs' = D1 \/ fs' = AddRecords(D1, f, <<Torn>>)
         /\ UNCHANGED <<writer, hidden>>
  BY DEF AddRecord
<1>2. batch \in Batch /\ batch # Torn /\ Torn \in Batch
  <2>1. batch \in Batch /\ batch.seq = lastSequence + 1
    BY <1>0 DEF Batch
  <2>2. Torn.seq = 0 /\ lastSequence + 1 # 0
    BY <1>0 DEF Torn
  <2>. QED
    BY <2>1, <2>2, NothingTyped
<1>. HIDE DEF batch
<1>3. /\ l \in Nat
      /\ l = nextFile => f \notin Files(fs)
      /\ \/ f \in Dir(fs).names /\ D1 = fs
         \/ f \notin Files(fs) /\ D1 = NewWritableFile(fs, f)
  <2>1. LogFile(nextFile) \notin Files(fs) /\ logNumber # nextFile
    BY <1>0 DEF Numbers
  <2>2. LogFile(logNumber) \in Dir(fs).names
    BY <1>0 DEF InUse, FileExists
  <2>. QED
    BY <1>0, <2>1, <2>2
<1>4. DiskTyped(D1) /\ f \in Dir(D1).names
  BY <1>0, <1>3, LogStarted
<1>. HIDE DEF D1, l
<1>5. \E r \in Batch : fs' = D1 \/ fs' = AddRecords(D1, f, <<r>>)
  BY <1>1, <1>2
<1>6. Touches(fs, fs', f) /\ (f \in Files(fs) => ReadLog(fs, l) \subseteq ReadLog(fs', l))
  BY <1>0, <1>3, <1>5, LogWritten, SMTT(30)
<1>7. hidden \subseteq hidden' /\ \A b \in Writing' : b.id \in hidden' \/ b \in ReadLog(fs', l)
  <2>1. CASE /\ fs' = AddRecords(D1, f, <<batch>>)
             /\ writer' = [step |-> "logged", batch |-> batch, sync |-> sync]
             /\ hidden' = IF Torn \in Range1(Records(D1, f)) THEN hidden \cup {batch.id} ELSE hidden
    <3>1. Torn \notin Range1(Records(D1, f)) => batch \in ReadLog(fs', l)
      BY <1>2, <1>3, <1>4, <2>1, LogAppended
    <3>2. Writing' = {batch}
      BY <2>1 DEF Writing
    <3>. QED
      BY <2>1, <3>1, <3>2
  <2>2. CASE UNCHANGED <<writer, hidden>>
    BY <1>0, <2>2 DEF Writing
  <2>. QED
    BY <1>1, <2>1, <2>2
<1>. QED
  BY <1>3, <1>6, <1>7 DEF l

LEMMA AddRecordKeeps ==
    ASSUME Inv, Inv', KeepsInv(fs), NEW sync \in SyncOptions, AddRecord(sync)
    PROVE  KeepsInv(fs)'
<1>. DEFINE l == IF Switches THEN nextFile ELSE logNumber
            f == LogFile(l)
<1>0. /\ DiskInv(fs) /\ DiskInv(fs') /\ DiskTyped(fs) /\ Typed /\ Steps /\ ProcessInv(fs)
      /\ Numbers(fs) /\ phase = "up" /\ Dir(fs).current > 0 /\ versionLog <= logNumber
      /\ logNumber < nextFile /\ nextFile \in Nat /\ logNumber \in Nat /\ versionLog \in Nat
      /\ mem \in Seq(Batch) /\ LogsUpTo(fs, logNumber) /\ version \subseteq Nat
      /\ LogFile(logNumber) \in Dir(fs).names
      /\ UNCHANGED <<phase, version, versionLog, bgError, apply, acked>>
  BY DEF Inv, DiskInv, ProcessInv, AddRecord, Typed, TypedMemory, TypedVersion, Numbers, InUse, FileExists
<1>1. /\ Switches => imm = <<>> /\ imm' = mem /\ mem' = <<>>
      /\ ~Switches => imm' = imm /\ mem' = mem
      /\ logNumber' = l
  BY <1>0 DEF AddRecord, Steps
<1>2. /\ l \in Nat /\ Touches(fs, fs', f)
      /\ l = nextFile => f \notin Files(fs)
      /\ f \in Files(fs) => ReadLog(fs, l) \subseteq ReadLog(fs', l)
      /\ hidden \subseteq hidden'
      /\ \A b \in Writing' : b.id \in hidden' \/ b \in ReadLog(fs', l)
  BY AddRecordTouches
<1>3. (l = logNumber /\ ~Switches) \/ (l = nextFile /\ Switches)
  OBVIOUS
<1>. HIDE DEF l
<1>4. Dir(fs).names \subseteq Files(fs) /\ Dir(fs).names \subseteq Dir(fs').names /\ Dir(fs').names \subseteq Files(fs')
  BY <1>0, <1>2, DirParts DEF Touches, DiskInv, DiskTyped, DirsTyped
<1>5. ASSUME NEW n \in Nat, FileExists(fs, LogFile(n))
      PROVE  FileExists(fs', LogFile(n)) /\ ReadLog(fs, n) \subseteq ReadLog(fs', n)
  <2>1. LogFile(n) \in Files(fs) /\ LogFile(n) \in Files(fs') /\ FileExists(fs', LogFile(n))
    BY <1>4, <1>5 DEF FileExists
  <2>2. CASE LogFile(n) = f
    BY <1>2, <2>1, <2>2, FilesDiffer
  <2>3. CASE LogFile(n) # f
    <3>1. Records(fs', LogFile(n)) = Records(fs, LogFile(n))
      BY <1>2, <2>1, <2>3 DEF Touches, Records
    <3>. QED
      BY <2>1, <3>1 DEF ReadLog
  <2>. QED
    BY <2>1, <2>2, <2>3
<1>6. OpenKept(fs, fs')
  <2>1. f # DescriptorFile(Dir(fs).current)
    BY <1>0, <1>2, CurrentOfDir, FilesDiffer
  <2>2. Readable(fs) => \A t \in Opened(fs) : f # TableFile(t)
    BY <1>0, <1>2, RecoverableIs, FilesDiffer
  <2>3. ASSUME Readable(fs) PROVE OpenKept(fs, fs')
    <3>1. \A n \in Nat : f = LogFile(n) /\ f \in Dir(fs).names => ReadLog(fs, n) \subseteq ReadLog(fs', n)
      BY <1>5 DEF FileExists
    <3>. QED
      BY <1>0, <1>2, <2>1, <2>2, <2>3, <3>1, TouchOpenKept
  <2>4. ASSUME ~Readable(fs) PROVE OpenKept(fs, fs')
    <3>1. DescriptorFile(Dir(fs).current) \in Dir(fs).names
      BY <1>0, DirParts DEF DiskTyped, DiskInv, DirsRight
    <3>2. EditsIn(fs', Dir(fs').current) = EditsIn(fs, Dir(fs).current) /\ Dir(fs').current = Dir(fs).current
      BY <1>2, <1>4, <2>1, <3>1 DEF Touches, EditsIn, Records
    <3>. QED
      BY <2>4, <3>2, EditsFacts DEF OpenKept
  <2>. QED
    BY <2>3, <2>4
<1>7. /\ Damaged(fs') <=> Damaged(fs)
      /\ Opened(fs') = Opened(fs) /\ LastEdit(fs') = LastEdit(fs)
      /\ Readable(fs) => Readable(fs') /\ TablesRead(fs', Opened(fs')) = TablesRead(fs, Opened(fs))
      /\ Recoverable(fs) \subseteq Recoverable(fs')
  BY <1>0, <1>6, OpenKeeps
<1>8. \A t \in version : ReadTable(fs', t) = ReadTable(fs, t)
  <2>1. \A t \in version : TableFile(t) \in Dir(fs).names /\ TableFile(t) # f
    BY <1>0, <1>2, FilesDiffer DEF ProcessInv, InUse, FileExists
  <2>. QED
    BY <1>2, <1>4, <2>1 DEF Touches, ReadTable, Records
<1>9. ASSUME NEW b \in Range1(mem), b.id \notin hidden'
      PROVE  b \in ReadLog(fs', logNumber) /\ FileExists(fs', LogFile(logNumber)) /\ b \in Batch
  <2>1. b \in ReadLog(fs, logNumber)
    BY <1>0, <1>2, <1>9 DEF KeepsInv, MemLogged
  <2>. QED
    BY <1>0, <1>5, <1>9, <2>1, RangeFinite DEF FileExists
<1>10. \A n : LoggedFrom(fs, n) \subseteq LoggedFrom(fs', n)
  BY <1>5 DEF LoggedFrom
<1>11. MemLogged(fs)'
  BY <1>0, <1>1, <1>2, <1>3, <1>9, EmptySeen DEF MemLogged
<1>12. ImmLogged(fs)'
  <2>1. CASE Switches
    <3>1. \A b \in Range1(mem) : b.id \in hidden' \/ b \in LoggedFrom(fs', versionLog)
      BY <1>0, <1>9 DEF LoggedFrom
    <3>. QED
      BY <1>0, <1>1, <2>1, <3>1 DEF ImmLogged
  <2>2. CASE ~Switches
    BY <1>0, <1>1, <1>2, <1>10, <2>2 DEF KeepsInv, ImmLogged
  <2>. QED
    BY <2>1, <2>2
<1>13. AckedShown(fs)'
  <2>1. Range1(mem') \cup Range1(imm') = Range1(mem) \cup Range1(imm)
    BY <1>1, EmptySeen
  <2>2. {ReadTable(fs', t) : t \in version'} = {ReadTable(fs, t) : t \in version}
    BY <1>0, <1>8
  <2>3. Shown(fs)' = Shown(fs)
    BY <2>1, <2>2 DEF Shown
  <2>. QED
    BY <1>0, <1>2, <2>3 DEF KeepsInv, AckedShown, Due
<1>14. ManifestKeeps(fs)'
  <2>. SUFFICES ASSUME ~Damaged(fs) PROVE ManifestKeeps(fs)'
    BY <1>7 DEF ManifestKeeps
  <2>1. Readable(fs) /\ Readable(fs') /\ \A t \in version : ReadTable(fs, t) \subseteq TablesRead(fs, Opened(fs))
    BY <1>0, <1>7 DEF KeepsInv, ManifestKeeps
  <2>2. \A b \in Range1(imm) : b.id \in hidden' \/ b \in Recoverable(fs')
    BY <1>0, <1>2, <1>7 DEF KeepsInv, ManifestKeeps
  <2>3. \A b \in Range1(mem) : b.id \in hidden' \/ b \in Recoverable(fs')
    <3>1. LastEdit(fs').log <= logNumber
      BY <1>0, <1>7, <2>1, LastEditLog
    <3>2. \A b \in Range1(mem) : b.id \in hidden' \/ b \in LoggedFrom(fs', LastEdit(fs').log)
      BY <1>0, <1>9, <3>1 DEF LoggedFrom
    <3>. QED
      BY <1>0, <2>1, <3>2, RecoverableIs
  <2>. QED
    BY <1>0, <1>1, <1>7, <1>8, <2>1, <2>2, <2>3 DEF ManifestKeeps
<1>15. ManifestExact(fs)'
  BY <1>0, <1>7 DEF KeepsInv, ManifestExact
<1>16. RecoveryKeeps(fs)' /\ DownKeeps(fs)'
  BY <1>0 DEF RecoveryKeeps, DownKeeps
<1>. QED
  BY <1>11, <1>12, <1>13, <1>14, <1>15, <1>16 DEF KeepsInv

\* The tables that edits leave, one by one.
LEMMA TablesOfIs ==
    ASSUME NEW s, NEW t
    PROVE  t \in TablesOf(s) <=>
              \E i \in DOMAIN s : t \in s[i].added /\ \A j \in i + 1 .. Len(s) : t \notin s[j].deleted
BY DEF TablesOf

LEMMA TablesAppended ==
    ASSUME NEW s \in Seq(EditRecord), NEW e \in EditRecord
    PROVE  TablesOf(s \o <<e>>) = (TablesOf(s) \ e.deleted) \cup e.added
<1>. DEFINE t == s \o <<e>>
            n == Len(s)
<1>1. /\ Len(t) = n + 1 /\ n \in Nat /\ DOMAIN s = 1 .. n /\ DOMAIN t = 1 .. n + 1
      /\ \A i \in 1 .. n : t[i] = s[i]
      /\ t[n + 1] = e
  BY OneMore
<1>. HIDE DEF t, n
<1>2. ASSUME NEW x \in TablesOf(t) PROVE x \in (TablesOf(s) \ e.deleted) \cup e.added
  <2>1. PICK i \in 1 .. n + 1 : x \in t[i].added /\ \A j \in i + 1 .. n + 1 : x \notin t[j].deleted
    BY <1>1, <1>2, TablesOfIs
  <2>2. CASE i = n + 1
    BY <1>1, <2>1, <2>2
  <2>3. CASE i # n + 1
    <3>1. i \in 1 .. n /\ n + 1 \in i + 1 .. n + 1 /\ \A j \in i + 1 .. n : j \in 1 .. n /\ j \in i + 1 .. n + 1
      BY <1>1, <2>3
    <3>2. x \in s[i].added /\ x \notin e.deleted /\ \A j \in i + 1 .. n : x \notin s[j].deleted
      BY <1>1, <2>1, <3>1
    <3>. QED
      BY <1>1, <3>1, <3>2, TablesOfIs DEF n
  <2>. QED
    BY <2>2, <2>3
<1>3. ASSUME NEW x \in TablesOf(s), x \notin e.deleted PROVE x \in TablesOf(t)
  <2>1. PICK i \in 1 .. n : x \in s[i].added /\ \A j \in i + 1 .. n : x \notin s[j].deleted
    BY <1>1, <1>3, TablesOfIs DEF n
  <2>2. ASSUME NEW j \in i + 1 .. n + 1 PROVE x \notin t[j].deleted
    <3>1. j = n + 1 \/ (j \in i + 1 .. n /\ j \in 1 .. n)
      BY <1>1
    <3>. QED
      BY <1>1, <1>3, <2>1, <3>1
  <2>3. i \in 1 .. n + 1 /\ t[i] = s[i]
    BY <1>1
  <2>. QED
    BY <1>1, <2>1, <2>2, <2>3, TablesOfIs
<1>4. ASSUME NEW x \in e.added PROVE x \in TablesOf(t)
  <2>1. n + 1 \in 1 .. n + 1 /\ \A j \in n + 1 + 1 .. n + 1 : FALSE
    BY <1>1
  <2>. QED
    BY <1>1, <1>4, <2>1, TablesOfIs
<1>5. TablesOf(t) = (TablesOf(s) \ e.deleted) \cup e.added
  BY <1>2, <1>3, <1>4
<1>. QED
  BY <1>5 DEF t

\* One more edit, or part of one, in the manifest in use.
LEMMA AppendedEdits ==
    ASSUME NEW D, NEW E, DiskTyped(D), DirsRight(D), Dir(D).current > 0,
           NEW r \in EditRecord \cup {TornEdit},
           Dir(E).current = Dir(D).current,
           EditsIn(E, Dir(D).current) = EditsIn(D, Dir(D).current) \o <<r>>
    PROVE  \/ Damaged(E)
           \/ /\ ~Damaged(D) /\ Edits(D) \in Seq(EditRecord)
              /\ r = TornEdit => Edits(E) = Edits(D)
              /\ r # TornEdit => Edits(E) = Edits(D) \o <<r>>
<1>. DEFINE c == Dir(D).current
            old == EditsIn(D, c)
            new == old \o <<r>>
            S == EditRecord \cup {TornEdit}
<1>1. c \in Currents(D) /\ c \in Nat /\ c # 0 /\ old \in Seq(S)
  BY CurrentOfDir, CurrentFacts
<1>2. Edits(D) = Complete(old) /\ Edits(E) = Complete(new)
  BY EditsComplete
<1>3. /\ r # TornEdit => Complete(new) = new
      /\ r = TornEdit => Complete(new) = old
      /\ Range1(new) = Range1(old) \cup {r}
  <2>1. old \in Seq(S) /\ r \in S
    BY <1>1
  <2>. HIDE DEF old, S
  <2>. QED
    BY <2>1, CompleteAppended, OneMore
<1>4. CASE TornEdit \in Range1(old)
  <2>1. TornEdit \in Range1(Edits(E))
    BY <1>2, <1>3, <1>4
  <2>. QED
    BY <1>1, <2>1 DEF Damaged
<1>5. CASE TornEdit \notin Range1(old)
  <2>. HIDE DEF old, new
  <2>1. DOMAIN old = 1 .. Len(old) /\ Len(old) \in Nat /\ \A i \in DOMAIN old : old[i] \in S
    BY <1>1, LenProperties, ElementOfSeq
  <2>2. \A i \in 1 .. Len(old) : old[i] \in EditRecord
    BY <1>5, <2>1 DEF Range1
  <2>3. old \in Seq(EditRecord)
    <3>1. old \in [1 .. Len(old) -> EditRecord]
      BY <1>1, <2>1, <2>2, SeqDef
    <3>. QED
      BY <2>1, <3>1, SeqDef
  <2>4. Complete(old) = old
    <3>1. CASE old = <<>>
      BY <3>1 DEF Complete
    <3>2. CASE old # <<>>
      <4>1. Len(old) \in 1 .. Len(old)
        BY <1>1, <2>1, <3>2, EmptySeq
      <4>2. old[Len(old)] # TornEdit
        BY <1>5, <2>1, <4>1 DEF Range1
      <4>. QED
        BY <1>1, <3>2, <4>2, CompletePrefix
    <3>. QED
      BY <3>1, <3>2
  <2>5. ~Damaged(D) /\ Edits(D) \in Seq(EditRecord)
    BY <1>2, <1>5, <2>3, <2>4 DEF Damaged
  <2>. QED
    BY <1>2, <1>3, <2>4, <2>5 DEF new
<1>. QED
  BY <1>4, <1>5

\* The tables and the logs are left as they are.
LEMMA SameDataReads ==
    ASSUME NEW D, NEW E, DiskTyped(D), SameData(D, E)
    PROVE  /\ \A n \in Nat : FileExists(D, LogFile(n)) => ReadLog(E, n) = ReadLog(D, n)
           /\ \A t \in Nat : FileExists(D, TableFile(t)) => ReadTable(E, t) = ReadTable(D, t)
           /\ \A f : FileExists(E, f) <=> FileExists(D, f)
           /\ \A n : LoggedFrom(E, n) = LoggedFrom(D, n)
<1>1. Dir(D).names \subseteq Files(D)
  BY DirParts DEF DiskTyped, DirsTyped
<1>2. \A n \in Nat : FileExists(D, LogFile(n)) => ReadLog(E, n) = ReadLog(D, n)
  BY <1>1 DEF SameData, FileExists, ReadLog
<1>3. \A t \in Nat : FileExists(D, TableFile(t)) => ReadTable(E, t) = ReadTable(D, t)
  BY <1>1 DEF SameData, FileExists, ReadTable
<1>4. \A f : FileExists(E, f) <=> FileExists(D, f)
  BY DEF SameData, FileExists
<1>5. \A n : LoggedFrom(E, n) = LoggedFrom(D, n)
  BY <1>2, <1>4 DEF LoggedFrom
<1>. QED
  BY <1>2, <1>3, <1>4, <1>5

LEMMA SameDataKeeps ==
    ASSUME NEW D, NEW E, DiskTyped(D), Typed, InUse(D), phase = "up", SameData(D, E), KeepsInv(D)
    PROVE  /\ MemLogged(E) /\ ImmLogged(E) /\ AckedShown(E) /\ RecoveryKeeps(E) /\ DownKeeps(E)
           /\ \A t \in version : ReadTable(E, t) = ReadTable(D, t)
<1>1. \A t \in version : t \in Nat /\ ReadTable(E, t) = ReadTable(D, t)
  BY SameDataReads DEF InUse, Typed, TypedVersion
<1>2. MemLogged(E)
  <2>1. ReadLog(E, logNumber) = ReadLog(D, logNumber)
    BY SameDataReads DEF InUse, Typed, TypedMemory
  <2>. QED
    BY <2>1 DEF KeepsInv, MemLogged
<1>3. ImmLogged(E)
  BY SameDataReads DEF KeepsInv, ImmLogged
<1>4. AckedShown(E)
  <2>1. {ReadTable(E, t) : t \in version} = {ReadTable(D, t) : t \in version}
    BY <1>1
  <2>. QED
    BY <2>1 DEF KeepsInv, AckedShown, Shown
<1>. QED
  BY <1>1, <1>2, <1>3, <1>4 DEF RecoveryKeeps, DownKeeps

\* The edit being applied is appended to a manifest that can be read.
LEMMA EditAppended ==
    ASSUME NEW D, NEW E, DiskInv(D), DiskInv(E), Typed, Steps, ProcessInv(D), phase = "up",
           apply.step = "append", KeepsInv(D), SameData(D, E), Dir(E).current = Dir(D).current,
           ~Damaged(D), ~Damaged(E), Edits(D) \in Seq(EditRecord),
           Edits(E) = Edits(D) \o <<apply.edit>>
    PROVE  /\ ManifestKeeps(E)
           /\ ~bgError => Opened(E) = (version \cup apply.edit.added) \ apply.edit.deleted
<1>. DEFINE e == apply.edit
            s == Edits(D)
<1>0. /\ DiskTyped(D) /\ Outputs(D) /\ OutputsWritten(D) /\ InUse(D) /\ EditRight(D) /\ Readable(D)
      /\ imm \in Seq(Batch)
  BY DEF DiskInv, ProcessInv, KeepsInv, ManifestKeeps, Typed, TypedMemory
<1>1. /\ e \in EditRecord /\ e.numbers /\ e.added \subseteq Nat
      /\ \/ /\ apply.for = "flush" /\ flush.step = "apply"
            /\ e.added = {flush.out} /\ e.deleted = {}
         \/ /\ apply.for = "compaction" /\ comp.step = "apply"
            /\ e.added = {comp.out} /\ e.deleted = comp.inputs /\ e.log = versionLog
  <2>1. e \in EditRecord /\ e.numbers
    BY <1>0 DEF EditRight, EditAhead
  <2>2. apply.for \in {"none", "open", "flush", "compaction"}
    BY DEF Typed, TypedWork, ApplyRecord
  <2>. QED
    BY <1>0, <2>1, <2>2 DEF EditRight, Steps, EditRecord
<1>2. Opened(E) = (Opened(D) \ e.deleted) \cup e.added
  BY <1>1, TablesAppended DEF Opened
<1>3. LastEdit(E) = e /\ Edits(E) # <<>>
  <2>. HIDE DEF e, s
  <2>1. /\ Len(s \o <<e>>) = Len(s) + 1 /\ Len(s) \in Nat /\ (s \o <<e>>)[Len(s) + 1] = e
    BY <1>1, OneMore DEF s
  <2>2. s \o <<e>> # <<>>
    <3>1. Len(s \o <<e>>) # 0
      BY <2>1
    <3>. QED
      BY <3>1, EmptySeq
  <2>3. Edits(E) = s \o <<e>>
    BY DEF s, e
  <2>. QED
    BY <2>1, <2>2, <2>3 DEF LastEdit
<1>. HIDE DEF e, s
<1>4. \A t \in Opened(D) \cup version \cup e.added :
          t \in Nat /\ FileExists(E, TableFile(t)) /\ ReadTable(E, t) = ReadTable(D, t)
  <2>1. \A t \in Opened(D) : t \in Nat /\ FileExists(D, TableFile(t))
    BY <1>0, RecoverableIs
  <2>2. \A t \in version : t \in Nat /\ FileExists(D, TableFile(t))
    BY <1>0 DEF InUse, Typed, TypedVersion
  <2>3. \A t \in e.added : t \in Nat /\ FileExists(D, TableFile(t))
    BY <1>0, AddingShown DEF e
  <2>. QED
    BY <1>0, <2>1, <2>2, <2>3, SameDataReads
<1>5. Readable(E)
  <2>1. Dir(E).current # 0 /\ FileExists(E, DescriptorFile(Dir(E).current))
    BY <1>0 DEF Readable, SameData, FileExists
  <2>2. TornEdit \notin Range1(Edits(E))
    BY <2>1 DEF Damaged
  <2>3. \A t \in TablesOf(Edits(E)) : FileExists(E, TableFile(t))
    BY <1>2, <1>4 DEF Opened
  <2>4. Edits(E)[Len(Edits(E))].numbers
    BY <1>1, <1>3 DEF LastEdit
  <2>. QED
    BY <1>3, <2>1, <2>2, <2>3, <2>4 DEF Readable
<1>6. ASSUME NEW b \in Range1(imm), b.id \notin hidden PROVE b \in Recoverable(E)
  <2>1. CASE apply.for = "flush" /\ flush.step = "apply" /\ e.added = {flush.out}
    <3>1. flush.out \in Opened(E) /\ b \in ReadTable(E, flush.out)
      BY <1>0, <1>2, <1>4, <1>6, <2>1 DEF OutputsWritten
    <3>2. b \in TablesRead(E, Opened(E))
      BY <3>1 DEF TablesRead
    <3>. QED
      BY <1>5, <3>2, RecoverableIs
  <2>2. CASE apply.for = "compaction" /\ e.log = versionLog
    <3>1. b \in LoggedFrom(D, versionLog)
      BY <1>6 DEF KeepsInv, ImmLogged
    <3>2. b \in LoggedFrom(E, LastEdit(E).log)
      BY <1>0, <1>3, <2>2, <3>1, SameDataReads
    <3>. QED
      BY <1>5, <3>2, RecoverableIs
  <2>. QED
    BY <1>1, <2>1, <2>2
<1>7. ASSUME NEW t \in version, NEW b \in ReadTable(E, t) PROVE b \in TablesRead(E, Opened(E))
  <2>1. b \in TablesRead(D, Opened(D))
    BY <1>4, <1>7 DEF KeepsInv, ManifestKeeps
  <2>2. PICK u \in Opened(D) : b \in ReadTable(D, u)
    BY <2>1 DEF TablesRead
  <2>3. CASE u \notin e.deleted
    BY <1>2, <1>4, <2>2, <2>3 DEF TablesRead
  <2>4. CASE u \in e.deleted
    <3>1. comp.step = "apply" /\ e.added = {comp.out} /\ u \in comp.inputs
      BY <1>1, <2>4
    <3>2. b \in ReadTable(D, comp.out)
      BY <1>0, <2>2, <3>1 DEF OutputsWritten
    <3>. QED
      BY <1>2, <1>4, <3>1, <3>2 DEF TablesRead
  <2>. QED
    BY <2>3, <2>4
<1>8. ~bgError => Opened(E) = (version \cup e.added) \ e.deleted
  <2>1. e.added \cap e.deleted = {}
    BY <1>0, <1>1 DEF Outputs
  <2>2. ~bgError => Opened(D) = version
    BY DEF KeepsInv, ManifestExact
  <2>. QED
    BY <1>2, <2>1, <2>2
<1>9. ManifestKeeps(E)
  BY <1>5, <1>6, <1>7 DEF ManifestKeeps
<1>. QED
  BY <1>8, <1>9 DEF e

LEMMA WriteManifestKeeps ==
    ASSUME Inv, Inv', KeepsInv(fs), WriteManifest
    PROVE  KeepsInv(fs)'
<1>. DEFINE two == <<Snapshot(version), apply.edit>>
<1>0. /\ DiskInv(fs) /\ DiskInv(fs') /\ DiskTyped(fs) /\ DirsRight(fs) /\ Typed /\ Steps /\ ProcessInv(fs)
      /\ InUse(fs) /\ apply.step = "append" /\ apply \in ApplyRecord /\ manifest \in Nat
      /\ UNCHANGED <<phase, mem, imm, logNumber, version, versionLog, acked, hidden, bgError, writer,
                     toRecover, recovered>>
  BY DEF Inv, DiskInv, ProcessInv, WriteManifest, memoryVars, versionVars, recoveryVars, historyVars,
         Typed, TypedVersion, TypedWork
<1>1. phase \in {"up", "opening"} /\ (phase = "opening" <=> apply.for = "open")
  BY <1>0, NothingTyped DEF Steps, Typed, TypedMemory, TypedWork, ApplyRecord
<1>2. apply'.step \in {"sync", "failed"} /\ apply'.edit = apply.edit
  BY <1>0 DEF WriteManifest, ApplyRecord
<1>3. apply.edit \in EditRecord /\ apply.edit # TornEdit /\ two \in Seq(EditRecord \cup {TornEdit})
  <2>1. Snapshot(version) \in EditRecord /\ apply.edit \in EditRecord
    BY <1>0 DEF Snapshot, EditRecord, Typed, TypedVersion, ApplyRecord
  <2>. QED
    BY <2>1, EditsNotTorn
<1>4. \/ fs' = fs /\ apply'.step = "failed"
      \/ apply.for = "open" /\ fs' = AddRecords(NewWritableFile(fs, Descriptor), Descriptor, two)
      \/ apply.for # "open" /\ \E r \in {apply.edit, TornEdit} :
              /\ fs' = AddRecords(fs, Descriptor, <<r>>)
              /\ r # apply.edit => apply'.step = "failed"
  <2>1. CASE /\ fs' = IF apply.for = "open"
                      THEN AddRecords(NewWritableFile(fs, Descriptor), Descriptor, two)
                      ELSE AddRecords(fs, Descriptor, <<apply.edit>>)
    BY <2>1
  <2>2. CASE /\ apply' = [apply EXCEPT !.step = "failed"]
             /\ \/ UNCHANGED fs
                \/ apply.for # "open" /\ fs' = AddRecords(fs, Descriptor, <<TornEdit>>)
    <3>1. apply'.step = "failed"
      BY <1>0, <2>2 DEF ApplyRecord
    <3>. QED
      BY <2>2, <3>1
  <2>. QED
    BY <2>1, <2>2 DEF WriteManifest
<1>5. CASE fs' = fs /\ apply'.step = "failed"
  <2>1. ManifestExact(fs)' /\ RecoveryKeeps(fs)'
    BY <1>0, <1>5 DEF KeepsInv, ManifestExact, RecoveryKeeps
  <2>. QED
    BY <1>0, <1>5, <2>1, QuietStepKeeps DEF Writing
<1>6. CASE apply.for = "open" /\ fs' = AddRecords(NewWritableFile(fs, Descriptor), Descriptor, two)
  <2>. HIDE DEF two
  <2>1. Touches(fs, fs', Descriptor) /\ Harmless(fs, fs', Descriptor)
    BY <1>0, <1>1, <1>3, <1>6, NewManifestHarmless
  <2>2. KeepsInv(fs')
    BY <1>0, <1>1, <1>6, <2>1, HarmlessKeeps
  <2>3. ManifestExact(fs)' /\ RecoveryKeeps(fs)'
    BY <1>0, <1>1, <1>2, <1>6, <2>2 DEF KeepsInv, ManifestExact, RecoveryKeeps
  <2>. QED
    BY <1>0, <2>2, <2>3, QuietStepKeeps DEF Writing
<1>7. ASSUME apply.for # "open", NEW r \in {apply.edit, TornEdit},
             fs' = AddRecords(fs, Descriptor, <<r>>), r # apply.edit => apply'.step = "failed"
      PROVE  KeepsInv(fs)'
  <2>0. phase = "up" /\ Dir(fs).current = manifest /\ Dir(fs).current > 0
    BY <1>0, <1>1, <1>7 DEF ProcessInv, Numbers
  <2>1. /\ SameData(fs, fs') /\ Dir(fs') = Dir(fs)
        /\ EditsIn(fs', manifest) = EditsIn(fs, manifest) \o <<r>>
    BY <1>0, <1>7, <2>0, AppendStep
  <2>2. /\ MemLogged(fs') /\ ImmLogged(fs') /\ AckedShown(fs') /\ RecoveryKeeps(fs') /\ DownKeeps(fs')
        /\ \A t \in version : ReadTable(fs', t) = ReadTable(fs, t)
    BY <1>0, <2>0, <2>1, SameDataKeeps
  <2>3. \/ Damaged(fs')
        \/ /\ ~Damaged(fs) /\ Edits(fs) \in Seq(EditRecord)
           /\ r = TornEdit => Edits(fs') = Edits(fs)
           /\ r # TornEdit => Edits(fs') = Edits(fs) \o <<r>>
    <3>1. r \in EditRecord \cup {TornEdit}
      BY <1>3
    <3>. QED
      BY <1>0, <2>0, <2>1, <3>1, AppendedEdits
  <2>4. ManifestKeeps(fs') /\ ManifestExact(fs)'
    <3>1. CASE Damaged(fs')
      BY <3>1 DEF ManifestKeeps, ManifestExact
    <3>2. CASE ~Damaged(fs') /\ r = TornEdit
      <4>1. ~Damaged(fs) /\ Edits(fs') = Edits(fs) /\ Readable(fs)
        BY <2>0, <2>3, <3>2 DEF KeepsInv, ManifestKeeps
      <4>2. OpenKept(fs, fs')
        <5>1. \A t \in Opened(fs) : t \in Nat /\ FileExists(fs, TableFile(t))
          BY <1>0, <4>1, RecoverableIs
        <5>2. FileExists(fs, DescriptorFile(Dir(fs).current))
          BY <4>1 DEF Readable
        <5>. QED
          BY <1>0, <2>1, <4>1, <5>1, <5>2, SameDataReads DEF OpenKept
      <4>3. /\ Readable(fs') /\ TablesRead(fs', Opened(fs')) = TablesRead(fs, Opened(fs))
            /\ Recoverable(fs) \subseteq Recoverable(fs')
        BY <1>0, <4>1, <4>2, OpenKeeps
      <4>4. ManifestKeeps(fs')
        BY <2>0, <2>2, <4>1, <4>3 DEF KeepsInv, ManifestKeeps
      <4>5. apply'.step = "failed"
        BY <1>3, <1>7, <3>2
      <4>. QED
        BY <4>4, <4>5 DEF ManifestExact
    <3>3. CASE ~Damaged(fs') /\ r # TornEdit
      <4>1. /\ ~Damaged(fs) /\ Edits(fs) \in Seq(EditRecord)
            /\ Edits(fs') = Edits(fs) \o <<apply.edit>>
        BY <1>7, <2>3, <3>3
      <4>2. /\ ManifestKeeps(fs')
            /\ ~bgError => Opened(fs') = (version \cup apply.edit.added) \ apply.edit.deleted
        BY <1>0, <2>0, <2>1, <3>3, <4>1, EditAppended
      <4>. QED
        BY <1>0, <1>2, <4>2 DEF ManifestExact
    <3>. QED
      BY <3>1, <3>2, <3>3
  <2>5. MemLogged(fs)' /\ ImmLogged(fs)' /\ AckedShown(fs)' /\ ManifestKeeps(fs)'
    BY <1>0, <2>2, <2>4 DEF MemLogged, ImmLogged, AckedShown, ManifestKeeps, Writing, Due, Shown
  <2>6. RecoveryKeeps(fs)' /\ DownKeeps(fs)'
    BY <1>0, <2>0 DEF RecoveryKeeps, DownKeeps
  <2>. QED
    BY <2>4, <2>5, <2>6 DEF KeepsInv
<1>. QED
  BY <1>4, <1>5, <1>6, <1>7

LEMMA WriteCurrentKeeps ==
    ASSUME Inv, Inv', KeepsInv(fs), WriteCurrent
    PROVE  KeepsInv(fs)'
<1>. DEFINE e == apply.edit
            two == <<Snapshot(version), e>>
            V == version \cup recovered
<1>0. /\ DiskInv(fs) /\ DiskInv(fs') /\ DiskTyped(fs) /\ DirsRight(fs) /\ Typed /\ Steps /\ ProcessInv(fs)
      /\ InUse(fs) /\ EditRight(fs) /\ EditWritten(fs) /\ apply.step = "current" /\ apply \in ApplyRecord
      /\ manifest \in Nat /\ version \subseteq Nat /\ recovered \subseteq Nat
      /\ versionLog \in Nat
      /\ fs' = SetCurrentFile(fs, manifest)
      /\ apply' = [apply EXCEPT !.step = "install"]
      /\ UNCHANGED <<phase, version, versionLog, acked, hidden, toRecover, recovered>>
  BY DEF Inv, DiskInv, ProcessInv, WriteCurrent, memoryVars, versionVars, recoveryVars, historyVars,
         Typed, TypedVersion, TypedWork
<1>1. /\ apply.for = "open" /\ phase = "opening" /\ toRecover = {} /\ apply'.step = "install"
      /\ Found = recovered
  BY <1>0 DEF Steps, ApplyRecord, Found
<1>2. /\ Dir(fs).current > 0 /\ Dir(fs).current < manifest /\ Dir(fs).current \in Nat /\ manifest # 0
      /\ DescriptorFile(manifest) \in Dir(fs).names /\ EditsIn(fs, manifest) = two
      /\ DescriptorFile(manifest) \in Files(fs)
  <2>1. Dir(fs).current > 0 /\ Dir(fs).current < manifest
    BY <1>0, <1>1 DEF ProcessInv, Numbers
  <2>2. DescriptorFile(manifest) \in Dir(fs).names /\ EditsIn(fs, manifest) = two
    BY <1>0, <1>1 DEF EditWritten, FileExists
  <2>3. Dir(fs).current \in Nat /\ Dir(fs).names \subseteq Files(fs)
    BY <1>0, DirParts DEF DiskTyped, DirsTyped
  <2>. QED
    BY <1>0, <2>1, <2>2, <2>3
<1>3. /\ e \in EditRecord /\ e # TornEdit /\ e.numbers /\ e.added = recovered
      /\ Snapshot(version) # TornEdit /\ Snapshot(version).added = version
  <2>1. e \in EditRecord /\ e.numbers /\ e.added = recovered
    BY <1>0, <1>1 DEF EditRight, EditAhead
  <2>2. Snapshot(version) \in EditRecord /\ Snapshot(version).added = version
    BY <1>0 DEF Snapshot, EditRecord, Typed, TypedVersion
  <2>. QED
    BY <2>1, <2>2, EditsNotTorn
<1>4. /\ DOMAIN two = {1, 2} /\ Len(two) = 2 /\ two[1] = Snapshot(version) /\ two[2] = e
      /\ two # <<>> /\ Last(two) = e
  BY DEF Last
<1>5. e.deleted = {}
  BY <1>0, <1>1 DEF EditRight
<1>. HIDE DEF two, e
<1>6. TablesOf(two) = V
  <2>1. ASSUME NEW t PROVE t \in TablesOf(two) <=> t \in V
    <3>1. 1 + 1 .. 2 = {2} /\ 2 + 1 .. 2 = {}
      OBVIOUS
    <3>. QED
      BY <1>3, <1>4, <1>5, <3>1, TablesOfIs
  <2>. QED
    BY <2>1
<1>7. /\ Files(fs') = Files(fs) /\ \A g \in Files(fs) : fs'.files[g] = fs.files[g]
      /\ Dir(fs').names = Dir(fs).names /\ Dir(fs').current = manifest
  BY <1>0, SetCurrentDisk
<1>8. SameData(fs, fs') /\ EditsIn(fs', manifest) = two
  BY <1>2, <1>7 DEF SameData, Records, EditsIn
<1>9. Edits(fs') = two /\ Opened(fs') = V
  <2>1. Edits(fs') = two
    BY <1>3, <1>4, <1>7, <1>8, EditsComplete DEF Complete
  <2>. QED
    BY <1>6, <2>1 DEF Opened
<1>10. \A t \in V : FileExists(fs, TableFile(t)) /\ FileExists(fs', TableFile(t))
                    /\ ReadTable(fs', t) = ReadTable(fs, t)
  <2>1. \A t \in V : t \in Nat /\ FileExists(fs, TableFile(t))
    BY <1>0, <1>1 DEF InUse
  <2>. QED
    BY <1>0, <1>8, <2>1, SameDataReads
<1>. HIDE DEF V
<1>11. Readable(fs')
  <2>1. FileExists(fs', DescriptorFile(manifest))
    BY <1>2, <1>7 DEF FileExists
  <2>2. TornEdit \notin Range1(two)
    BY <1>3, <1>4 DEF Range1
  <2>3. two[Len(two)].numbers
    BY <1>3, <1>4
  <2>4. \A t \in TablesOf(two) : FileExists(fs', TableFile(t))
    BY <1>6, <1>10
  <2>. QED
    BY <1>2, <1>4, <1>7, <1>9, <2>1, <2>2, <2>3, <2>4 DEF Readable
<1>12. TablesRead(fs', V) = TablesRead(fs, V)
  BY <1>10, SameTablesRead
<1>13. RecoveryKeeps(fs)'
  <2>1. ASSUME NEW m \in Nat, FileExists(fs', LogFile(m)), versionLog <= m
        PROVE  ReadLog(fs', m) \subseteq TablesRead(fs', V)
    <3>1. FileExists(fs, LogFile(m)) /\ ReadLog(fs', m) = ReadLog(fs, m)
      BY <1>0, <1>8, <2>1, SameDataReads
    <3>2. ReadLog(fs, m) \subseteq TablesRead(fs, V)
      BY <1>1, <2>1, <3>1 DEF KeepsInv, RecoveryKeeps, V
    <3>. QED
      BY <1>12, <3>1, <3>2
  <2>. QED
    BY <1>0, <1>1, <1>9, <1>11, <2>1 DEF RecoveryKeeps, V
<1>14. Recoverable(fs) \subseteq Recoverable(fs')
  <2>0. /\ Readable(fs) /\ Opened(fs) = version /\ LastEdit(fs).log = versionLog
        /\ \A m \in Nat : FileExists(fs, LogFile(m)) /\ versionLog <= m =>
              ReadLog(fs, m) \subseteq TablesRead(fs, V)
    BY <1>0, <1>1 DEF KeepsInv, RecoveryKeeps, V
  <2>1. LoggedFrom(fs, versionLog) \subseteq TablesRead(fs, V)
    BY <2>0 DEF LoggedFrom
  <2>2. TablesRead(fs, version) \subseteq TablesRead(fs, V)
    BY DEF TablesRead, V
  <2>3. Recoverable(fs) \subseteq TablesRead(fs, V)
    BY <1>0, <2>0, <2>1, <2>2, RecoverableIs
  <2>4. TablesRead(fs', V) \subseteq Recoverable(fs')
    BY <1>0, <1>9, <1>11, RecoverableIs
  <2>. QED
    BY <1>12, <2>3, <2>4
<1>15. DownKeeps(fs)'
  <2>1. ~Damaged(fs)
    BY <1>1 DEF KeepsInv, RecoveryKeeps, Readable, Damaged
  <2>2. Due \subseteq Ids(Recoverable(fs))
    BY <1>1, <2>1 DEF KeepsInv, DownKeeps
  <2>. QED
    BY <1>0, <1>14, <2>2 DEF DownKeeps, Due, Ids
<1>. QED
  BY <1>0, <1>1, <1>13, <1>15 DEF KeepsInv, MemLogged, ImmLogged, AckedShown, ManifestKeeps, ManifestExact

LEMMA LastAdded ==
    ASSUME NEW S, NEW s \in Seq(S), s # <<>>
    PROVE  s[Len(s)].added \subseteq TablesOf(s)
<1>1. Len(s) \in Nat /\ DOMAIN s = 1 .. Len(s) /\ Len(s) \in DOMAIN s
  BY LenProperties, EmptySeq
<1>2. \A j \in Len(s) + 1 .. Len(s) : FALSE
  BY <1>1
<1>. QED
  BY <1>1, <1>2, TablesOfIs

\* The manifest that is installed names the new version, and reads like it.
LEMMA InstallOpened ==
    ASSUME Inv, KeepsInv(fs), Install, ~Damaged(fs)
    PROVE  /\ Readable(fs) /\ apply.edit.added \subseteq Opened(fs)
           /\ ~bgError => Opened(fs) = (version \cup apply.edit.added) \ apply.edit.deleted
<1>. DEFINE e == apply.edit
            s == Edits(fs)
<1>0. /\ DiskTyped(fs) /\ Typed /\ Steps /\ ProcessInv(fs) /\ EditRight(fs) /\ apply.step = "install"
  BY DEF Inv, DiskInv, ProcessInv, Install
<1>1. /\ Dir(fs).current = manifest /\ manifest \in Nat
      /\ s = EditsIn(fs, manifest) /\ s # <<>> /\ LastEdit(fs) = e
      /\ phase \in {"opening", "up"}
  BY <1>0, EditInstalled
<1>2. Readable(fs)
  BY <1>0, <1>1 DEF KeepsInv, ManifestKeeps, RecoveryKeeps
<1>3. e.added \subseteq Opened(fs)
  <2>1. manifest \in Currents(fs)
    BY <1>1, <1>2, LastEditFacts DEF Inv
  <2>2. s \in Seq(EditRecord \cup {TornEdit})
    BY <1>1, <2>1, CurrentFacts DEF Inv, DiskInv
  <2>. HIDE DEF s
  <2>3. s[Len(s)].added \subseteq TablesOf(s)
    BY <1>1, <2>2, LastAdded
  <2>. QED
    BY <1>1, <2>3 DEF s, LastEdit, Opened
<1>4. ~bgError => Opened(fs) = (version \cup e.added) \ e.deleted
  <2>1. CASE phase = "up"
    BY <1>0, <2>1 DEF KeepsInv, ManifestExact
  <2>2. CASE phase = "opening"
    <3>1. apply.for = "open" /\ e.added = recovered /\ e.deleted = {}
      BY <1>0, <2>2 DEF Steps, EditRight
    <3>2. Opened(fs) = version \cup recovered
      BY <1>0, <2>2 DEF KeepsInv, RecoveryKeeps
    <3>. QED
      BY <3>1, <3>2
  <2>. QED
    BY <1>1, <2>1, <2>2
<1>. QED
  BY <1>2, <1>3, <1>4

\* What DeleteObsoleteFiles leaves of what is read.
LEMMA InstallReads ==
    ASSUME Inv, Inv', KeepsInv(fs), Install
    PROVE  /\ OpenKept(fs, fs')
           /\ \A m \in Nat : apply.edit.log <= m /\ FileExists(fs, LogFile(m)) =>
                 FileExists(fs', LogFile(m)) /\ ReadLog(fs', m) = ReadLog(fs, m)
           /\ \A t \in version \cup apply.edit.added :
                 t \in Nat /\ ReadTable(fs', t) = ReadTable(fs, t)
<1>. DEFINE e == apply.edit
            V == (version \cup e.added) \ e.deleted
            outs == IF apply.for = "compaction" THEN pending \ {comp.out} ELSE pending
            base == IF apply.for = "compaction" THEN {} ELSE comp.base
            log == e.log
<1>0. /\ DiskInv(fs) /\ DiskInv(fs') /\ DiskTyped(fs) /\ Typed /\ Steps /\ ProcessInv(fs) /\ InUse(fs)
      /\ apply.step = "install"
  BY DEF Inv, DiskInv, ProcessInv, Install
<1>1. fs' = DeleteObsoleteFiles(fs, V, outs, base, log, bgError)
  BY DEF Install
<1>2. /\ Dir(fs).current = manifest /\ manifest > 0 /\ manifest \in Nat
      /\ LastEdit(fs) = e /\ log \in Nat /\ phase \in {"opening", "up"} /\ e.added \subseteq Nat
  BY <1>0, EditInstalled DEF EditRecord
<1>3. \A t \in e.added : t \in Nat /\ FileExists(fs, TableFile(t))
  BY <1>0, <1>2, AddingShown
<1>4. /\ Dir(fs).names \subseteq Files(fs)
      /\ \A t \in version : t \in Nat /\ FileExists(fs, TableFile(t))
  BY <1>0, <1>2, DirParts DEF DiskTyped, DirsTyped, InUse, Typed, TypedVersion
<1>5. ~Damaged(fs) => Readable(fs) /\ (~bgError => Opened(fs) = V)
  BY InstallOpened
<1>6. V \subseteq Live(V, outs, base) /\ V \subseteq version \cup e.added
  BY DEF Live
<1>. HIDE DEF V, outs, base, log
<1>7. /\ Files(fs') = Files(fs) /\ \A f \in Files(fs) : Records(fs', f) = Records(fs, f)
      /\ Dir(fs').current = Dir(fs).current
      /\ Edits(fs') = Edits(fs)
      /\ \A m \in Nat : m >= log /\ LogFile(m) \in Dir(fs).names => LogFile(m) \in Dir(fs').names
      /\ \A t \in Nat : t \in Live(V, outs, base) /\ TableFile(t) \in Dir(fs).names =>
                           TableFile(t) \in Dir(fs').names
  BY <1>0, <1>1, <1>2, ObsoleteStep
<1>8. \A m \in Nat : log <= m /\ FileExists(fs, LogFile(m)) =>
          FileExists(fs', LogFile(m)) /\ ReadLog(fs', m) = ReadLog(fs, m)
  <2>. SUFFICES ASSUME NEW m \in Nat, log <= m, FileExists(fs, LogFile(m))
                PROVE  FileExists(fs', LogFile(m)) /\ ReadLog(fs', m) = ReadLog(fs, m)
    OBVIOUS
  <2>1. m >= log
    BY <1>2
  <2>2. LogFile(m) \in Dir(fs').names /\ Records(fs', LogFile(m)) = Records(fs, LogFile(m))
    BY <1>4, <1>7, <2>1 DEF FileExists
  <2>. QED
    BY <2>2 DEF FileExists, ReadLog
<1>9. \A t \in version \cup e.added : t \in Nat /\ ReadTable(fs', t) = ReadTable(fs, t)
  BY <1>3, <1>4, <1>7 DEF FileExists, ReadTable
<1>10. OpenKept(fs, fs')
  <2>1. DescriptorFile(Dir(fs).current) \in Dir(fs').names
    <3>1. DirsRight(fs') /\ Dir(fs') \in Dirs(fs')
      BY <1>0, DirParts DEF DiskInv, DiskTyped
    <3>. QED
      BY <1>2, <1>7, <3>1 DEF DirsRight
  <2>2. ASSUME Readable(fs), NEW t \in Opened(fs) PROVE TableFile(t) \in Dir(fs').names
    <3>1. ~Damaged(fs) /\ TableFile(t) \in Dir(fs).names /\ t \in Nat
      BY <1>0, <2>2, RecoverableIs DEF FileExists
    <3>2. CASE bgError
      BY <1>1, <3>1, <3>2 DEF DeleteObsoleteFiles, MayDelete
    <3>3. CASE ~bgError
      BY <1>5, <1>6, <1>7, <2>2, <3>1, <3>3
    <3>. QED
      BY <3>2, <3>3
  <2>3. ASSUME Readable(fs), NEW n \in Nat, LastEdit(fs).log <= n, FileExists(fs, LogFile(n))
        PROVE  LogFile(n) \in Dir(fs').names
    BY <1>2, <1>8, <2>3 DEF FileExists, log
  <2>. QED
    BY <1>0, <1>2, <1>7, <2>1, <2>2, <2>3, DeleteOpenKept
<1>. QED
  BY <1>8, <1>9, <1>10 DEF log

LEMMA InstallKeeps ==
    ASSUME Inv, Inv', KeepsInv(fs), Install
    PROVE  KeepsInv(fs)'
<1>. DEFINE e == apply.edit
            V == (version \cup e.added) \ e.deleted
<1>0. /\ DiskInv(fs) /\ DiskInv(fs') /\ DiskTyped(fs) /\ Typed /\ Steps /\ ProcessInv(fs)
      /\ Outputs(fs) /\ OutputsWritten(fs) /\ InUse(fs) /\ EditRight(fs) /\ apply.step = "install"
  BY DEF Inv, DiskInv, ProcessInv, Install
<1>1. /\ version' = V /\ versionLog' = e.log /\ apply' = NoApply /\ phase' = "up"
      /\ IF apply.for = "flush" THEN imm' = <<>> ELSE imm' = imm
      /\ UNCHANGED <<mem, logNumber, bgError, writer, acked, hidden>>
  BY DEF Install, historyVars
<1>2. /\ LastEdit(fs) = e /\ e \in EditRecord /\ phase \in {"opening", "up"} /\ toRecover = {}
      /\ apply.for \in {"open", "flush", "compaction"}
  BY <1>0, EditInstalled
<1>3. /\ e.log \in Nat /\ e.log <= logNumber /\ versionLog <= e.log
      /\ logNumber \in Nat /\ versionLog \in Nat
  BY <1>0, <1>2 DEF EditRight, EditRecord, Typed, TypedMemory, TypedVersion
<1>4. \/ /\ apply.for = "open" /\ phase = "opening" /\ mem = <<>> /\ imm = <<>> /\ Writing = {}
         /\ e.added = recovered /\ e.deleted = {}
      \/ /\ apply.for = "flush" /\ phase = "up" /\ flush.step = "apply"
         /\ e.added = {flush.out} /\ e.deleted = {}
      \/ /\ apply.for = "compaction" /\ phase = "up" /\ comp.step = "apply"
         /\ e.added = {comp.out} /\ e.deleted = comp.inputs /\ e.log = versionLog
  BY <1>0, <1>2, NothingTyped DEF Steps, Quiet, EditRight, Writing
<1>5. /\ OpenKept(fs, fs')
      /\ \A m \in Nat : e.log <= m /\ FileExists(fs, LogFile(m)) =>
            FileExists(fs', LogFile(m)) /\ ReadLog(fs', m) = ReadLog(fs, m)
      /\ \A t \in version \cup e.added : t \in Nat /\ ReadTable(fs', t) = ReadTable(fs, t)
  BY InstallReads
<1>6. /\ Damaged(fs') <=> Damaged(fs)
      /\ Opened(fs') = Opened(fs) /\ LastEdit(fs') = LastEdit(fs)
      /\ Readable(fs) => Readable(fs') /\ TablesRead(fs', Opened(fs')) = TablesRead(fs, Opened(fs))
      /\ Recoverable(fs) \subseteq Recoverable(fs')
  BY <1>0, <1>5, OpenKeeps
<1>7. ~Damaged(fs) => /\ Readable(fs) /\ e.added \subseteq Opened(fs)
                      /\ ~bgError => Opened(fs) = V
  BY InstallOpened
<1>8. V \subseteq version \cup e.added
  OBVIOUS
<1>9. Range1(imm') = {} \/ (imm' = imm /\ phase = "up" /\ apply.for = "compaction" /\ e.log = versionLog)
  BY <1>1, <1>4, EmptySeen
<1>10. \A t \in version : ReadTable(fs, t) \subseteq TablesRead(fs, version)
  BY DEF TablesRead
<1>11. TablesRead(fs', version') = TablesRead(fs, V)
  BY <1>1, <1>5, <1>8, SameTablesRead
<1>. HIDE DEF e, V
<1>12. MemLogged(fs)'
  <2>1. Writing' = Writing
    BY <1>1 DEF Writing
  <2>2. CASE phase = "up"
    <3>1. ReadLog(fs', logNumber) = ReadLog(fs, logNumber)
      BY <1>0, <1>3, <1>5, <2>2 DEF InUse
    <3>. QED
      BY <1>1, <2>1, <2>2, <3>1 DEF KeepsInv, MemLogged
  <2>3. CASE mem = <<>> /\ Writing = {}
    BY <1>1, <2>1, <2>3, EmptySeen DEF MemLogged
  <2>. QED
    BY <1>4, <2>2, <2>3
<1>13. ImmLogged(fs)'
  <2>1. LoggedFrom(fs, e.log) \subseteq LoggedFrom(fs', e.log)
    BY <1>5 DEF LoggedFrom
  <2>2. CASE Range1(imm') = {}
    BY <2>2 DEF ImmLogged
  <2>3. CASE imm' = imm /\ phase = "up" /\ e.log = versionLog
    BY <1>1, <2>1, <2>3 DEF KeepsInv, ImmLogged
  <2>. QED
    BY <1>9, <2>2, <2>3
<1>14. AckedShown(fs)'
  <2>1. Shown(fs)' = Range1(mem) \cup Range1(imm') \cup TablesRead(fs, V)
    <3>1. Shown(fs)' = Range1(mem') \cup Range1(imm') \cup TablesRead(fs', version')
      BY DEF Shown, TablesRead
    <3>. QED
      BY <1>1, <1>11, <3>1
  <2>2. Due' = Due
    BY <1>1 DEF Due
  <2>3. CASE phase = "up"
    <3>1. Range1(imm) \subseteq Range1(imm') \cup TablesRead(fs, V)
      <4>1. CASE apply.for = "flush" /\ flush.step = "apply" /\ e.added = {flush.out} /\ e.deleted = {}
        <5>1. flush.out \in V /\ ReadTable(fs, flush.out) = Range1(imm)
          BY <1>0, <4>1 DEF V, OutputsWritten
        <5>. QED
          BY <5>1 DEF TablesRead
      <4>2. CASE apply.for # "flush"
        BY <1>1, <4>2
      <4>. QED
        BY <1>4, <2>3, <4>1, <4>2
    <3>2. TablesRead(fs, version) \subseteq TablesRead(fs, V)
      <4>1. ASSUME NEW t \in version, NEW b \in ReadTable(fs, t) PROVE \E u \in V : b \in ReadTable(fs, u)
        <5>1. CASE t \notin e.deleted
          BY <4>1, <5>1 DEF V
        <5>2. CASE t \in e.deleted
          <6>1. comp.step = "apply" /\ e.added = {comp.out} /\ e.deleted = comp.inputs /\ t \in comp.inputs
            BY <1>4, <5>2
          <6>2. comp.out \in V
            BY <1>0, <6>1 DEF V, Outputs
          <6>3. b \in ReadTable(fs, comp.out)
            BY <1>0, <4>1, <6>1 DEF OutputsWritten
          <6>. QED
            BY <6>2, <6>3
        <5>. QED
          BY <5>1, <5>2
      <4>. QED
        BY <4>1 DEF TablesRead
    <3>3. Shown(fs) = Range1(mem) \cup Range1(imm) \cup TablesRead(fs, version)
      BY DEF Shown, TablesRead
    <3>4. Shown(fs) \subseteq Shown(fs)'
      BY <2>1, <3>1, <3>2, <3>3
    <3>5. Due \subseteq Ids(Shown(fs))
      BY <2>3 DEF KeepsInv, AckedShown
    <3>6. Due \subseteq Ids(Shown(fs)')
      BY <3>4, <3>5 DEF Ids
    <3>. QED
      BY <2>2, <3>6 DEF AckedShown, Ids
  <2>4. CASE phase = "opening" /\ e.added = recovered /\ e.deleted = {}
    <3>0. V = version \cup recovered
      BY <2>4 DEF V
    <3>1. /\ Readable(fs) /\ Opened(fs) = V
          /\ \A m \in Nat : FileExists(fs, LogFile(m)) /\ versionLog <= m => ReadLog(fs, m) \subseteq TablesRead(fs, V)
      BY <1>0, <1>2, <2>4, <3>0 DEF KeepsInv, RecoveryKeeps
    <3>2. LoggedFrom(fs, e.log) \subseteq TablesRead(fs, V)
      <4>1. \A m \in Nat : e.log <= m => versionLog <= m
        BY <1>3
      <4>. QED
        BY <3>1, <4>1 DEF LoggedFrom
    <3>3. Recoverable(fs) \subseteq TablesRead(fs, V) /\ ~Damaged(fs)
      BY <1>0, <1>2, <3>1, <3>2, RecoverableIs
    <3>4. Due \subseteq Ids(Recoverable(fs))
      BY <2>4, <3>3 DEF KeepsInv, DownKeeps
    <3>5. Due \subseteq Ids(Shown(fs)')
      BY <2>1, <3>3, <3>4 DEF Ids
    <3>. QED
      BY <2>2, <3>5 DEF AckedShown, Ids
  <2>. QED
    BY <1>4, <2>3, <2>4
<1>15. ManifestKeeps(fs)'
  <2>. SUFFICES ASSUME ~Damaged(fs')
                PROVE  /\ Readable(fs')
                       /\ \A b \in Range1(imm') : b.id \in hidden \/ b \in Recoverable(fs')
                       /\ \A t \in V : ReadTable(fs', t) \subseteq TablesRead(fs', Opened(fs'))
    BY <1>1 DEF ManifestKeeps, Damaged, Readable, Recoverable, TablesRead, Opened, Edits, ReadTable, ReadLog
  <2>1. ~Damaged(fs) /\ Readable(fs) /\ Readable(fs') /\ e.added \subseteq Opened(fs)
        /\ TablesRead(fs', Opened(fs')) = TablesRead(fs, Opened(fs))
    BY <1>6, <1>7
  <2>2. \A b \in Range1(imm') : b.id \in hidden \/ b \in Recoverable(fs')
    <3>1. CASE Range1(imm') = {}
      BY <3>1
    <3>2. CASE imm' = imm /\ phase = "up"
      BY <1>6, <2>1, <3>2 DEF KeepsInv, ManifestKeeps
    <3>. QED
      BY <1>9, <3>1, <3>2
  <2>3. ASSUME NEW t \in V PROVE ReadTable(fs', t) \subseteq TablesRead(fs', Opened(fs'))
    <3>0. ReadTable(fs', t) = ReadTable(fs, t)
      BY <1>5, <1>8, <2>3
    <3>1. CASE t \in Opened(fs)
      BY <2>1, <3>0, <3>1 DEF TablesRead
    <3>2. CASE t \in version /\ phase = "up"
      BY <2>1, <3>0, <3>2 DEF KeepsInv, ManifestKeeps
    <3>3. CASE t \in version /\ phase = "opening"
      <4>1. Opened(fs) = version \cup recovered
        BY <1>0, <3>3 DEF KeepsInv, RecoveryKeeps
      <4>. QED
        BY <3>1, <3>3, <4>1
    <3>. QED
      BY <1>2, <1>8, <2>1, <2>3, <3>1, <3>2, <3>3
  <2>. QED
    BY <2>1, <2>2, <2>3
<1>16. ManifestExact(fs)'
  <2>1. apply'.step = "none"
    BY <1>1, NothingTyped
  <2>2. ~Damaged(fs') /\ ~bgError' => Opened(fs') = version'
    BY <1>1, <1>6, <1>7
  <2>. QED
    BY <2>1, <2>2 DEF ManifestExact, Damaged, Opened, Edits
<1>. QED
  BY <1>1, <1>12, <1>13, <1>14, <1>15, <1>16 DEF KeepsInv, RecoveryKeeps, DownKeeps

\* Every step.
LEMMA NextKeeps ==
    ASSUME Inv, Inv', KeepsInv(fs), [Next]_vars, ReadWhole'
    PROVE  KeepsInv(fs)'
<1>1. CASE \E sync \in SyncOptions : AddRecord(sync)
  BY <1>1, AddRecordKeeps
<1>2. CASE NewLogFails \/ SyncLog \/ InsertInto
  BY <1>2, NewLogFailsKeeps, SyncLogKeeps, InsertIntoKeeps
<1>3. CASE ApplyStep
  BY <1>3, WriteManifestKeeps, SyncManifestKeeps, WriteCurrentKeeps, SetCurrentFailsKeeps,
     InstallKeeps, ApplyFailedKeeps DEF ApplyStep
<1>4. CASE BackgroundStep
  BY <1>4, FlushBeginKeeps, WriteLevel0TableKeeps, CompactionBeginKeeps,
     CompactionOpenFailsKeeps, CompactionFinishKeeps, InstallCompactionResultsKeeps DEF BackgroundStep
<1>5. CASE OpenStep
  BY <1>5, ReadWholeBefore, NewDBKeeps, NewDBFailsKeeps, RecoverManifestKeeps, RecoverLogFileKeeps,
     OpenFailsKeeps, OpenLogKeeps DEF OpenStep
<1>6. CASE ReaderBegin \/ ReaderEnd
  BY <1>6, ReaderKeeps
<1>7. CASE Kill \/ PowerFailure
  BY <1>7, KillKeeps, PowerFailureKeeps
<1>8. CASE UNCHANGED vars
  <2>1. UNCHANGED <<fs, phase, mem, imm, logNumber, version, versionLog, bgError, writer, apply,
                    toRecover, recovered, acked, hidden>>
    BY <1>8 DEF vars, memoryVars, versionVars, recoveryVars, historyVars
  <2>2. MemLogged(fs)' /\ ImmLogged(fs)'
    BY <2>1 DEF KeepsInv, MemLogged, ImmLogged, Writing
  <2>3. AckedShown(fs)' /\ DownKeeps(fs)'
    BY <2>1 DEF KeepsInv, AckedShown, DownKeeps, Due, Shown
  <2>4. ManifestKeeps(fs)' /\ ManifestExact(fs)' /\ RecoveryKeeps(fs)'
    BY <2>1 DEF KeepsInv, ManifestKeeps, ManifestExact, RecoveryKeeps
  <2>. QED
    BY <2>2, <2>3, <2>4 DEF KeepsInv
<1>. QED
  BY <1>1, <1>2, <1>3, <1>4, <1>5, <1>6, <1>7, <1>8 DEF Next, WriterStep

LEMMA KeepsNoWriteLost == KeepsInv(fs) => NoWriteLost
<1>. SUFFICES ASSUME KeepsInv(fs) PROVE NoWriteLost
  OBVIOUS
<1>1. Damaged(fs) <=> DescriptorDamaged
  BY DEF Damaged, DescriptorDamaged
<1>2. CASE phase = "up"
  <2>1. Visible = Shown(fs)
    BY DEF Visible, Shown, Tables
  <2>. QED
    BY <1>2, <2>1 DEF KeepsInv, AckedShown, Due, NoWriteLost, Contents
<1>3. CASE phase # "up"
  BY <1>1, <1>3 DEF KeepsInv, DownKeeps, Due, NoWriteLost, Contents
<1>. QED
  BY <1>2, <1>3

\* What Write has put in the memtables is in logs that no manifest has given
\* up, and the manifest that CURRENT names accounts for the tables and the logs
\* of the current version: through MakeRoomForWrite's switch of logs,
\* CompactMemTable, DoCompactionWork, LogAndApply, RecoverLogFile and
\* DeleteObsoleteFiles, and through every failure and death between them, as
\* long as every open could read the logs it found to their ends.
THEOREM WritesAreKept == Spec => [](ReadWhole => Inv /\ KeepsInv(fs))
<1>1. Init => (ReadWhole => Inv /\ KeepsInv(fs))
  BY InitInv, InitKeeps
<1>2. (ReadWhole => Inv /\ KeepsInv(fs)) /\ [Next]_vars => (ReadWhole => Inv /\ KeepsInv(fs))'
  <2>. SUFFICES ASSUME ReadWhole => Inv /\ KeepsInv(fs), [Next]_vars, ReadWhole'
                PROVE  (Inv /\ KeepsInv(fs))'
    OBVIOUS
  <2>1. Inv /\ KeepsInv(fs)
    BY ReadWholeBefore
  <2>2. Inv'
    BY <2>1, NextInv
  <2>3. KeepsInv(fs)'
    BY <2>1, <2>2, NextKeeps
  <2>. QED
    BY <2>2, <2>3
<1>. QED
  BY <1>1, <1>2, PTL DEF Spec

\* No write that Write acknowledged is lost when the process dies, at whatever
\* step of a flush, a compaction or a recovery, unless it was logged behind part
\* of a record, the descriptor was written to behind part of an edit, or an open
\* could not read a log to its end.
THEOREM NoWriteIsLost == Spec => [](ReadWhole => NoWriteLost)
BY WritesAreKept, KeepsNoWriteLost, PTL
=============================================================================
