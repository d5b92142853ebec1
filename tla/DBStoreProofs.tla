---------------------------- MODULE DBStoreProofs ---------------------------
(***************************************************************************)
(* What a leveldb database keeps when the machine may lose power, on a     *)
(* file system whose fsync forces the names too.                           *)
(*                                                                         *)
(* NamesInv: in no state of the directory that the disk may hold does      *)
(* CURRENT name a manifest of which a part could survive that cannot be    *)
(* read.                                                                   *)
(*                                                                         *)
(* StoreInv: where I/O does not fail, every part of a manifest that could  *)
(* survive, in every state of the directory that the disk may hold, leads  *)
(* to each write that was acknowledged with sync, by a table or by the     *)
(* synced part of a log (AtLeast), and to no write that a reader does not  *)
(* find and that is not under way (AtMost).  From it the database on its   *)
(* disk is shown to be a DurableStore.                                     *)
(***************************************************************************)
EXTENDS DBImplProofs

-----------------------------------------------------------------------------
(* What an open may meet after the machine's death, where fsync of a file  *)
(* forces the names too.                                                   *)

\* The edits can be read, and their tables are among the names.
Opens(names, s) ==
    LET g == Complete(s)
    IN  \/ TornEdit \in Range1(g)
        \/ /\ g # <<>> /\ g[Len(g)].numbers
           /\ \A t \in TablesOf(g) : TableFile(t) \in names

\* What the disk may keep of the manifest.
Survives(disk, c, s) ==
    Prefix(s, EditsIn(disk, c)) /\ Synced(disk, DescriptorFile(c)) <= Len(s)
OpensAt(disk, d) ==
    d.current > 1 =>
       \A s \in Seq(EditRecord \cup {TornEdit}) : Survives(disk, d.current, s) => Opens(d.names, s)
OpensAlways(disk) == \A d \in Dirs(disk) : OpensAt(disk, d)

\* No state of the directory lacks a table that was built.
Forced(disk, t) == \A d \in Dirs(disk) : TableFile(t) \in d.names
OutputsForced(disk) ==
    /\ flush.step = "apply" => Forced(disk, flush.out)
    /\ comp.step \in {"written", "apply"} => Forced(disk, comp.out)
EditSynced(disk) ==
    apply.step \in {"current", "install"} =>
       Synced(disk, DescriptorFile(manifest)) = Len(EditsIn(disk, manifest))

NamesInv(disk) == OpensAlways(disk) /\ OutputsForced(disk) /\ EditSynced(disk)

LEMMA OpensMore ==
    ASSUME NEW N, NEW M, NEW s, Opens(N, s), \A t : TableFile(t) \in N => TableFile(t) \in M
    PROVE  Opens(M, s)
BY DEF Opens

\* Nothing is taken from a manifest, nor a table from a directory.
LEMMA OpensKept ==
    ASSUME NEW D, NEW E, DiskTyped(D), DirsRight(D), DiskTyped(E), DirsRight(E), OpensAlways(D),
           \A d \in Dirs(E) : d.current > 1 =>
              /\ \E o \in Dirs(D) : /\ o.current = d.current
                                    /\ \A t : TableFile(t) \in o.names => TableFile(t) \in d.names
              /\ EditsIn(E, d.current) = EditsIn(D, d.current)
              /\ Synced(D, DescriptorFile(d.current)) <= Synced(E, DescriptorFile(d.current))
    PROVE  OpensAlways(E)
<1>. SUFFICES ASSUME NEW d \in Dirs(E), d.current > 1,
                     NEW s \in Seq(EditRecord \cup {TornEdit}), Survives(E, d.current, s)
              PROVE  Opens(d.names, s)
  BY DEF OpensAlways, OpensAt
<1>. DEFINE c == d.current
<1>1. PICK o \in Dirs(D) : o.current = c /\ \A t : TableFile(t) \in o.names => TableFile(t) \in d.names
  OBVIOUS
<1>2. EditsIn(E, c) = EditsIn(D, c) /\ Synced(D, DescriptorFile(c)) <= Synced(E, DescriptorFile(c))
  OBVIOUS
<1>3. c \in Currents(D) /\ c \in Currents(E) /\ c \in Nat
  BY <1>1, DirParts DEF Currents, DiskTyped
<1>4. /\ Synced(D, DescriptorFile(c)) \in Nat /\ Synced(E, DescriptorFile(c)) \in Nat /\ Len(s) \in Nat
  BY <1>3, CurrentFacts, FileParts, LenProperties DEF DiskTyped
<1>. HIDE DEF c
<1>5. Survives(D, c, s)
  BY <1>2, <1>4 DEF Survives, c
<1>6. o.current > 1
  BY <1>1 DEF c
<1>7. Opens(o.names, s)
  BY <1>1, <1>5, <1>6 DEF OpensAlways, OpensAt
<1>. QED
  BY <1>1, <1>7, OpensMore

LEMMA TouchOpens ==
    ASSUME NEW D, NEW E, NEW f, DiskTyped(D), DirsRight(D), Touches(D, E, f), Dir(D).current > 0,
           \A c \in Currents(D) : f = DescriptorFile(c) =>
               Records(E, f) = Records(D, f) /\ Synced(D, f) <= Synced(E, f)
    PROVE  /\ OpensAlways(D) => OpensAlways(E)
           /\ \A t : Forced(D, t) => Forced(E, t)
<1>1. DirsRight(E) /\ DiskTyped(E) /\ Dir(D) \in Dirs(D)
  BY TouchDirs, DirParts DEF Touches, DiskTyped
<1>2. ASSUME NEW d \in Dirs(E)
      PROVE  \E o \in Dirs(D) : o.current = d.current /\ o.names \subseteq d.names
  BY <1>1 DEF Touches
<1>3. ASSUME NEW d \in Dirs(E), d.current > 1
      PROVE  /\ EditsIn(E, d.current) = EditsIn(D, d.current)
             /\ Synced(D, DescriptorFile(d.current)) <= Synced(E, DescriptorFile(d.current))
  <2>. DEFINE c == d.current
              g == DescriptorFile(c)
  <2>1. c \in Currents(E) /\ c \in Currents(D)
    <3>1. c \in Nat
      BY <1>1, DirParts DEF DiskTyped
    <3>2. c # 0
      BY <1>3, <3>1
    <3>. QED
      BY <1>2, <3>2 DEF Currents
  <2>2. g \in Files(D) /\ g \in Files(E) /\ Synced(D, g) \in Nat
    BY <1>1, <2>1, CurrentFacts, FileParts DEF DiskTyped
  <2>. HIDE DEF g, c
  <2>3. Records(E, g) = Records(D, g) /\ Synced(D, g) <= Synced(E, g)
    <3>1. CASE f = g
      BY <2>1, <3>1 DEF g
    <3>2. CASE f # g
      <4>1. E.files[g] = D.files[g]
        BY <2>2, <3>2 DEF Touches
      <4>. QED
        BY <2>2, <4>1 DEF Records, Synced
    <3>. QED
      BY <3>1, <3>2
  <2>. QED
    BY <2>3 DEF EditsIn, g, c
<1>4. OpensAlways(D) => OpensAlways(E)
  <2>1. \A d \in Dirs(E) : \E o \in Dirs(D) : /\ o.current = d.current
                                              /\ \A t : TableFile(t) \in o.names => TableFile(t) \in d.names
    BY <1>2
  <2>. QED
    BY <1>1, <1>3, <2>1, OpensKept
<1>5. \A t : Forced(D, t) => Forced(E, t)
  BY <1>2 DEF Forced
<1>. QED
  BY <1>4, <1>5

\* A step that touches a log or a table.
LEMMA TouchNames ==
    ASSUME NEW D, NEW E, NEW f, DiskTyped(D), DirsRight(D), Typed, Steps, ProcessInv(D),
           phase # "down", Touches(D, E, f), \A c \in Nat : f # DescriptorFile(c), NamesInv(D)
    PROVE  NamesInv(E)
<1>0. Dir(D).current > 0 /\ manifest \in Nat /\ \A c \in Currents(D) : c \in Nat
  BY DirParts, CurrentFacts DEF ProcessInv, Numbers, Typed, TypedVersion
<1>1. OpensAlways(E) /\ \A t : Forced(D, t) => Forced(E, t)
  BY <1>0, TouchOpens DEF NamesInv
<1>2. OutputsForced(E)
  BY <1>1 DEF NamesInv, OutputsForced
<1>3. EditSynced(E)
  <2>. SUFFICES ASSUME apply.step \in {"current", "install"} PROVE EditSynced(E)
    BY DEF EditSynced
  <2>. DEFINE g == DescriptorFile(manifest)
  <2>1. g \in Dir(D).names
    <3>1. CASE apply.step = "current"
      BY <3>1 DEF ProcessInv, EditWritten, Steps, FileExists
    <3>2. CASE apply.step = "install"
      <4>1. Dir(D).current = manifest /\ manifest > 0
        BY <3>2, EditInstalled
      <4>. QED
        BY <1>0, <4>1, DirParts DEF DirsRight, DiskTyped
    <3>. QED
      BY <3>1, <3>2
  <2>2. g \in Files(E) /\ g # f
    BY <1>0, <2>1, DirParts DEF Touches, DiskTyped, DirsTyped
  <2>. HIDE DEF g
  <2>3. E.files[g] = D.files[g]
    BY <2>2 DEF Touches
  <2>. QED
    BY <2>3 DEF NamesInv, EditSynced, EditsIn, Records, Synced, g
<1>. QED
  BY <1>1, <1>2, <1>3 DEF NamesInv

\* The machine dies.
LEMMA PowerFailureOpens ==
    ASSUME NEW D, DiskInv(D), OpensAlways(D), NEW E \in AfterPowerFailure(D)
    PROVE  OpensAlways(E)
<1>0. DiskTyped(D) /\ DirsRight(D) /\ DiskInv(E) /\ DiskTyped(E) /\ DirsRight(E)
  BY PowerFailureStep DEF DiskInv
<1>1. PICK d \in Dirs(D) : Dirs(E) = {d} /\ Dir(E) = d /\ Files(E) = d.names
  BY <1>0, PowerFailureDisk
<1>. SUFFICES ASSUME d.current > 1,
                     NEW s \in Seq(EditRecord \cup {TornEdit}), Survives(E, d.current, s)
              PROVE  Opens(d.names, s)
  BY <1>1 DEF OpensAlways, OpensAt
<1>. DEFINE f == DescriptorFile(d.current)
<1>2. d.current \in Nat /\ d.current # 0
  BY <1>0, DirParts DEF DiskTyped
<1>3. f \in Files(E) /\ f \in Files(D)
  BY <1>0, <1>1, <1>2, DirParts DEF DirsRight, DiskTyped, DirsTyped
<1>. HIDE DEF f
<1>4. PICK n \in Synced(D, f) .. Len(Records(D, f)) :
          Records(E, f) = SubSeq(Records(D, f), 1, n) /\ Synced(E, f) = n
  BY <1>0, <1>3, PowerFailureDisk
<1>5. /\ Synced(D, f) \in Nat /\ Len(Records(D, f)) \in Nat /\ Len(s) \in Nat
      /\ Records(D, f) \in Seq(Item(f))
  BY <1>0, <1>3, FileParts, LenProperties DEF DiskTyped
<1>6. n \in 0 .. Len(Records(D, f)) /\ n \in Nat /\ Synced(D, f) <= n
  BY <1>4, <1>5
<1>7. Prefix(Records(E, f), Records(D, f))
  BY <1>4, <1>5, <1>6, CutPrefix
<1>8. Prefix(s, Records(E, f)) /\ n <= Len(s)
  BY <1>4 DEF Survives, EditsIn, f
<1>9. Prefix(s, Records(D, f)) /\ Synced(D, f) <= Len(s)
  BY <1>5, <1>6, <1>7, <1>8 DEF Prefix
<1>10. Survives(D, d.current, s)
  BY <1>9 DEF Survives, EditsIn, f
<1>. QED
  BY <1>10 DEF OpensAlways, OpensAt

\* An open finds the last state of the directory and all edits.
LEMMA OpensNow ==
    ASSUME NEW D, DiskTyped(D), DirsRight(D), OpensAlways(D), Dir(D).current > 1
    PROVE  Readable(D) \/ TornEdit \in Range1(Edits(D))
<1>. DEFINE c == Dir(D).current
            s == EditsIn(D, c)
<1>1. Dir(D) \in Dirs(D) /\ c \in Nat /\ c # 0
  BY DirParts DEF DiskTyped
<1>2. c \in Currents(D)
  BY <1>1, CurrentOfDir
<1>3. s \in Seq(EditRecord \cup {TornEdit}) /\ Synced(D, DescriptorFile(c)) <= Len(s)
      /\ DescriptorFile(c) \in Dir(D).names
  <2>1. DescriptorFile(c) \in Files(D) /\ s \in Seq(EditRecord \cup {TornEdit})
    BY <1>2, CurrentFacts
  <2>2. DescriptorFile(c) \in Dir(D).names
    BY <1>1 DEF DirsRight
  <2>. QED
    BY <2>1, <2>2, FileParts DEF DiskTyped, EditsIn
<1>4. Survives(D, c, s)
  BY <1>3 DEF Survives, Prefix
<1>5. Opens(Dir(D).names, s)
  BY <1>1, <1>3, <1>4 DEF OpensAlways, OpensAt
<1>6. Edits(D) = Complete(s)
  BY EditsComplete
<1>7. FileExists(D, DescriptorFile(c))
  BY <1>3 DEF FileExists
<1>. HIDE DEF s
<1>. QED
  BY <1>1, <1>5, <1>6, <1>7 DEF Opens, Readable, FileExists

-----------------------------------------------------------------------------
(* The steps, where fsync of a file forces the names too.                  *)

\* What a file's fsync forces.
LEMMA SyncForces ==
    ASSUME FsyncForcesNames, NEW D, DiskTyped(D), NEW t \in Nat, TableFile(t) \in Dir(D).names,
           NEW E, E = Sync(D, TableFile(t))
    PROVE  Forced(E, t)
<1>1. SyncsDir(TableFile(t))
  BY DEF SyncsDir
<1>. QED
  BY <1>1, SyncDisk DEF Forced

LEMMA BuildTableForces ==
    ASSUME FsyncForcesNames, NEW D, DiskTyped(D), NEW t \in Nat, NEW s \in Seq(Batch),
           NEW E, E = BuildTable(D, t, s)
    PROVE  Forced(E, t)
<1>. DEFINE f == TableFile(t)
            D1 == NewWritableFile(D, f)
            D2 == AddRecords(D1, f, s)
<1>0. f \in File /\ Item(f) = Batch
  BY FileTypes DEF Item
<1>1. Touches(D, D1, f)
  BY <1>0, NewFileTouches
<1>. HIDE DEF D1
<1>2. DiskTyped(D1) /\ f \in Dir(D1).names /\ s \in Seq(Item(f))
  BY <1>0, <1>1 DEF Touches
<1>3. Touches(D1, D2, f)
  BY <1>2, AddRecordsTouches
<1>. HIDE DEF D2
<1>4. DiskTyped(D2) /\ f \in Dir(D2).names
  BY <1>3 DEF Touches
<1>5. E = Sync(D2, f)
  BY DEF BuildTable, D1, D2
<1>. QED
  BY <1>4, <1>5, SyncForces

\* The steps that leave the work as it is.
LEMMA SameWorkNames ==
    ASSUME NamesInv(fs'), UNCHANGED <<flush, comp, apply, manifest>>
    PROVE  NamesInv(fs)'
BY DEF NamesInv, OutputsForced, EditSynced

\* A process that applies no edit, or whose edit is not yet synced.
LEMMA UnsyncedNames ==
    ASSUME OpensAlways(fs'), apply'.step \notin {"current", "install"},
           flush'.step = "apply" => Forced(fs', flush'.out),
           comp'.step \in {"written", "apply"} => Forced(fs', comp'.out)
    PROVE  NamesInv(fs)'
BY DEF NamesInv, OutputsForced, EditSynced

LEMMA NoProcessNames ==
    ASSUME OpensAlways(fs'), NoProcess
    PROVE  NamesInv(fs)'
<1>1. /\ apply'.step \notin {"current", "install"} /\ flush'.step # "apply"
      /\ comp'.step \notin {"written", "apply"}
  BY NothingTyped DEF NoProcess
<1>. QED
  BY <1>1, UnsyncedNames

LEMMA WriterNames ==
    ASSUME Inv, NamesInv(fs), WriterStep
    PROVE  NamesInv(fs)'
<1>0. /\ DiskTyped(fs) /\ DirsRight(fs) /\ Typed /\ Steps /\ ProcessInv(fs)
      /\ logNumber \in Nat /\ nextFile \in Nat
  BY DEF Inv, DiskInv, Typed, TypedMemory, TypedVersion
<1>1. ASSUME NEW l \in Nat, Touches(fs, fs', LogFile(l)), phase = "up" PROVE NamesInv(fs')
  <2>1. \A c \in Nat : LogFile(l) # DescriptorFile(c)
    BY FilesDiffer
  <2>. QED
    BY <1>0, <1>1, <2>1, TouchNames
<1>2. ASSUME NEW sync \in SyncOptions, AddRecord(sync) PROVE NamesInv(fs)'
  <2>1. phase = "up" /\ UNCHANGED <<flush, comp, apply, manifest>>
    BY <1>2 DEF AddRecord
  <2>2. NamesInv(fs')
    BY <1>1, <1>2, <2>1, AddRecordTouches
  <2>. QED
    BY <2>1, <2>2, SameWorkNames
<1>3. CASE SyncLog
  <2>1. /\ writer.step # "idle" /\ UNCHANGED <<flush, comp, apply, manifest>>
        /\ fs' = fs \/ fs' = Sync(fs, LogFile(logNumber))
    BY <1>3 DEF SyncLog
  <2>2. phase = "up"
    BY <2>1, WorkIsUp
  <2>3. LogFile(logNumber) \in Dir(fs).names
    BY <1>0, <2>2 DEF ProcessInv, InUse, FileExists
  <2>4. NamesInv(fs')
    BY <1>0, <1>1, <2>1, <2>2, <2>3, SyncTouches
  <2>. QED
    BY <2>1, <2>4, SameWorkNames
<1>4. CASE InsertInto
  <2>1. UNCHANGED <<fs, flush, comp, apply, manifest>>
    BY <1>4 DEF InsertInto
  <2>. QED
    BY <2>1, SameWorkNames
<1>5. CASE NewLogFails
  <2>1. UNCHANGED <<fs, flush, comp, apply, manifest>>
    BY <1>5 DEF NewLogFails, versionVars
  <2>. QED
    BY <2>1, SameWorkNames
<1>. QED
  BY <1>2, <1>3, <1>4, <1>5 DEF WriterStep

LEMMA FlushBeginNames ==
    ASSUME Inv, NamesInv(fs), FlushBegin
    PROVE  NamesInv(fs)'
<1>1. flush'.step = "build" /\ UNCHANGED <<fs, comp, apply, manifest>>
  BY DEF FlushBegin
<1>2. OutputsForced(fs)' /\ EditSynced(fs)'
  BY <1>1 DEF NamesInv, OutputsForced, EditSynced
<1>. QED
  BY <1>1, <1>2 DEF NamesInv

\* A table that the process makes.
LEMMA TableNames ==
    ASSUME Inv, NamesInv(fs), phase # "down", NEW t \in Nat, Touches(fs, fs', TableFile(t))
    PROVE  NamesInv(fs')
<1>1. DiskTyped(fs) /\ DirsRight(fs) /\ Typed /\ Steps /\ ProcessInv(fs)
  BY DEF Inv, DiskInv
<1>2. \A c \in Nat : TableFile(t) # DescriptorFile(c)
  BY FilesDiffer
<1>. QED
  BY <1>1, <1>2, TouchNames

LEMMA WriteLevel0TableNames ==
    ASSUME FsyncForcesNames, Inv, NamesInv(fs), WriteLevel0Table
    PROVE  NamesInv(fs)'
<1>0. /\ DiskTyped(fs) /\ flush \in FlushRecord /\ apply \in ApplyRecord /\ imm \in Seq(Batch)
      /\ flush.step = "build" /\ UNCHANGED <<comp, manifest>>
  BY DEF Inv, DiskInv, Typed, TypedMemory, TypedWork, WriteLevel0Table
<1>1. phase = "up" /\ flush.out \in Nat
  BY <1>0, WorkIsUp DEF FlushRecord
<1>2. CASE /\ fs' = BuildTable(fs, flush.out, imm)
           /\ flush' = [flush EXCEPT !.step = "apply"]
           /\ BeginApply(Edit({flush.out}, {}, FlushedLog, nextFile, lastSequence), "flush")
  <2>1. Touches(fs, fs', TableFile(flush.out)) /\ Forced(fs', flush.out)
    BY <1>0, <1>1, <1>2, BuildTableTouches, BuildTableForces
  <2>2. NamesInv(fs')
    BY <1>1, <2>1, TableNames
  <2>3. flush'.out = flush.out
    BY <1>0, <1>2 DEF FlushRecord
  <2>4. apply'.step = "append"
    BY <1>2 DEF BeginApply
  <2>. QED
    BY <1>0, <2>1, <2>2, <2>3, <2>4, UnsyncedNames DEF NamesInv, OutputsForced
<1>3. CASE fs' = fs /\ apply' = apply /\ flush' = NoFlush
  <2>1. OutputsForced(fs)' /\ EditSynced(fs)'
    BY <1>0, <1>3, NothingTyped DEF NamesInv, OutputsForced, EditSynced
  <2>. QED
    BY <1>3, <2>1 DEF NamesInv
<1>. QED
  BY <1>2, <1>3 DEF WriteLevel0Table

LEMMA CompactionBeginNames ==
    ASSUME Inv, NamesInv(fs), NEW inputs \in SUBSET version, CompactionBegin(inputs)
    PROVE  NamesInv(fs)'
<1>0. /\ DiskTyped(fs) /\ nextFile \in Nat /\ phase = "up" /\ comp'.step = "running"
      /\ fs' = NewWritableFile(fs, TableFile(nextFile)) /\ UNCHANGED <<flush, apply, manifest>>
  BY DEF Inv, DiskInv, Typed, TypedVersion, CompactionBegin
<1>1. NamesInv(fs')
  <2>1. TableFile(nextFile) \in File
    BY <1>0, FileTypes
  <2>2. Touches(fs, fs', TableFile(nextFile))
    BY <1>0, <2>1, NewFileTouches
  <2>. QED
    BY <1>0, <2>2, TableNames
<1>2. OutputsForced(fs)' /\ EditSynced(fs)'
  BY <1>0, <1>1 DEF NamesInv, OutputsForced, EditSynced
<1>. QED
  BY <1>1, <1>2 DEF NamesInv

LEMMA CompactionOpenFailsNames ==
    ASSUME NamesInv(fs), NEW inputs \in SUBSET version, CompactionOpenFails(inputs)
    PROVE  NamesInv(fs)'
<1>1. UNCHANGED <<fs, flush, comp, apply, manifest>>
  BY DEF CompactionOpenFails
<1>. QED
  BY <1>1, SameWorkNames

LEMMA CompactionFinishNames ==
    ASSUME FsyncForcesNames, Inv, NamesInv(fs), CompactionFinish
    PROVE  NamesInv(fs)'
<1>. DEFINE f == TableFile(comp.out)
            all == UNION {ReadTable(fs, t) : t \in comp.inputs}
            D == AddRecords(fs, f, SetToSeq(all))
<1>0. /\ DiskTyped(fs) /\ comp \in CompactionRecord /\ comp.step = "running"
      /\ UNCHANGED <<flush, manifest>>
  BY DEF Inv, DiskInv, Typed, TypedWork, CompactionFinish
<1>1. phase = "up" /\ comp.out \in Nat /\ SetToSeq(all) \in Seq(Batch)
  BY <1>0, WorkIsUp, CompactionBatches DEF CompactionRecord
<1>2. CASE /\ FileExists(fs, f) /\ fs' = Sync(D, f)
           /\ comp' = [comp EXCEPT !.step = "written"] /\ apply' = apply
  <2>. HIDE DEF all
  <2>1. Item(f) = Batch /\ f \in Dir(fs).names
    BY <1>1, <1>2, FileTypes DEF Item, FileExists
  <2>2. Touches(fs, D, f)
    BY <1>0, <1>1, <2>1, AddRecordsTouches
  <2>3. DiskTyped(D) /\ f \in Dir(D).names
    BY <2>2 DEF Touches
  <2>. HIDE DEF D
  <2>4. Touches(D, fs', f)
    BY <1>2, <2>3, SyncTouches
  <2>5. Forced(fs', comp.out)
    BY <1>1, <1>2, <2>3, SyncForces
  <2>6. NamesInv(fs')
    BY <1>1, <2>2, <2>4, TouchTwice, TableNames
  <2>7. comp'.out = comp.out
    BY <1>0, <1>2 DEF CompactionRecord
  <2>8. OutputsForced(fs)' /\ EditSynced(fs)'
    BY <1>0, <1>2, <2>5, <2>6, <2>7 DEF NamesInv, OutputsForced, EditSynced
  <2>. QED
    BY <2>6, <2>8 DEF NamesInv
<1>3. CASE CompactionAborts
  <2>1. comp'.step = "none" /\ fs' = fs /\ apply' = apply
    BY <1>3, NothingTyped DEF CompactionAborts
  <2>2. OutputsForced(fs)' /\ EditSynced(fs)'
    BY <1>0, <2>1 DEF NamesInv, OutputsForced, EditSynced
  <2>. QED
    BY <2>1, <2>2 DEF NamesInv
<1>. QED
  BY <1>2, <1>3 DEF CompactionFinish

LEMMA InstallCompactionResultsNames ==
    ASSUME Inv, NamesInv(fs), InstallCompactionResults
    PROVE  NamesInv(fs)'
<1>0. /\ comp \in CompactionRecord /\ comp.step = "written"
      /\ comp' = [comp EXCEPT !.step = "apply"] /\ UNCHANGED <<fs, flush, manifest>>
  BY DEF Inv, Typed, TypedWork, InstallCompactionResults
<1>1. comp'.out = comp.out
  BY <1>0 DEF CompactionRecord
<1>2. apply'.step = "append"
  BY DEF InstallCompactionResults, BeginApply
<1>. QED
  BY <1>0, <1>1, <1>2, UnsyncedNames DEF NamesInv, OutputsForced

LEMMA NewDBNames ==
    ASSUME Inv, NamesInv(fs), NewDB
    PROVE  NamesInv(fs)'
<1>. DEFINE e == Edit({}, {}, 0, 2, 0)
<1>0. /\ DiskInv(fs) /\ Dir(fs).current = 0
      /\ fs' = SetCurrentFile(AddRecords(NewWritableFile(fs, DescriptorFile(1)), DescriptorFile(1),
                                         <<e>>), 1)
      /\ UNCHANGED <<flush, comp, apply, manifest>> /\ phase = "down"
  BY DEF Inv, NewDB, FirstManifest, versionVars
<1>1. e \in EditRecord
  BY DEF Edit, EditRecord
<1>. HIDE DEF e
<1>2. DiskTyped(fs') /\ Currents(fs') = {1}
  BY <1>0, <1>1, NewDBDisk
<1>3. OpensAlways(fs')
  <2>1. ASSUME NEW d \in Dirs(fs'), d.current > 1 PROVE FALSE
    <3>1. d.current \in Nat /\ d.current # 0 /\ d.current # 1
      BY <1>2, <2>1, DirParts DEF DiskTyped
    <3>. QED
      BY <1>2, <2>1, <3>1 DEF Currents
  <2>. QED
    BY <2>1 DEF OpensAlways, OpensAt
<1>4. /\ apply'.step \notin {"current", "install"} /\ flush'.step # "apply"
      /\ comp'.step \notin {"written", "apply"}
  BY <1>0, NothingTyped DEF Inv, Steps, Quiet
<1>. QED
  BY <1>3, <1>4, UnsyncedNames

LEMMA NewDBFailsNames ==
    ASSUME Inv, NamesInv(fs), NewDBFails
    PROVE  NamesInv(fs)'
<1>0. /\ DiskInv(fs) /\ Dir(fs).current = 0 /\ phase = "down"
      /\ fs' = FirstManifest(fs) \/ fs' = DeleteFiles(FirstManifest(fs), {DescriptorFile(1)})
      /\ UNCHANGED <<flush, comp, apply, manifest>>
  BY DEF Inv, NewDBFails, versionVars
<1>1. Blank(fs')
  BY <1>0, BlankDisk, FirstManifestBlank
<1>2. OpensAlways(fs')
  BY <1>1 DEF Blank, OpensAlways, OpensAt
<1>3. /\ apply'.step \notin {"current", "install"} /\ flush'.step # "apply"
      /\ comp'.step \notin {"written", "apply"}
  BY <1>0, NothingTyped DEF Inv, Steps, Quiet
<1>. QED
  BY <1>2, <1>3, UnsyncedNames

LEMMA RecoverManifestNames ==
    ASSUME Inv, NamesInv(fs), RecoverManifest
    PROVE  NamesInv(fs)'
<1>0. phase = "down" /\ UNCHANGED <<fs, flush, comp, apply>>
  BY DEF RecoverManifest
<1>1. /\ apply'.step \notin {"current", "install"} /\ flush'.step # "apply"
      /\ comp'.step \notin {"written", "apply"}
  BY <1>0, NothingTyped DEF Inv, Steps, Quiet
<1>. QED
  BY <1>0, <1>1, UnsyncedNames DEF NamesInv

LEMMA RecoverLogFileNames ==
    ASSUME Inv, NamesInv(fs), RecoverLogFile
    PROVE  NamesInv(fs)'
<1>. DEFINE batches == ReadLog(fs, OldestLog)
<1>0. /\ DiskTyped(fs) /\ nextFile \in Nat /\ phase = "recovering" /\ toRecover # {}
      /\ fs' = fs \/ fs' = BuildTable(fs, nextFile, SetToSeq(batches))
      /\ UNCHANGED <<flush, comp, apply, manifest>>
  BY DEF Inv, DiskInv, Typed, TypedVersion, RecoverLogFile, RecoverBatches
<1>1. SetToSeq(batches) \in Seq(Batch)
  BY <1>0, NextLog
<1>. HIDE DEF batches
<1>2. NamesInv(fs')
  BY <1>0, <1>1, BuildTableTouches, TableNames
<1>. QED
  BY <1>0, <1>2, SameWorkNames

LEMMA OpenFailsNames ==
    ASSUME NamesInv(fs), OpenFails
    PROVE  NamesInv(fs)'
<1>1. fs' = fs /\ NoProcess
  BY DEF OpenFails
<1>. QED
  BY <1>1, NoProcessNames DEF NamesInv

LEMMA OpenLogNames ==
    ASSUME Inv, NamesInv(fs), OpenLog
    PROVE  NamesInv(fs)'
<1>0. /\ DiskTyped(fs) /\ DirsRight(fs) /\ Typed /\ Steps /\ ProcessInv(fs) /\ nextFile \in Nat
      /\ phase = "recovering" /\ fs' = NewWritableFile(fs, LogFile(nextFile))
      /\ apply'.step = "append" /\ UNCHANGED <<flush, comp>>
  BY DEF Inv, DiskInv, Typed, TypedVersion, OpenLog, BeginApply
<1>1. Touches(fs, fs', LogFile(nextFile)) /\ \A c \in Nat : LogFile(nextFile) # DescriptorFile(c)
  BY <1>0, LogStarted, FilesDiffer
<1>2. NamesInv(fs')
  BY <1>0, <1>1, TouchNames
<1>. QED
  BY <1>0, <1>2, UnsyncedNames DEF NamesInv, OutputsForced

LEMMA DeathNames ==
    ASSUME Inv, NamesInv(fs), Kill \/ PowerFailure
    PROVE  NamesInv(fs)'
<1>1. CASE Kill
  <2>1. fs' = fs /\ NoProcess
    BY <1>1 DEF Kill
  <2>. QED
    BY <2>1, NoProcessNames DEF NamesInv
<1>2. CASE PowerFailure
  <2>1. fs' \in AfterPowerFailure(fs) /\ NoProcess /\ DiskInv(fs) /\ OpensAlways(fs)
    BY <1>2 DEF PowerFailure, Inv, NamesInv
  <2>. QED
    BY <2>1, PowerFailureOpens, NoProcessNames
<1>. QED
  BY <1>1, <1>2

-----------------------------------------------------------------------------
(* LogAndApply.                                                            *)

\* A longer manifest: what may be left of it is left of the shorter one, or is
\* all of it.
LEMMA LongerPrefix ==
    ASSUME NEW S, NEW old \in Seq(S), NEW r \in S, NEW s \in Seq(S), Prefix(s, old \o <<r>>)
    PROVE  Prefix(s, old) \/ s = old \o <<r>>
<1>. DEFINE new == old \o <<r>>
            n == Len(old)
<1>1. /\ new \in Seq(S) /\ n \in Nat /\ DOMAIN old = 1 .. n /\ DOMAIN new = 1 .. n + 1
      /\ \A i \in 1 .. n : new[i] = old[i]
      /\ Len(new) = n + 1
  BY OneMore
<1>2. Len(s) \in Nat /\ DOMAIN s = 1 .. Len(s)
  BY LenProperties
<1>. HIDE DEF n
<1>3. DOMAIN s \subseteq DOMAIN new /\ \A i \in DOMAIN s : s[i] = new[i]
  <2>1. Prefix(s, new)
    OBVIOUS
  <2>. HIDE DEF new
  <2>. QED
    BY <2>1 DEF Prefix
<1>. HIDE DEF new
<1>4. Len(s) <= n + 1
  <2>1. CASE Len(s) = 0
    BY <1>1, <2>1
  <2>2. CASE Len(s) # 0
    <3>1. Len(s) \in DOMAIN s
      BY <1>2, <2>2
    <3>. QED
      BY <1>1, <1>2, <1>3, <3>1
  <2>. QED
    BY <2>1, <2>2
<1>5. CASE Len(s) <= n
  <2>1. DOMAIN s \subseteq 1 .. n
    BY <1>1, <1>2, <1>5
  <2>. QED
    BY <1>1, <1>3, <2>1 DEF Prefix
<1>6. CASE Len(s) = n + 1
  <2>1. Len(s) = Len(new) /\ \A i \in 1 .. Len(s) : s[i] = new[i]
    BY <1>1, <1>2, <1>3, <1>6
  <2>2. s = new
    BY <1>1, <2>1, SeqEqual
  <2>. QED
    BY <2>2 DEF new
<1>7. Len(s) <= n \/ Len(s) = n + 1
  <2>1. n \in Nat /\ Len(s) \in Nat
    BY <1>1, <1>2
  <2>. QED
    BY <1>4, <2>1
<1>. QED
  BY <1>5, <1>6, <1>7

LEMMA OpensAppended ==
    ASSUME NEW N, NEW old \in Seq(EditRecord \cup {TornEdit}), NEW r \in EditRecord \cup {TornEdit},
           Opens(N, old), r # TornEdit => r.numbers /\ \A t \in r.added : TableFile(t) \in N
    PROVE  Opens(N, old \o <<r>>)
<1>. DEFINE S == EditRecord \cup {TornEdit}
            new == old \o <<r>>
<1>1. /\ r # TornEdit => Complete(new) = new
      /\ r = TornEdit => Complete(new) = old
      /\ new # <<>> /\ Range1(new) = Range1(old) \cup {r}
      /\ Len(new) = Len(old) + 1 /\ new[Len(old) + 1] = r
  <2>1. old \in Seq(S) /\ r \in S
    OBVIOUS
  <2>. HIDE DEF S
  <2>. QED
    BY <2>1, CompleteAppended, OneMore
<1>2. CASE TornEdit \in Range1(old)
  <2>1. TornEdit \in Range1(Complete(new))
    BY <1>1, <1>2
  <2>. QED
    BY <2>1 DEF Opens
<1>3. CASE TornEdit \notin Range1(old)
  <2>. HIDE DEF new
  <2>1. DOMAIN old = 1 .. Len(old) /\ Len(old) \in Nat /\ \A i \in DOMAIN old : old[i] \in S
    BY LenProperties, ElementOfSeq
  <2>2. \A i \in 1 .. Len(old) : old[i] \in EditRecord
    BY <1>3, <2>1 DEF Range1
  <2>3. old \in Seq(EditRecord)
    <3>1. old \in [1 .. Len(old) -> EditRecord]
      BY <2>1, <2>2, SeqDef
    <3>. QED
      BY <2>1, <3>1, SeqDef
  <2>4. Complete(old) = old
    <3>1. CASE old = <<>>
      BY <3>1 DEF Complete
    <3>2. CASE old # <<>>
      <4>1. Len(old) \in 1 .. Len(old)
        BY <2>1, <3>2, EmptySeq
      <4>2. old[Len(old)] # TornEdit
        BY <1>3, <2>1, <4>1 DEF Range1
      <4>. QED
        BY <3>2, <4>2, CompletePrefix
    <3>. QED
      BY <3>1, <3>2
  <2>5. CASE r = TornEdit
    BY <1>1, <2>4, <2>5 DEF Opens, new
  <2>6. CASE r # TornEdit
    <3>1. TablesOf(new) = (TablesOf(old) \ r.deleted) \cup r.added
      BY <2>3, <2>6, TablesAppended DEF new
    <3>2. \A t \in TablesOf(old) : TableFile(t) \in N
      BY <1>3, <2>4 DEF Opens
    <3>3. \A t \in TablesOf(new) : TableFile(t) \in N
      BY <2>6, <3>1, <3>2
    <3>4. new[Len(new)].numbers
      BY <1>1, <2>6
    <3>. QED
      BY <1>1, <2>6, <3>3, <3>4 DEF Opens, new
  <2>. QED
    BY <2>5, <2>6
<1>. QED
  BY <1>2, <1>3

LEMMA AppendOpens ==
    ASSUME NEW D, NEW E, DiskTyped(D), DirsRight(D), OpensAlways(D), manifest \in Currents(D),
           NEW r \in EditRecord \cup {TornEdit}, E = AddRecords(D, Descriptor, <<r>>),
           r # TornEdit => r.numbers /\ \A t \in r.added : Forced(D, t)
    PROVE  OpensAlways(E) /\ Dirs(E) = Dirs(D)
<1>. DEFINE f == Descriptor
            S == EditRecord \cup {TornEdit}
<1>0. manifest \in Nat /\ f \in Files(D) /\ Item(f) = S
  BY CurrentFacts, FileTypes DEF Item, Descriptor
<1>1. <<r>> \in Seq(Item(f))
  BY <1>0
<1>2. /\ Dirs(E) = Dirs(D) /\ Synced(E, f) = Synced(D, f)
      /\ EditsIn(E, manifest) = EditsIn(D, manifest) \o <<r>>
      /\ \A g \in Files(D) : g # f => E.files[g] = D.files[g]
  <2>. DEFINE u == <<r>>
  <2>1. E = AddRecords(D, f, u) /\ f \in Files(D) /\ u \in Seq(Item(f)) /\ u \in Seq(S)
    BY <1>0, <1>1
  <2>2. f = DescriptorFile(manifest)
    BY DEF Descriptor
  <2>. HIDE DEF f, S, u
  <2>3. /\ Dirs(E) = Dirs(D) /\ EditsIn(E, manifest) = EditsIn(D, manifest) \o u
        /\ \A g \in Files(D) : g # f => E.files[g] = D.files[g]
    <3>1. /\ manifest \in Nat /\ DescriptorFile(manifest) \in Files(D)
          /\ u \in Seq(EditRecord \cup {TornEdit}) /\ E = AddRecords(D, DescriptorFile(manifest), u)
      BY <1>0, <2>1, <2>2 DEF S
    <3>2. EditsIn(E, manifest) = EditsIn(D, manifest) \o u
      BY <3>1, DescriptorAppended, ZenonT(60)
    <3>3. Dirs(E) = Dirs(D)
      BY <3>1, DescriptorAppended
    <3>4. \A g \in Files(D) : g # f => E.files[g] = D.files[g]
      BY <2>2, <3>1, DescriptorAppended
    <3>. QED
      BY <3>2, <3>3, <3>4
  <2>4. Synced(E, f) = Synced(D, f)
    BY <2>1, AddRecordsDisk, SMTT(30)
  <2>. QED
    BY <2>3, <2>4 DEF u
<1>. SUFFICES ASSUME NEW d \in Dirs(D), d.current > 1, NEW s \in Seq(S), Survives(E, d.current, s)
              PROVE  Opens(d.names, s)
  BY <1>2 DEF OpensAlways, OpensAt
<1>. DEFINE c == d.current
            old == EditsIn(D, c)
<1>3. c \in Currents(D) /\ c \in Nat /\ DescriptorFile(c) \in Files(D) /\ old \in Seq(S)
  <2>1. c \in Nat /\ c # 0
    BY DirParts DEF DiskTyped
  <2>2. c \in Currents(D)
    BY <2>1 DEF Currents
  <2>. QED
    BY <2>1, <2>2, CurrentFacts
<1>4. \A x \in Seq(S) : Survives(D, c, x) => Opens(d.names, x)
  BY DEF OpensAlways, OpensAt
<1>5. CASE c # manifest
  <2>1. DescriptorFile(c) # f
    BY <1>0, <1>3, <1>5, FilesDiffer DEF Descriptor
  <2>2. E.files[DescriptorFile(c)] = D.files[DescriptorFile(c)]
    BY <1>2, <1>3, <2>1
  <2>3. Survives(D, c, s)
    BY <2>2 DEF Survives, EditsIn, Records, Synced
  <2>. QED
    BY <1>4, <2>3
<1>6. CASE c = manifest
  <2>1. /\ EditsIn(E, c) = old \o <<r>>
        /\ Synced(E, DescriptorFile(c)) = Synced(D, DescriptorFile(c))
        /\ Synced(D, DescriptorFile(c)) <= Len(old)
    BY <1>2, <1>3, <1>6, FileParts DEF EditsIn, Descriptor, DiskTyped
  <2>2. Prefix(s, old \o <<r>>) /\ Synced(D, DescriptorFile(c)) <= Len(s)
    BY <2>1 DEF Survives
  <2>. HIDE DEF old
  <2>3. Prefix(s, old) \/ s = old \o <<r>>
    <3>1. old \in Seq(S) /\ r \in S /\ s \in Seq(S)
      BY <1>3
    <3>. HIDE DEF S
    <3>. QED
      BY <2>2, <3>1, LongerPrefix
  <2>4. CASE Prefix(s, old)
    BY <1>4, <2>2, <2>4 DEF Survives, old
  <2>5. CASE s = old \o <<r>>
    <3>1. Survives(D, c, old)
      BY <2>1 DEF Survives, Prefix, old
    <3>2. Opens(d.names, old)
      BY <1>3, <1>4, <3>1
    <3>3. r # TornEdit => r.numbers /\ \A t \in r.added : TableFile(t) \in d.names
      BY DEF Forced
    <3>. QED
      BY <1>3, <2>5, <3>2, <3>3, OpensAppended
  <2>. QED
    BY <2>3, <2>4, <2>5
<1>. QED
  BY <1>5, <1>6

LEMMA WriteManifestNames ==
    ASSUME Inv, NamesInv(fs), WriteManifest
    PROVE  NamesInv(fs)'
<1>. DEFINE two == <<Snapshot(version), apply.edit>>
<1>0. /\ DiskInv(fs) /\ DiskTyped(fs) /\ DirsRight(fs) /\ Typed /\ Steps /\ ProcessInv(fs)
      /\ apply.step = "append" /\ apply \in ApplyRecord /\ manifest \in Nat
      /\ UNCHANGED <<flush, comp, manifest>>
  BY DEF Inv, DiskInv, ProcessInv, WriteManifest, versionVars, Typed, TypedVersion, TypedWork
<1>1. phase \in {"up", "opening"} /\ (phase = "opening" <=> apply.for = "open")
  BY <1>0, NothingTyped DEF Steps, Typed, TypedMemory, TypedWork, ApplyRecord
<1>2. apply'.step \in {"sync", "failed"}
  BY <1>0 DEF WriteManifest, ApplyRecord
<1>3. apply.edit \in EditRecord /\ apply.edit # TornEdit /\ two \in Seq(EditRecord \cup {TornEdit})
  <2>1. Snapshot(version) \in EditRecord /\ apply.edit \in EditRecord
    BY <1>0 DEF Snapshot, EditRecord, Typed, TypedVersion, ApplyRecord
  <2>. QED
    BY <2>1, EditsNotTorn
<1>4. \/ fs' = fs
      \/ apply.for = "open" /\ fs' = AddRecords(NewWritableFile(fs, Descriptor), Descriptor, two)
      \/ apply.for # "open" /\ \E r \in {apply.edit, TornEdit} : fs' = AddRecords(fs, Descriptor, <<r>>)
  BY DEF WriteManifest
<1>5. OpensAlways(fs') /\ \A t : Forced(fs, t) => Forced(fs', t)
  <2>1. CASE fs' = fs
    BY <2>1 DEF NamesInv
  <2>2. CASE apply.for = "open" /\ fs' = AddRecords(NewWritableFile(fs, Descriptor), Descriptor, two)
    <3>. HIDE DEF two
    <3>1. Touches(fs, fs', Descriptor)
      BY <1>0, <1>1, <1>3, <2>2, NewManifestHarmless
    <3>2. Dir(fs).current > 0 /\ Dir(fs).current < manifest /\ Dir(fs).current \in Nat
      BY <1>0, <1>1, <2>2, DirParts DEF ProcessInv, Numbers, DiskTyped
    <3>3. \A c \in Currents(fs) : Descriptor # DescriptorFile(c)
      <4>. TAKE c \in Currents(fs)
      <4>1. c \in Nat /\ c <= Dir(fs).current
        BY <1>0, CurrentFacts
      <4>2. c # manifest
        BY <1>0, <3>2, <4>1
      <4>. QED
        BY <1>0, <4>1, <4>2, FilesDiffer DEF Descriptor
    <3>. QED
      BY <1>0, <3>1, <3>2, <3>3, TouchOpens DEF NamesInv
  <2>3. ASSUME apply.for # "open", NEW r \in {apply.edit, TornEdit},
               fs' = AddRecords(fs, Descriptor, <<r>>)
        PROVE  OpensAlways(fs') /\ \A t : Forced(fs, t) => Forced(fs', t)
    <3>1. manifest \in Currents(fs)
      <4>1. Dir(fs).current = manifest /\ Dir(fs).current > 0
        BY <1>0, <1>1, <2>3 DEF ProcessInv, Numbers
      <4>. QED
        BY <1>0, <4>1, CurrentOfDir
    <3>2. apply.edit.numbers /\ \A t \in apply.edit.added : Forced(fs, t)
      <4>1. apply.edit.numbers
        BY <1>0 DEF ProcessInv, EditRight, EditAhead
      <4>2. \A t \in apply.edit.added : \/ t = flush.out /\ flush.step = "apply"
                                        \/ t = comp.out /\ comp.step = "apply"
        BY <1>0, <1>1, <2>3, AddingShown
      <4>. QED
        BY <4>1, <4>2 DEF NamesInv, OutputsForced
    <3>3. OpensAlways(fs') /\ Dirs(fs') = Dirs(fs)
      BY <1>0, <1>3, <2>3, <3>1, <3>2, AppendOpens DEF NamesInv
    <3>. QED
      BY <3>3 DEF Forced
  <2>. QED
    BY <1>4, <2>1, <2>2, <2>3
<1>. QED
  BY <1>0, <1>2, <1>5, UnsyncedNames DEF NamesInv, OutputsForced

LEMMA SyncManifestNames ==
    ASSUME Inv, NamesInv(fs), SyncManifest
    PROVE  NamesInv(fs)'
<1>0. /\ DiskTyped(fs) /\ DirsRight(fs) /\ Typed /\ Steps /\ ProcessInv(fs)
      /\ apply.step = "sync" /\ apply \in ApplyRecord /\ manifest \in Nat
      /\ UNCHANGED <<flush, comp, manifest>>
  BY DEF Inv, DiskInv, SyncManifest, versionVars, Typed, TypedVersion, TypedWork
<1>1. phase \in {"up", "opening"} /\ (phase = "opening" <=> apply.for = "open")
  BY <1>0, NothingTyped DEF Steps, Typed, TypedMemory, TypedWork, ApplyRecord
<1>2. CASE fs' = Sync(fs, Descriptor)
  <2>. DEFINE f == Descriptor
  <2>1. Dir(fs).current > 0 /\ f \in Dir(fs).names
    <3>1. CASE phase = "opening"
      BY <1>0, <1>1, <3>1 DEF ProcessInv, Numbers, EditWritten, FileExists, Descriptor
    <3>2. CASE phase = "up"
      <4>1. Dir(fs).current = manifest /\ Dir(fs).current > 0 /\ Dir(fs) \in Dirs(fs)
        BY <1>0, <3>2, DirParts DEF ProcessInv, Numbers, DiskTyped
      <4>. QED
        BY <1>0, <4>1 DEF DirsRight, Descriptor
    <3>. QED
      BY <1>1, <3>1, <3>2
  <2>2. f \in Files(fs)
    BY <1>0, <2>1, DirParts DEF DiskTyped, DirsTyped
  <2>3. Synced(fs, f) <= Len(Records(fs, f))
    BY <1>0, <2>2, FileParts DEF DiskTyped
  <2>4. fs' = Sync(fs, f) /\ f = DescriptorFile(manifest)
    BY <1>2 DEF Descriptor
  <2>. HIDE DEF f
  <2>5. Touches(fs, fs', f) /\ Records(fs', f) = Records(fs, f)
    BY <1>0, <2>1, <2>4, SyncTouches
  <2>6. Synced(fs', f) = Len(Records(fs, f))
    BY <1>0, <2>1, <2>4, SyncDisk
  <2>7. OpensAlways(fs') /\ \A t : Forced(fs, t) => Forced(fs', t)
    BY <1>0, <2>1, <2>3, <2>5, <2>6, TouchOpens DEF NamesInv
  <2>8. OutputsForced(fs)'
    BY <1>0, <2>7 DEF NamesInv, OutputsForced
  <2>9. EditSynced(fs)'
    BY <1>0, <2>4, <2>5, <2>6 DEF EditSynced, EditsIn
  <2>. QED
    BY <2>7, <2>8, <2>9 DEF NamesInv
<1>3. CASE fs' = fs /\ apply' = [apply EXCEPT !.step = "failed"]
  <2>1. apply'.step = "failed"
    BY <1>0, <1>3 DEF ApplyRecord
  <2>. QED
    BY <1>0, <1>3, <2>1, UnsyncedNames DEF NamesInv, OutputsForced
<1>. QED
  BY <1>2, <1>3 DEF SyncManifest

\* All of a manifest is on the disk.
LEMMA WholeSurvives ==
    ASSUME NEW D, NEW c, NEW S, EditsIn(D, c) \in Seq(S), NEW s \in Seq(S), Survives(D, c, s),
           Synced(D, DescriptorFile(c)) = Len(EditsIn(D, c))
    PROVE  s = EditsIn(D, c)
<1>. DEFINE t == EditsIn(D, c)
<1>0. Len(t) <= Len(s)
  BY DEF Survives
<1>1. t \in Seq(S) /\ Prefix(s, t)
  BY DEF Survives
<1>. HIDE DEF t
<1>2. /\ Len(s) \in Nat /\ Len(t) \in Nat /\ DOMAIN s = 1 .. Len(s) /\ DOMAIN t = 1 .. Len(t)
  BY <1>1, LenProperties
<1>3. DOMAIN s \subseteq DOMAIN t /\ \A i \in DOMAIN s : s[i] = t[i]
  BY <1>1 DEF Prefix
<1>4. Len(s) = Len(t)
  <2>. DEFINE m == Len(s)
              n == Len(t)
  <2>1. m \in Nat /\ n \in Nat /\ n <= m /\ 1 .. m \subseteq 1 .. n
    BY <1>0, <1>2, <1>3
  <2>. HIDE DEF m, n
  <2>2. m <= n
    BY <2>1
  <2>3. m = n
    BY <2>1, <2>2
  <2>. QED
    BY <2>3 DEF m, n
<1>5. s = t
  BY <1>1, <1>2, <1>3, <1>4, SeqEqual
<1>. QED
  BY <1>5 DEF t

LEMMA ReadableOpens ==
    ASSUME NEW D, Readable(D) \/ TornEdit \in Range1(Edits(D))
    PROVE  Opens(Dir(D).names, EditsIn(D, Dir(D).current))
BY EditsComplete DEF Readable, Opens, FileExists

\* CURRENT or the names change, and the files do not; what is not as before is
\* a state in which an open finds all of a synced manifest and its tables.
LEMMA DirOpens ==
    ASSUME NEW D, NEW E, DiskTyped(D), DirsRight(D), DiskTyped(E), DirsRight(E), OpensAlways(D),
           Files(E) = Files(D), \A f \in Files(D) : E.files[f] = D.files[f],
           NEW c \in Nat, Dir(E).current = c, c > 0,
           \A d \in Dirs(E) : d \in Dirs(D) \/ (d.current = c /\ Dir(E).names \subseteq d.names),
           Synced(D, DescriptorFile(c)) = Len(EditsIn(D, c)),
           Readable(E) \/ TornEdit \in Range1(Edits(E))
    PROVE  OpensAlways(E)
<1>. DEFINE S == EditRecord \cup {TornEdit}
<1>. SUFFICES ASSUME NEW d \in Dirs(E), d.current > 1, NEW s \in Seq(S), Survives(E, d.current, s)
              PROVE  Opens(d.names, s)
  BY DEF OpensAlways, OpensAt
<1>0. \A b \in Currents(E) : /\ b \in Nat /\ EditsIn(E, b) = EditsIn(D, b) /\ EditsIn(E, b) \in Seq(S)
                             /\ Synced(E, DescriptorFile(b)) = Synced(D, DescriptorFile(b))
  BY CurrentFacts DEF EditsIn, Records, Synced
<1>1. d.current \in Currents(E) /\ c \in Currents(E)
  <2>1. d.current \in Nat /\ d.current # 0
    BY DirParts DEF DiskTyped
  <2>2. c # 0
    OBVIOUS
  <2>. QED
    BY <2>1, <2>2, CurrentOfDir DEF Currents
<1>2. CASE d \in Dirs(D)
  <2>1. Survives(D, d.current, s)
    BY <1>0, <1>1 DEF Survives
  <2>. QED
    BY <1>2, <2>1 DEF OpensAlways, OpensAt
<1>3. CASE d.current = c /\ Dir(E).names \subseteq d.names
  <2>. HIDE DEF S
  <2>1. /\ Survives(E, c, s) /\ EditsIn(E, c) \in Seq(S)
        /\ Synced(E, DescriptorFile(c)) = Len(EditsIn(E, c))
    BY <1>0, <1>1, <1>3
  <2>2. s = EditsIn(E, c)
    BY <2>1, WholeSurvives
  <2>3. Opens(Dir(E).names, s)
    BY <2>2, ReadableOpens
  <2>. QED
    BY <1>3, <2>3, OpensMore
<1>. QED
  BY <1>2, <1>3

LEMMA WriteCurrentNames ==
    ASSUME Inv, Inv', KeepsInv(fs)', NamesInv(fs), WriteCurrent
    PROVE  NamesInv(fs)'
<1>0. /\ DiskTyped(fs) /\ DirsRight(fs) /\ DiskTyped(fs') /\ DirsRight(fs') /\ Typed /\ Steps /\ ProcessInv(fs)
      /\ apply.step = "current" /\ apply \in ApplyRecord /\ manifest \in Nat
      /\ fs' = SetCurrentFile(fs, manifest) /\ phase = "opening" /\ apply.for = "open"
      /\ apply' = [apply EXCEPT !.step = "install"]
      /\ UNCHANGED <<phase, flush, comp, manifest>>
  BY DEF Inv, DiskInv, WriteCurrent, versionVars, Typed, TypedVersion, TypedWork, Steps
<1>1. /\ Files(fs') = Files(fs) /\ \A f \in Files(fs) : fs'.files[f] = fs.files[f]
      /\ Dir(fs').names = Dir(fs).names /\ Dir(fs').current = manifest
      /\ Dirs(fs') = Dirs(fs) \cup {Dir(fs')}
  BY <1>0, SetCurrentDisk
<1>2. manifest > 0 /\ DescriptorFile(manifest) \in Files(fs)
  <2>1. Dir(fs).current > 0 /\ Dir(fs).current < manifest
    BY <1>0 DEF ProcessInv, Numbers
  <2>2. Dir(fs).current \in Nat /\ Dir(fs).names \subseteq Files(fs)
    BY <1>0, DirParts DEF DiskTyped, DirsTyped
  <2>3. DescriptorFile(manifest) \in Dir(fs).names
    BY <1>0 DEF ProcessInv, EditWritten, FileExists
  <2>. QED
    BY <1>0, <2>1, <2>2, <2>3
<1>3. Synced(fs, DescriptorFile(manifest)) = Len(EditsIn(fs, manifest))
  BY <1>0 DEF NamesInv, EditSynced
<1>4. Readable(fs')
  <2>1. RecoveryKeeps(fs)' /\ phase' = "opening"
    BY <1>0 DEF KeepsInv
  <2>. QED
    BY <2>1 DEF RecoveryKeeps, Readable, Edits
<1>5. OpensAlways(fs')
  BY <1>0, <1>1, <1>2, <1>3, <1>4, DirOpens DEF NamesInv
<1>6. OutputsForced(fs)'
  <2>1. flush'.step # "apply" /\ comp'.step \notin {"written", "apply"}
    BY <1>0, NothingTyped DEF Steps, Quiet
  <2>. QED
    BY <2>1 DEF OutputsForced
<1>7. EditSynced(fs)'
  BY <1>0, <1>1, <1>2, <1>3 DEF EditSynced, EditsIn, Records, Synced
<1>. QED
  BY <1>5, <1>6, <1>7 DEF NamesInv

LEMMA SetCurrentFailsNames ==
    ASSUME Inv, NamesInv(fs), SetCurrentFails
    PROVE  NamesInv(fs)'
<1>1. /\ apply \in ApplyRecord /\ apply' = [apply EXCEPT !.step = "failed"]
      /\ UNCHANGED <<fs, flush, comp>>
  BY DEF Inv, Typed, TypedWork, SetCurrentFails
<1>2. apply'.step = "failed"
  BY <1>1 DEF ApplyRecord
<1>. QED
  BY <1>1, <1>2, UnsyncedNames DEF NamesInv, OutputsForced

LEMMA InstallNames ==
    ASSUME Inv, Inv', KeepsInv(fs)', NamesInv(fs), Install
    PROVE  NamesInv(fs)'
<1>. DEFINE V == (version \cup apply.edit.added) \ apply.edit.deleted
            outs == IF apply.for = "compaction" THEN pending \ {comp.out} ELSE pending
            base == IF apply.for = "compaction" THEN {} ELSE comp.base
<1>0. /\ DiskTyped(fs) /\ DirsRight(fs) /\ DiskTyped(fs') /\ DirsRight(fs') /\ Typed /\ Steps /\ ProcessInv(fs)
      /\ apply.step = "install" /\ apply' = NoApply /\ phase' = "up"
      /\ fs' = DeleteObsoleteFiles(fs, V, outs, base, apply.edit.log, bgError)
      /\ (apply.for = "flush" /\ flush' = NoFlush) \/ (apply.for # "flush" /\ flush' = flush)
      /\ (apply.for = "compaction" /\ comp' = NoCompaction) \/ (apply.for # "compaction" /\ comp' = comp)
  BY DEF Inv, DiskInv, Install
<1>1. Dir(fs).current = manifest /\ manifest > 0 /\ manifest \in Nat
  BY <1>0, EditInstalled
<1>. HIDE DEF V, outs, base
<1>2. fs' = fs \/ \E gone : fs' = DeleteFiles(fs, gone)
  BY <1>0 DEF DeleteObsoleteFiles
<1>3. /\ Files(fs') = Files(fs) /\ \A f \in Files(fs) : fs'.files[f] = fs.files[f]
      /\ Dir(fs').current = manifest
      /\ \A d \in Dirs(fs') : d \in Dirs(fs) \/ (d.current = manifest /\ Dir(fs').names \subseteq d.names)
  <2>1. CASE fs' = fs
    BY <1>1, <2>1
  <2>2. ASSUME NEW gone, fs' = DeleteFiles(fs, gone)
        PROVE  /\ Files(fs') = Files(fs) /\ \A f \in Files(fs) : fs'.files[f] = fs.files[f]
               /\ Dir(fs').current = manifest
               /\ \A d \in Dirs(fs') : d \in Dirs(fs) \/ (d.current = manifest /\ Dir(fs').names \subseteq d.names)
    BY <1>0, <1>1, <2>2, DeleteFilesDisk
  <2>. QED
    BY <1>2, <2>1, <2>2
<1>4. Synced(fs, DescriptorFile(manifest)) = Len(EditsIn(fs, manifest))
  BY <1>0 DEF NamesInv, EditSynced
<1>5. Readable(fs') \/ TornEdit \in Range1(Edits(fs'))
  <2>1. ManifestKeeps(fs)' /\ phase' = "up" /\ Dir(fs').current # 0
    BY <1>0, <1>1, <1>3 DEF KeepsInv
  <2>. QED
    BY <2>1 DEF ManifestKeeps, Damaged, Readable, Edits
<1>6. OpensAlways(fs')
  BY <1>0, <1>1, <1>3, <1>4, <1>5, DirOpens DEF NamesInv
<1>7. apply'.step \notin {"current", "install"}
  BY <1>0, NothingTyped
<1>8. flush'.step # "apply"
  BY <1>0, NothingTyped DEF Steps
<1>9. comp'.step \in {"written", "apply"} => Forced(fs', comp'.out)
  <2>. SUFFICES ASSUME comp'.step \in {"written", "apply"} PROVE Forced(fs', comp'.out)
    OBVIOUS
  <2>1. comp' = comp
    BY <1>0, NothingTyped
  <2>2. Forced(fs, comp.out)
    BY <2>1 DEF NamesInv, OutputsForced
  <2>3. TableFile(comp.out) \in Dir(fs').names
    <3>1. comp'.step # "none"
      OBVIOUS
    <3>2. FileExists(fs', TableFile(comp'.out))
      BY <3>1 DEF Inv, ProcessInv, Outputs
    <3>. QED
      BY <2>1, <3>2 DEF FileExists
  <2>. QED
    BY <1>3, <2>1, <2>2, <2>3 DEF Forced
<1>. QED
  BY <1>6, <1>7, <1>8, <1>9, UnsyncedNames

LEMMA ApplyFailedNames ==
    ASSUME Inv, Inv', NamesInv(fs), ApplyFailed
    PROVE  NamesInv(fs)'
<1>0. /\ DiskTyped(fs) /\ DirsRight(fs) /\ DiskTyped(fs') /\ DirsRight(fs') /\ Typed /\ Steps
      /\ ProcessInv(fs) /\ apply.step = "failed"
  BY DEF Inv, DiskInv, ApplyFailed
<1>1. CASE apply.for = "open"
  <2>1. fs' = DeleteFiles(fs, {Descriptor}) /\ NoProcess
    BY <1>1 DEF ApplyFailed
  <2>2. /\ Files(fs') = Files(fs) /\ \A f \in Files(fs) : fs'.files[f] = fs.files[f]
        /\ \A d \in Dirs(fs') : d \in Dirs(fs) \/ (/\ d.current = Dir(fs).current
                                                   /\ Dir(fs).names \ {Descriptor} \subseteq d.names)
    BY <1>0, <2>1, DeleteFilesDisk
  <2>3. \A t : TableFile(t) # Descriptor
    BY DEF TableFile, Descriptor, DescriptorFile
  <2>4. ASSUME NEW d \in Dirs(fs')
        PROVE  \E o \in Dirs(fs) : /\ o.current = d.current
                                   /\ \A t : TableFile(t) \in o.names => TableFile(t) \in d.names
    <3>1. Dir(fs) \in Dirs(fs)
      BY <1>0, DirParts DEF DiskTyped
    <3>. QED
      BY <2>2, <2>3, <3>1
  <2>5. ASSUME NEW d \in Dirs(fs'), d.current > 1
        PROVE  /\ EditsIn(fs', d.current) = EditsIn(fs, d.current)
               /\ Synced(fs, DescriptorFile(d.current)) <= Synced(fs', DescriptorFile(d.current))
    <3>1. d.current \in Nat /\ d.current # 0
      BY <1>0, <2>5, DirParts DEF DiskTyped
    <3>2. DescriptorFile(d.current) \in Files(fs')
      BY <1>0, <3>1, CurrentFacts DEF Currents
    <3>3. Synced(fs, DescriptorFile(d.current)) \in Nat
      BY <1>0, <2>2, <3>2, FileParts DEF DiskTyped
    <3>. QED
      BY <2>2, <3>2, <3>3 DEF EditsIn, Records, Synced
  <2>6. OpensAlways(fs')
    BY <1>0, <2>4, <2>5, OpensKept DEF NamesInv
  <2>. QED
    BY <2>1, <2>6, NoProcessNames
<1>2. CASE apply.for # "open"
  <2>1. /\ fs' = fs /\ apply' = NoApply
        /\ flush' = NoFlush \/ flush' = flush
        /\ comp' = NoCompaction \/ comp' = comp
    BY <1>2 DEF ApplyFailed, DeleteObsoleteFiles, MayDelete
  <2>. QED
    BY <2>1, NothingTyped, UnsyncedNames DEF NamesInv, OutputsForced
<1>. QED
  BY <1>1, <1>2

\* Every step.
LEMMA NextNames ==
    ASSUME FsyncForcesNames, Inv, Inv', KeepsInv(fs)', NamesInv(fs), [Next]_vars, ReadWhole'
    PROVE  NamesInv(fs)'
<1>1. CASE WriterStep
  BY <1>1, WriterNames
<1>2. CASE ApplyStep
  BY <1>2, WriteManifestNames, SyncManifestNames, WriteCurrentNames, SetCurrentFailsNames,
     InstallNames, ApplyFailedNames DEF ApplyStep
<1>3. CASE BackgroundStep
  BY <1>3, FlushBeginNames, WriteLevel0TableNames, CompactionBeginNames, CompactionOpenFailsNames,
     CompactionFinishNames, InstallCompactionResultsNames DEF BackgroundStep
<1>4. CASE OpenStep
  BY <1>4, ReadWholeBefore, NewDBNames, NewDBFailsNames, RecoverManifestNames, RecoverLogFileNames,
     OpenFailsNames, OpenLogNames DEF OpenStep
<1>5. CASE Kill \/ PowerFailure
  BY <1>5, DeathNames
<1>6. CASE ReaderBegin \/ ReaderEnd \/ UNCHANGED vars
  <2>1. UNCHANGED <<fs, flush, comp, apply, manifest>>
    BY <1>6 DEF ReaderBegin, ReaderEnd, vars, versionVars
  <2>. QED
    BY <2>1, SameWorkNames
<1>. QED
  BY <1>1, <1>2, <1>3, <1>4, <1>5, <1>6 DEF Next

LEMMA InitNames ==
    ASSUME Init
    PROVE  NamesInv(fs)
<1>1. Inv
  BY InitInv
<1>2. Dir(fs) = [names |-> {}, current |-> 0] /\ Dirs(fs) = {Dir(fs)}
  <2>1. fs.dirs = <<[names |-> {}, current |-> 0]>>
    BY DEF Init, EmptyDisk
  <2>2. Len(fs.dirs) = 1 /\ DOMAIN fs.dirs = {1} /\ fs.dirs[1] = [names |-> {}, current |-> 0]
    BY <2>1
  <2>. QED
    BY <2>2 DEF Dir, Dirs
<1>3. OpensAlways(fs)
  BY <1>2 DEF OpensAlways, OpensAt
<1>4. /\ apply.step \notin {"current", "install"} /\ flush.step # "apply"
      /\ comp.step \notin {"written", "apply"}
  BY NothingTyped DEF Init
<1>. QED
  BY <1>3, <1>4 DEF NamesInv, OutputsForced, EditSynced

LEMMA NamesReopens ==
    ASSUME Inv, NamesInv(fs)
    PROVE  Reopens
<1>1. DiskTyped(fs) /\ DirsRight(fs)
  BY DEF Inv, DiskInv
<1>2. ASSUME Dir(fs).current > 1 PROVE Readable(fs) \/ DescriptorDamaged
  <2>1. Dir(fs).current # 0
    BY <1>1, <1>2, DirParts DEF DiskTyped
  <2>2. Readable(fs) \/ TornEdit \in Range1(Edits(fs))
    BY <1>1, <1>2, OpensNow DEF NamesInv
  <2>. QED
    BY <2>1, <2>2 DEF DescriptorDamaged
<1>. QED
  BY <1>2 DEF Reopens

\* Where fsync of a file forces the names too, every manifest that the disk may
\* give CURRENT after the machine's death can be read, however much of what was
\* not synced is lost: SetCurrentFile comes after the manifest's sync, and a
\* manifest is deleted only when SetCurrentFile failed, LogAndApply comes after
\* the table's sync, and DeleteObsoleteFiles after both, a compaction's inputs
\* included; as long as every open could read the logs it found to their ends.
THEOREM NamesAreForced ==
    Spec => [](ReadWhole => Inv /\ KeepsInv(fs) /\ (FsyncForcesNames => NamesInv(fs)))
<1>. DEFINE All == Inv /\ KeepsInv(fs) /\ (FsyncForcesNames => NamesInv(fs))
<1>1. Init => (ReadWhole => All)
  BY InitInv, InitKeeps, InitNames
<1>2. (ReadWhole => All) /\ [Next]_vars => (ReadWhole => All)'
  <2>. SUFFICES ASSUME ReadWhole => All, [Next]_vars, ReadWhole'
                PROVE  All'
    OBVIOUS
  <2>1. All
    BY ReadWholeBefore
  <2>2. Inv'
    BY <2>1, NextInv
  <2>3. KeepsInv(fs)'
    BY <2>1, <2>2, NextKeeps
  <2>4. FsyncForcesNames => NamesInv(fs)'
    BY <2>1, <2>2, <2>3, NextNames
  <2>. QED
    BY <2>2, <2>3, <2>4
<1>. QED
  BY <1>1, <1>2, PTL DEF Spec

\* Where fsync of a file forces the names too, the manifest that CURRENT names
\* can be read and its tables are there at every moment, so an open after
\* whatever death or failed operation finds them: NewDB's manifest is left out,
\* and one that was appended to behind part of an edit.  As long as every open
\* could read the logs it found to their ends.
THEOREM ManifestsReopen == Spec => [](ReadWhole /\ FsyncForcesNames => Reopens)
<1>1. Inv /\ KeepsInv(fs) /\ (FsyncForcesNames => NamesInv(fs)) => (FsyncForcesNames => Reopens)
  BY NamesReopens
<1>. QED
  BY <1>1, NamesAreForced, PTL

-----------------------------------------------------------------------------
(* What the next open may find, and what it must find.                     *)

\* The parts of the manifest that may survive and that an open can use.
Survivors(disk, c) ==
    {s \in Seq(EditRecord) : Survives(disk, c, s) /\ s # <<>> /\ s[Len(s)].numbers}

\* In the directory d, an open with these edits finds only writes of A.
FindsOnly(disk, d, s, A) ==
    /\ \A t \in TablesOf(s) : TableFile(t) \in Files(disk) => Ids(ReadTable(disk, t)) \subseteq A
    /\ \A n \in Nat : s[Len(s)].log <= n /\ LogFile(n) \in d.names => Ids(ReadLog(disk, n)) \subseteq A

\* It finds the writes of S, whatever of the logs is not synced.
SyncedLog(disk, n) == {Records(disk, LogFile(n))[i] : i \in 1 .. Synced(disk, LogFile(n))}
Finds(disk, d, s, w) ==
    \/ \E t \in TablesOf(s) : TableFile(t) \in d.names /\ w \in Ids(ReadTable(disk, t))
    \/ \E n \in Nat : /\ s[Len(s)].log <= n /\ LogFile(n) \in d.names
                      /\ w \in Ids(SyncedLog(disk, n))

\* Whatever survives.
AtMost(disk, A) ==
    \A d \in Dirs(disk) : d.current # 0 =>
       \A s \in Survivors(disk, d.current) : FindsOnly(disk, d, s, A)
AtLeast(disk, S) ==
    \A d \in Dirs(disk) : d.current # 0 =>
       \A s \in Survivors(disk, d.current) : \A w \in S : Finds(disk, d, s, w)

LEMMA SurvivorFacts ==
    ASSUME NEW D, DiskTyped(D), DirsRight(D), NEW c \in Currents(D), NEW s \in Survivors(D, c)
    PROVE  /\ s \in Seq(EditRecord) /\ Len(s) \in Nat /\ Len(s) > 0 /\ DOMAIN s = 1 .. Len(s)
           /\ s[Len(s)] \in EditRecord /\ s[Len(s)].numbers /\ s[Len(s)].log \in Nat
           /\ Len(s) \in DOMAIN EditsIn(D, c) /\ s[Len(s)] = EditsIn(D, c)[Len(s)]
           /\ Prefix(s, EditsIn(D, c))
           /\ TablesOf(s) \subseteq Named(D) /\ TablesOf(s) \subseteq Nat
<1>1. s \in Seq(EditRecord) /\ Prefix(s, EditsIn(D, c)) /\ s # <<>> /\ s[Len(s)].numbers
  BY DEF Survivors, Survives
<1>2. Len(s) \in Nat /\ Len(s) > 0 /\ DOMAIN s = 1 .. Len(s)
  BY <1>1, LenProperties, EmptySeq
<1>3. \A i \in DOMAIN s : s[i] \in EditRecord /\ i \in DOMAIN EditsIn(D, c) /\ s[i] = EditsIn(D, c)[i]
  BY <1>1, ElementOfSeq DEF Prefix
<1>4. s[Len(s)] \in EditRecord /\ s[Len(s)].log \in Nat
  BY <1>2, <1>3 DEF EditRecord
<1>5. TablesOf(s) \subseteq Named(D)
  <2>. SUFFICES ASSUME NEW t \in TablesOf(s) PROVE t \in Named(D)
    OBVIOUS
  <2>1. PICK i \in DOMAIN s : t \in s[i].added
    BY TablesOfIs
  <2>2. s[i] # TornEdit /\ t \in Nat
    BY <1>3, <2>1, EditsNotTorn DEF EditRecord
  <2>. QED
    BY <1>3, <2>1, <2>2 DEF Named
<1>. QED
  BY <1>1, <1>2, <1>3, <1>4, <1>5 DEF Named

\* A file that is only read, or forced further, leaves no more survivors.
LEMMA SurvivorsLess ==
    ASSUME NEW D, NEW E, DiskTyped(D), DirsRight(D), DiskTyped(E), DirsRight(E), NEW c,
           c \in Currents(D), c \in Currents(E), EditsIn(E, c) = EditsIn(D, c),
           Synced(D, DescriptorFile(c)) <= Synced(E, DescriptorFile(c))
    PROVE  Survivors(E, c) \subseteq Survivors(D, c)
<1>. SUFFICES ASSUME NEW s \in Survivors(E, c) PROVE s \in Survivors(D, c)
  OBVIOUS
<1>1. /\ s \in Seq(EditRecord) /\ s # <<>> /\ s[Len(s)].numbers /\ Prefix(s, EditsIn(E, c))
      /\ Synced(E, DescriptorFile(c)) <= Len(s)
  BY DEF Survivors, Survives
<1>2. Synced(D, DescriptorFile(c)) \in Nat /\ Synced(E, DescriptorFile(c)) \in Nat /\ Len(s) \in Nat
  BY <1>1, LenProperties, CurrentFacts, FileParts DEF DiskTyped
<1>3. Synced(D, DescriptorFile(c)) <= Len(s)
  BY <1>1, <1>2
<1>. QED
  BY <1>1, <1>3 DEF Survivors, Survives

\* The whole manifest is a survivor.
LEMMA WholeIsSurvivor ==
    ASSUME NEW D, DiskTyped(D), DirsRight(D), NEW c \in Currents(D),
           TornEdit \notin Range1(EditsIn(D, c)), EditsIn(D, c) # <<>>,
           EditsIn(D, c)[Len(EditsIn(D, c))].numbers
    PROVE  EditsIn(D, c) \in Survivors(D, c)
<1>1. EditsIn(D, c) \in Seq(EditRecord)
  <2>1. /\ EditsIn(D, c) \in Seq(EditRecord \cup {TornEdit})
        /\ \A k \in DOMAIN EditsIn(D, c) : EditsIn(D, c)[k] # TornEdit => EditsIn(D, c)[k] \in EditRecord
    BY CurrentFacts
  <2>2. \A k \in DOMAIN EditsIn(D, c) : EditsIn(D, c)[k] \in EditRecord
    BY <2>1 DEF Range1
  <2>. QED
    BY <2>1, <2>2
<1>2. Synced(D, DescriptorFile(c)) <= Len(EditsIn(D, c))
  BY CurrentFacts, FileParts DEF DiskTyped, EditsIn
<1>3. Prefix(EditsIn(D, c), EditsIn(D, c))
  BY DEF Prefix
<1>. QED
  BY <1>1, <1>2, <1>3 DEF Survivors, Survives

LEMMA WholeOnly ==
    ASSUME NEW D, DiskTyped(D), DirsRight(D), NEW c \in Currents(D), NEW s \in Survivors(D, c),
           Synced(D, DescriptorFile(c)) = Len(EditsIn(D, c))
    PROVE  s = EditsIn(D, c)
<1>1. EditsIn(D, c) \in Seq(EditRecord \cup {TornEdit})
  BY CurrentFacts
<1>2. s \in Seq(EditRecord) /\ Survives(D, c, s)
  BY DEF Survivors
<1>3. s \in Seq(EditRecord \cup {TornEdit})
  BY <1>2
<1>. QED
  BY <1>1, <1>2, <1>3, WholeSurvives

LEMMA IdsOf ==
    /\ \A S, T : S \subseteq T => Ids(S) \subseteq Ids(T)
    /\ \A S, T : Ids(S \cup T) = Ids(S) \cup Ids(T)
    /\ \A b : Ids({b}) = {b.id}
    /\ Ids({}) = {}
BY DEF Ids

LEMMA FindsOnlyKept ==
    ASSUME NEW D, NEW E, NEW o, NEW d, NEW s, NEW A, NEW B, A \subseteq B, FindsOnly(D, o, s, A),
           \A t \in TablesOf(s) : TableFile(t) \in Files(E) =>
              TableFile(t) \in Files(D) /\ ReadTable(E, t) \subseteq ReadTable(D, t),
           \A n \in Nat : LogFile(n) \in d.names =>
              \/ Ids(ReadLog(E, n)) \subseteq B
              \/ LogFile(n) \in o.names /\ ReadLog(E, n) \subseteq ReadLog(D, n)
    PROVE  FindsOnly(E, d, s, B)
BY IdsOf DEF FindsOnly

LEMMA FindsKept ==
    ASSUME NEW D, NEW E, NEW o, NEW d, NEW s, NEW w, Finds(D, o, s, w),
           \A t \in TablesOf(s) : TableFile(t) \in o.names =>
              TableFile(t) \in d.names /\ ReadTable(D, t) \subseteq ReadTable(E, t),
           \A n \in Nat : s[Len(s)].log <= n /\ LogFile(n) \in o.names =>
              LogFile(n) \in d.names /\ SyncedLog(D, n) \subseteq SyncedLog(E, n)
    PROVE  Finds(E, d, s, w)
BY IdsOf DEF Finds

\* Where the directories of a disk that one operation touched come from.
LEMMA TouchSurvivors ==
    ASSUME NEW D, NEW E, NEW f, DiskTyped(D), DirsRight(D), Touches(D, E, f), Dir(D).current > 0,
           \A c \in Currents(D) : f = DescriptorFile(c) =>
               Records(E, f) = Records(D, f) /\ Synced(D, f) <= Synced(E, f),
           NEW d \in Dirs(E), d.current # 0
    PROVE  /\ Survivors(E, d.current) \subseteq Survivors(D, d.current)
           /\ \E o \in Dirs(D) : /\ o.current = d.current
                                 /\ d = o \/ (/\ o = Dir(D) /\ o.names \subseteq d.names
                                              /\ d.names \subseteq o.names \cup {f})
<1>. DEFINE c == d.current
<1>1. DiskTyped(E) /\ DirsRight(E) /\ Currents(E) \subseteq Currents(D)
  BY TouchDirs DEF Touches
<1>2. c \in Currents(E) /\ c \in Currents(D)
  BY <1>1 DEF Currents
<1>3. DescriptorFile(c) \in Files(E) /\ DescriptorFile(c) \in Files(D)
  BY <1>1, <1>2, CurrentFacts
<1>4. EditsIn(E, c) = EditsIn(D, c) /\ Synced(D, DescriptorFile(c)) <= Synced(E, DescriptorFile(c))
  <2>1. CASE f = DescriptorFile(c)
    BY <2>1, <1>2 DEF EditsIn
  <2>2. CASE f # DescriptorFile(c)
    <3>1. E.files[DescriptorFile(c)] = D.files[DescriptorFile(c)]
      BY <2>2, <1>3 DEF Touches
    <3>2. Synced(D, DescriptorFile(c)) \in Nat
      BY <1>3, FileParts DEF DiskTyped
    <3>. QED
      BY <3>1, <3>2 DEF EditsIn, Records, Synced
  <2>. QED
    BY <2>1, <2>2
<1>5. Survivors(E, c) \subseteq Survivors(D, c)
  BY <1>1, <1>2, <1>4, SurvivorsLess
<1>6. \E o \in Dirs(D) : /\ o.current = c
                         /\ d = o \/ (/\ o = Dir(D) /\ o.names \subseteq d.names
                                      /\ d.names \subseteq o.names \cup {f})
  BY DirParts DEF Touches, DiskTyped
<1>. QED
  BY <1>5, <1>6

\* What the other files hold.
LEMMA TouchOthers ==
    ASSUME NEW D, NEW E, NEW f, DiskTyped(D), Touches(D, E, f), NEW g \in Files(E), g # f
    PROVE  g \in Files(D) /\ Records(E, g) = Records(D, g) /\ Synced(E, g) = Synced(D, g)
BY DEF Touches, Records, Synced

\* Only the touched log may hold more, if that is allowed.
LEMMA TouchAtMost ==
    ASSUME NEW D, NEW E, NEW f, DiskTyped(D), DirsRight(D), Touches(D, E, f), Dir(D).current > 0,
           \A c \in Currents(D) : f = DescriptorFile(c) =>
               Records(E, f) = Records(D, f) /\ Synced(D, f) <= Synced(E, f),
           \A t \in Named(D) : f = TableFile(t) => f \in Files(D) /\ Records(E, f) = Records(D, f),
           NEW A, NEW B, A \subseteq B,
           \A n \in Nat : f = LogFile(n) =>
              \/ Ids(ReadLog(E, n)) \subseteq B
              \/ LogFile(n) \in Dir(D).names /\ ReadLog(E, n) \subseteq ReadLog(D, n),
           AtMost(D, A)
    PROVE  AtMost(E, B)
<1>. SUFFICES ASSUME NEW d \in Dirs(E), d.current # 0, NEW s \in Survivors(E, d.current)
              PROVE  FindsOnly(E, d, s, B)
  BY DEF AtMost
<1>1. DiskTyped(E) /\ Currents(E) \subseteq Currents(D) /\ d.current \in Currents(D)
      /\ d.names \subseteq Files(E)
  BY TouchDirs DEF Touches, Currents, DiskTyped, DirsTyped
<1>2. s \in Survivors(D, d.current)
  BY TouchSurvivors
<1>3. PICK o \in Dirs(D) : /\ o.current = d.current
                           /\ d = o \/ (/\ o = Dir(D) /\ o.names \subseteq d.names
                                        /\ d.names \subseteq o.names \cup {f})
  BY TouchSurvivors
<1>4. FindsOnly(D, o, s, A)
  BY <1>2, <1>3 DEF AtMost
<1>5. TablesOf(s) \subseteq Named(D)
  BY <1>1, <1>2, SurvivorFacts
<1>6. ASSUME NEW t \in TablesOf(s), TableFile(t) \in Files(E)
      PROVE  TableFile(t) \in Files(D) /\ ReadTable(E, t) \subseteq ReadTable(D, t)
  BY <1>5, <1>6, TouchOthers DEF ReadTable
<1>7. ASSUME NEW n \in Nat, LogFile(n) \in d.names
      PROVE  \/ Ids(ReadLog(E, n)) \subseteq B
             \/ LogFile(n) \in o.names /\ ReadLog(E, n) \subseteq ReadLog(D, n)
  <2>1. CASE f = LogFile(n)
    BY <2>1, <1>3, <1>7
  <2>2. CASE f # LogFile(n)
    <3>1. Records(E, LogFile(n)) = Records(D, LogFile(n))
      BY <2>2, <1>1, <1>7, TouchOthers
    <3>2. ReadLog(E, n) = ReadLog(D, n)
      BY <3>1, SeenLog
    <3>. QED
      BY <3>2, <2>2, <1>3, <1>7
  <2>. QED
    BY <2>1, <2>2
<1>. QED
  BY <1>4, <1>6, <1>7, FindsOnlyKept

\* A touched log or table keeps what is there.
LEMMA TouchAtLeast ==
    ASSUME NEW D, NEW E, NEW f, DiskTyped(D), DirsRight(D), Touches(D, E, f), Dir(D).current > 0,
           \A c \in Currents(D) : f = DescriptorFile(c) =>
               Records(E, f) = Records(D, f) /\ Synced(D, f) <= Synced(E, f),
           \A t \in Named(D) : f = TableFile(t) => f \in Files(D) /\ Records(E, f) = Records(D, f),
           \A n \in Nat : f = LogFile(n) /\ f \in Files(D) => SyncedLog(D, n) \subseteq SyncedLog(E, n),
           NEW S, AtLeast(D, S)
    PROVE  AtLeast(E, S)
<1>. SUFFICES ASSUME NEW d \in Dirs(E), d.current # 0, NEW s \in Survivors(E, d.current),
                     NEW w \in S
              PROVE  Finds(E, d, s, w)
  BY DEF AtLeast
<1>1. DiskTyped(E) /\ Currents(E) \subseteq Currents(D) /\ d.current \in Currents(D)
      /\ d.names \subseteq Files(E)
  BY TouchDirs DEF Touches, Currents, DiskTyped, DirsTyped
<1>2. s \in Survivors(D, d.current)
  BY TouchSurvivors
<1>3. PICK o \in Dirs(D) : /\ o.current = d.current
                           /\ d = o \/ (/\ o = Dir(D) /\ o.names \subseteq d.names
                                        /\ d.names \subseteq o.names \cup {f})
  BY TouchSurvivors
<1>4. Finds(D, o, s, w) /\ o.names \subseteq Files(D) /\ o.names \subseteq d.names
  BY <1>2, <1>3 DEF AtLeast, DiskTyped, DirsTyped
<1>5. TablesOf(s) \subseteq Named(D)
  BY <1>1, <1>2, SurvivorFacts
<1>6. ASSUME NEW t \in TablesOf(s), TableFile(t) \in o.names
      PROVE  TableFile(t) \in d.names /\ ReadTable(D, t) \subseteq ReadTable(E, t)
  <2>1. TableFile(t) \in d.names /\ TableFile(t) \in Files(E)
    BY <1>1, <1>4, <1>6
  <2>2. Records(E, TableFile(t)) = Records(D, TableFile(t))
    BY <2>1, <1>5, TouchOthers
  <2>. QED
    BY <2>1, <2>2 DEF ReadTable
<1>7. ASSUME NEW n \in Nat, LogFile(n) \in o.names
      PROVE  LogFile(n) \in d.names /\ SyncedLog(D, n) \subseteq SyncedLog(E, n)
  <2>1. LogFile(n) \in d.names /\ LogFile(n) \in Files(E) /\ LogFile(n) \in Files(D)
    BY <1>1, <1>4, <1>7
  <2>2. CASE f # LogFile(n)
    BY <2>1, <2>2, TouchOthers DEF SyncedLog
  <2>. QED
    BY <2>1, <2>2
<1>. QED
  BY <1>4, <1>6, <1>7, FindsKept

\* What a reader finds, or what the next open will find; with what was begun.
Holds(disk) == IF phase = "up" THEN Ids(Shown(disk)) ELSE Ids(Recoverable(disk))
Begun(disk) == Holds(disk) \cup limbo

\* Writes whose sync returned.
Promised == safe \cup (IF writer.step = "synced" THEN {writer.batch.id} ELSE {})

\* No operation has failed.
ErrorFree == errors = 0 /\ bgError = FALSE /\ hidden = {} /\ apply.step # "failed"
Untorn(disk) ==
    /\ \A n \in Nat : LogFile(n) \in Files(disk) => Torn \notin Range1(Records(disk, LogFile(n)))
    /\ \A c \in Nat : DescriptorFile(c) \in Files(disk) => TornEdit \notin Range1(EditsIn(disk, c))

\* The logs that a version may need hold what the memtables hold.
LogsHeld(disk) ==
    phase \in {"opening", "up"} =>
       \A n \in Nat : LogFile(n) \in Files(disk) =>
          /\ n <= logNumber
          /\ n = logNumber => ReadLog(disk, n) \subseteq Range1(mem) \cup Writing
          /\ phase = "up" /\ versionLog <= n /\ n < logNumber => ReadLog(disk, n) \subseteq Range1(imm)

\* A recovery adds nothing.
RecoveryHeld(disk) ==
    /\ phase # "down" => manifest > 1
    /\ \A m \in toRecover : versionLog <= m
    /\ \A t \in Found : ReadTable(disk, t) \subseteq Recoverable(disk)

\* A table is forced before anything refers to it.
Made ==
    version \cup Found \cup (IF flush.step = "apply" THEN {flush.out} ELSE {})
      \cup (IF comp.step \in {"written", "apply"} THEN {comp.out} ELSE {})
WhollySynced(disk, t) == Synced(disk, TableFile(t)) = Len(Records(disk, TableFile(t)))
TablesSynced(disk) ==
    \A t \in Made \cup Named(disk) : TableFile(t) \in Files(disk) => WhollySynced(disk, t)

HistoryRight(disk) ==
    /\ limbo = Ids(Writing)
    /\ Promised = {} \/ \A d \in Dirs(disk) : d.current > 1
    /\ Begun(disk) \subseteq 1 .. written

StoreInv(disk) ==
    /\ ErrorFree /\ Untorn(disk)
    /\ LogsHeld(disk) /\ RecoveryHeld(disk) /\ TablesSynced(disk) /\ HistoryRight(disk)
    /\ AtMost(disk, Begun(disk)) /\ AtLeast(disk, Promised)

LEMMA SameRecoverable ==
    ASSUME NEW D, NEW E, DiskInv(D), DiskInv(E), OpenKept(D, E), Readable(D),
           \A n \in Nat : LastEdit(D).log <= n /\ FileExists(E, LogFile(n)) =>
              \/ ReadLog(E, n) = {}
              \/ FileExists(D, LogFile(n)) /\ ReadLog(E, n) \subseteq ReadLog(D, n)
    PROVE  Recoverable(E) = Recoverable(D)
<1>1. /\ LastEdit(E) = LastEdit(D) /\ Readable(E) /\ TablesRead(E, Opened(E)) = TablesRead(D, Opened(D))
      /\ Recoverable(D) \subseteq Recoverable(E)
  BY OpenKeeps
<1>2. /\ TablesRead(D, Opened(D)) \subseteq Recoverable(D)
      /\ LoggedFrom(D, LastEdit(D).log) \subseteq Recoverable(D)
      /\ LastEdit(D).log \in Nat
  BY RecoverableIs
<1>3. Recoverable(E) \subseteq TablesRead(E, Opened(E)) \cup LoggedFrom(E, LastEdit(E).log)
  BY <1>1, RecoverableIs
<1>4. LoggedFrom(E, LastEdit(E).log) \subseteq LoggedFrom(D, LastEdit(D).log)
  BY <1>1 DEF LoggedFrom
<1>. QED
  BY <1>1, <1>2, <1>3, <1>4

LEMMA HarmlessHolds ==
    ASSUME NEW D, NEW E, NEW f, DiskInv(D), DiskInv(E), Typed, Steps, ProcessInv(D),
           phase # "down", Touches(D, E, f), Harmless(D, E, f), KeepsInv(D)
    PROVE  /\ Holds(E) = Holds(D)
           /\ phase \in {"recovering", "opening"} => Recoverable(E) = Recoverable(D)
<1>1. /\ OpenKept(D, E)
      /\ \A t \in version \cup Found \cup Adding : FileExists(D, TableFile(t)) =>
            FileExists(E, TableFile(t)) /\ ReadTable(E, t) = ReadTable(D, t)
  BY HarmlessKeeps
<1>2. Dir(D).current > 0 /\ \A t \in version : FileExists(D, TableFile(t))
  BY DEF ProcessInv, Numbers, InUse
<1>3. Shown(E) = Shown(D)
  BY <1>1, <1>2 DEF Shown
<1>4. ASSUME phase \in {"recovering", "opening"}
      PROVE  Recoverable(E) = Recoverable(D)
  <2>1. Readable(D)
    BY <1>4 DEF KeepsInv, RecoveryKeeps
  <2>2. /\ \A n \in Nat : LogFile(n) \in Files(E) =>
               LogFile(n) \in Files(D) /\ ReadLog(E, n) = ReadLog(D, n)
        /\ \A n \in Nat : LogFile(n) \in Dir(E).names <=> LogFile(n) \in Dir(D).names
    BY <1>2, HarmlessReads DEF DiskInv
  <2>3. Dir(E).names \subseteq Files(E)
    BY DirParts DEF DiskInv, DiskTyped, DirsTyped
  <2>. QED
    BY <1>1, <2>1, <2>2, <2>3, SameRecoverable DEF FileExists
<1>5. phase \in {"down", "recovering", "opening", "up"}
  BY DEF Typed, TypedMemory
<1>. QED
  BY <1>3, <1>4, <1>5 DEF Holds

\* What was made and touched.
Forwards(D, E, f) ==
    /\ \A c \in Currents(D) : f = DescriptorFile(c) => Synced(D, f) <= Synced(E, f)
    /\ \A c \in Nat : f = DescriptorFile(c) => TornEdit \notin Range1(EditsIn(E, c))
    /\ \A n \in Nat : f = LogFile(n) => Synced(D, f) <= Synced(E, f)
    /\ \A t \in Made \cup Named(D) : f = TableFile(t) => WhollySynced(E, t)

LEMMA HarmlessStore ==
    ASSUME NEW D, NEW E, NEW f, DiskInv(D), DiskInv(E), Typed, Steps, ProcessInv(D),
           phase # "down", Touches(D, E, f), Harmless(D, E, f), KeepsInv(D),
           Forwards(D, E, f), StoreInv(D)
    PROVE  /\ StoreInv(E) /\ Holds(E) = Holds(D)
           /\ phase \in {"recovering", "opening"} => Recoverable(E) = Recoverable(D)
<1>1. /\ Holds(E) = Holds(D)
      /\ phase \in {"recovering", "opening"} => Recoverable(E) = Recoverable(D)
  BY HarmlessHolds
<1>2. /\ DiskTyped(D) /\ DirsRight(D) /\ DiskTyped(E) /\ Dir(D).current > 0
  BY DEF DiskInv, ProcessInv, Numbers
<1>3. /\ \A n \in Nat : LogFile(n) \in Files(E) =>
            LogFile(n) \in Files(D) /\ ReadLog(E, n) = ReadLog(D, n)
      /\ \A t \in Named(D) \cup version \cup Found \cup Adding : TableFile(t) \in Files(E) =>
            TableFile(t) \in Files(D) /\ ReadTable(E, t) = ReadTable(D, t)
  BY <1>2, HarmlessReads
<1>4. Named(E) \subseteq Named(D)
  BY <1>2, HarmlessDisk
<1>5. Untorn(E)
  <2>1. ASSUME NEW n \in Nat, LogFile(n) \in Files(E)
        PROVE  Torn \notin Range1(Records(E, LogFile(n)))
    <3>1. Records(E, LogFile(n)) = Records(D, LogFile(n))
      BY <1>2, <2>1, TouchOthers DEF Harmless
    <3>. QED
      BY <3>1, <2>1, <1>3 DEF StoreInv, Untorn
  <2>2. ASSUME NEW c \in Nat, DescriptorFile(c) \in Files(E)
        PROVE  TornEdit \notin Range1(EditsIn(E, c))
    <3>1. CASE f = DescriptorFile(c)
      BY <3>1 DEF Forwards
    <3>2. CASE f # DescriptorFile(c)
      BY <3>2, <1>2, <2>2, TouchOthers DEF StoreInv, Untorn, EditsIn
    <3>. QED
      BY <3>1, <3>2
  <2>. QED
    BY <2>1, <2>2 DEF Untorn
<1>6. LogsHeld(E)
  BY <1>3 DEF StoreInv, LogsHeld
<1>7. RecoveryHeld(E)
  <2>1. ASSUME NEW t \in Found
        PROVE  ReadTable(E, t) \subseteq Recoverable(E)
    <3>1. phase \in {"recovering", "opening"}
      BY <2>1 DEF Found, Typed, TypedMemory
    <3>2. FileExists(D, TableFile(t)) /\ ReadTable(D, t) \subseteq Recoverable(D)
      BY <2>1 DEF StoreInv, RecoveryHeld, ProcessInv, InUse
    <3>3. ReadTable(E, t) = ReadTable(D, t)
      BY <2>1, <3>2, HarmlessKeeps
    <3>. QED
      BY <1>1, <3>1, <3>2, <3>3
  <2>. QED
    BY <2>1 DEF StoreInv, RecoveryHeld
<1>8. TablesSynced(E)
  <2>. SUFFICES ASSUME NEW t \in Made \cup Named(E), TableFile(t) \in Files(E)
                PROVE  WhollySynced(E, t)
    BY DEF TablesSynced
  <2>1. CASE f = TableFile(t)
    BY <2>1, <1>4 DEF Forwards
  <2>2. CASE f # TableFile(t)
    BY <2>2, <1>2, <1>4, TouchOthers DEF StoreInv, TablesSynced, WhollySynced
  <2>. QED
    BY <2>1, <2>2
<1>9. HistoryRight(E)
  <2>1. \A d \in Dirs(E) : \E o \in Dirs(D) : o.current = d.current
    BY <1>2, DirParts DEF Touches, DiskTyped
  <2>. QED
    BY <1>1, <2>1 DEF StoreInv, HistoryRight, Begun
<1>10. /\ \A c \in Currents(D) : f = DescriptorFile(c) =>
               Records(E, f) = Records(D, f) /\ Synced(D, f) <= Synced(E, f)
       /\ \A t \in Named(D) : f = TableFile(t) => f \in Files(D) /\ Records(E, f) = Records(D, f)
       /\ \A n \in Nat : f = LogFile(n) =>
              LogFile(n) \in Dir(D).names /\ ReadLog(E, n) \subseteq ReadLog(D, n)
  <2>1. Dir(D).names \subseteq Files(D) /\ f \in Files(E)
    BY <1>2, DirParts DEF DiskTyped, DirsTyped, Touches
  <2>. QED
    BY <1>3, <2>1 DEF Harmless, Forwards
<1>11. AtMost(E, Begun(E))
  <2>1. Begun(D) \subseteq Begun(E)
    BY <1>1 DEF Begun
  <2>2. AtMost(D, Begun(D))
    BY DEF StoreInv
  <2>. QED
    BY <1>2, <1>10, <2>1, <2>2, TouchAtMost
<1>12. AtLeast(E, Promised)
  <2>1. ASSUME NEW n \in Nat, f = LogFile(n), f \in Files(D)
        PROVE  SyncedLog(D, n) \subseteq SyncedLog(E, n)
    <3>1. Records(E, f) = Records(D, f) /\ Synced(D, f) <= Synced(E, f)
      BY <2>1 DEF Harmless, Forwards
    <3>2. Synced(D, f) \in Nat /\ Synced(E, f) \in Nat
      BY <1>2, <2>1, FileParts DEF DiskTyped, Touches
    <3>3. 1 .. Synced(D, f) \subseteq 1 .. Synced(E, f)
      BY <3>1, <3>2
    <3>. QED
      BY <3>1, <3>3, <2>1 DEF SyncedLog
  <2>2. AtLeast(D, Promised)
    BY DEF StoreInv
  <2>. QED
    BY <1>2, <1>10, <2>1, <2>2, TouchAtLeast
<1>. QED
  BY <1>1, <1>5, <1>6, <1>7, <1>8, <1>9, <1>11, <1>12 DEF StoreInv

\* The process goes on: what it made last is synced.
QuietVars == <<phase, mem, imm, logNumber, version, versionLog, manifest, toRecover, recovered,
               written, safe, limbo, hidden, errors, bgError, writer>>
LEMMA QuietStore ==
    ASSUME StoreInv(fs'), UNCHANGED QuietVars, apply'.step # "failed",
           \A t \in Made' \ Made : TableFile(t) \in Files(fs') => WhollySynced(fs', t)
    PROVE  StoreInv(fs)' /\ Holds(fs)' = Holds(fs')
<1>. USE DEF QuietVars
<1>1. /\ Holds(fs)' = Holds(fs') /\ Begun(fs)' = Begun(fs')
      /\ Promised' = Promised /\ Writing' = Writing
  BY DEF Holds, Begun, Shown, Promised, Writing
<1>2. Untorn(fs)' /\ ErrorFree'
  BY DEF StoreInv, Untorn, ErrorFree
<1>3. LogsHeld(fs)'
  BY <1>1 DEF StoreInv, LogsHeld
<1>4. RecoveryHeld(fs)'
  BY DEF StoreInv, RecoveryHeld, Found
<1>5. TablesSynced(fs)'
  <2>1. \A t \in Made \cup Named(fs') : TableFile(t) \in Files(fs') => WhollySynced(fs', t)
    BY DEF StoreInv, TablesSynced
  <2>2. \A t \in Made' \cup Named(fs') : TableFile(t) \in Files(fs') => WhollySynced(fs', t)
    BY <2>1
  <2>. QED
    BY <2>2 DEF TablesSynced, WhollySynced, Named
<1>6. HistoryRight(fs)'
  BY <1>1 DEF StoreInv, HistoryRight
<1>7. AtMost(fs, Begun(fs))' /\ AtLeast(fs, Promised)'
  <2>1. AtMost(fs', Begun(fs)') /\ AtLeast(fs', Promised')
    BY <1>1 DEF StoreInv
  <2>. QED
    BY <2>1 DEF AtMost, AtLeast, Survivors, FindsOnly, Finds
<1>. QED
  BY <1>1, <1>2, <1>3, <1>4, <1>5, <1>6, <1>7 DEF StoreInv

\* A step that the promise of the store does not see.
SameStore ==
    /\ Holds(fs)' = Holds(fs) /\ safe' = safe /\ limbo' = limbo
    /\ phase' = "up" <=> phase = "up"

LEMMA NoFail == MaxErrors = 0 /\ StoreInv(fs) => ~Fail
BY DEF StoreInv, ErrorFree, Fail

LEMMA FlushBeginStore ==
    ASSUME Inv, StoreInv(fs), FlushBegin
    PROVE  StoreInv(fs)' /\ SameStore
<1>1. /\ fs' = fs /\ UNCHANGED QuietVars /\ apply' = apply /\ comp' = comp
      /\ flush'.step = "build"
  BY DEF FlushBegin, QuietVars, memoryVars, recoveryVars, historyVars, boundVars
<1>2. Made' \subseteq Made
  BY <1>1 DEF Made, Found, QuietVars
<1>3. apply.step # "failed"
  BY DEF StoreInv, ErrorFree
<1>. QED
  BY <1>1, <1>2, <1>3, QuietStore DEF SameStore, QuietVars

LEMMA ReaderStore ==
    ASSUME Inv, StoreInv(fs), ReaderBegin \/ ReaderEnd
    PROVE  StoreInv(fs)' /\ SameStore
<1>1. fs' = fs /\ UNCHANGED QuietVars /\ apply' = apply /\ comp' = comp /\ flush' = flush
  BY DEF ReaderBegin, ReaderEnd, QuietVars, memoryVars, versionVars, recoveryVars, historyVars, boundVars
<1>2. Made' = Made
  BY <1>1 DEF Made, Found, QuietVars
<1>3. apply.step # "failed"
  BY DEF StoreInv, ErrorFree
<1>. QED
  BY <1>1, <1>2, <1>3, QuietStore DEF SameStore, QuietVars

LEMMA InstallCompactionResultsStore ==
    ASSUME Inv, StoreInv(fs), InstallCompactionResults
    PROVE  StoreInv(fs)' /\ SameStore
<1>1. /\ fs' = fs /\ UNCHANGED QuietVars /\ apply'.step = "append" /\ comp.step = "written"
      /\ comp' = [comp EXCEPT !.step = "apply"] /\ flush' = flush
  BY DEF InstallCompactionResults, BeginApply, QuietVars, memoryVars, recoveryVars, historyVars, boundVars
<1>2. comp'.out = comp.out
  BY <1>1 DEF Inv, Typed, TypedWork, CompactionRecord
<1>3. Made' \subseteq Made
  BY <1>1, <1>2 DEF Made, Found, QuietVars
<1>. QED
  BY <1>1, <1>3, QuietStore DEF SameStore, QuietVars

\* A table that is written and synced.
LEMMA TableForwards ==
    ASSUME NEW D, NEW E, DiskTyped(D), DirsRight(D), Typed, NEW n \in Nat, WhollySynced(E, n)
    PROVE  Forwards(D, E, TableFile(n))
<1>1. /\ \A c \in Nat : TableFile(n) # DescriptorFile(c) /\ TableFile(n) # LogFile(c)
      /\ Currents(D) \subseteq Nat
  BY FilesDiffer, CurrentFacts
<1>2. \A t \in Made \cup Named(D) : TableFile(n) = TableFile(t) => t = n
  <2>1. Made \cup Named(D) \subseteq Nat
    BY DEF Made, Named, Found, Typed, TypedVersion, TypedWork, FlushRecord, CompactionRecord
  <2>. QED
    BY <2>1, FilesDiffer
<1>. QED
  BY <1>1, <1>2 DEF Forwards

LEMMA BuildTableSynced ==
    ASSUME NEW D, DiskTyped(D), NEW t \in Nat, NEW s \in Seq(Batch), NEW E, E = BuildTable(D, t, s)
    PROVE  WhollySynced(E, t)
<1>. DEFINE f == TableFile(t)
            D1 == NewWritableFile(D, f)
            D2 == AddRecords(D1, f, s)
<1>1. f \in File /\ Item(f) = Batch
  BY FileTypes DEF Item
<1>2. DiskTyped(D1) /\ f \in Files(D1) /\ f \in Dir(D1).names
  BY <1>1, NewFileDisk
<1>3. E = Sync(D2, f)
  BY DEF BuildTable
<1>. HIDE DEF f, D1
<1>4. DiskTyped(D2) /\ f \in Dir(D2).names
  BY <1>1, <1>2, AddRecordsDisk
<1>. HIDE DEF D2
<1>5. Records(E, f) = Records(D2, f) /\ Synced(E, f) = Len(Records(D2, f))
  BY <1>3, <1>4, SyncDisk
<1>. QED
  BY <1>5 DEF WhollySynced, f

\* A background step that writes a table.
LEMMA TableStore ==
    ASSUME Inv, DiskInv(fs'), KeepsInv(fs), StoreInv(fs), phase # "down", NEW n \in Nat,
           Touches(fs, fs', TableFile(n)), Harmless(fs, fs', TableFile(n)), WhollySynced(fs', n)
    PROVE  /\ StoreInv(fs') /\ Holds(fs') = Holds(fs)
           /\ phase \in {"recovering", "opening"} => Recoverable(fs') = Recoverable(fs)
<1>1. DiskInv(fs) /\ Typed /\ Steps /\ ProcessInv(fs) /\ DiskTyped(fs) /\ DirsRight(fs)
  BY DEF Inv, DiskInv
<1>2. Forwards(fs, fs', TableFile(n))
  BY <1>1, TableForwards
<1>. QED
  BY <1>1, <1>2, HarmlessStore

LEMMA WriteLevel0TableStore ==
    ASSUME MaxErrors = 0, Inv, Inv', KeepsInv(fs), StoreInv(fs), WriteLevel0Table
    PROVE  StoreInv(fs)' /\ SameStore
<1>1. /\ flush.step = "build" /\ fs' = BuildTable(fs, flush.out, imm) /\ apply'.step = "append"
      /\ flush' = [flush EXCEPT !.step = "apply"] /\ comp' = comp
      /\ UNCHANGED QuietVars
  BY NoFail DEF WriteLevel0Table, BeginApply, QuietVars, memoryVars, recoveryVars, historyVars, boundVars
<1>2. phase = "up" /\ comp.step # "apply" /\ Found = {}
  BY <1>1, WorkIsUp DEF Inv, Steps, Found
<1>3. Adding = {}
  BY <1>1, <1>2, NothingApplied
<1>4. DiskInv(fs) /\ DiskInv(fs') /\ Typed /\ ProcessInv(fs) /\ DiskTyped(fs) /\ DirsRight(fs)
  BY DEF Inv, DiskInv
<1>5. flush \in FlushRecord /\ flush.out \in Nat /\ imm \in Seq(Batch)
  BY <1>4 DEF Typed, TypedMemory, TypedWork, FlushRecord
<1>6. Touches(fs, fs', TableFile(flush.out)) /\ WhollySynced(fs', flush.out)
  BY <1>1, <1>4, <1>5, BuildTableTouches, BuildTableSynced
<1>7. flush.out \notin Named(fs) \cup version \cup Found
  BY <1>1, <1>2, <1>4 DEF ProcessInv, Outputs
<1>8. Harmless(fs, fs', TableFile(flush.out))
  BY <1>3, <1>4, <1>5, <1>7, NewTableHarmless
<1>9. StoreInv(fs') /\ Holds(fs') = Holds(fs)
  BY <1>2, <1>4, <1>5, <1>6, <1>8, TableStore
<1>10. Made' \ Made \subseteq {flush.out}
  <2>1. flush'.out = flush.out
    BY <1>1, <1>5 DEF FlushRecord
  <2>. QED
    BY <1>1, <2>1 DEF Made, Found, QuietVars
<1>11. StoreInv(fs)' /\ Holds(fs)' = Holds(fs')
  BY <1>1, <1>6, <1>9, <1>10, QuietStore
<1>. QED
  BY <1>1, <1>9, <1>11 DEF SameStore, QuietVars

LEMMA CompactionBeginStore ==
    ASSUME Inv, Inv', KeepsInv(fs), StoreInv(fs), NEW inputs \in SUBSET version,
           CompactionBegin(inputs)
    PROVE  StoreInv(fs)' /\ SameStore
<1>1. /\ phase = "up" /\ comp.step = "none" /\ flush.step = "none" /\ apply' = apply /\ flush' = flush
      /\ fs' = NewWritableFile(fs, TableFile(nextFile)) /\ comp'.step = "running"
      /\ UNCHANGED QuietVars
  BY NothingTyped DEF CompactionBegin, QuietVars, memoryVars, recoveryVars, historyVars, boundVars
<1>2. Adding = {} /\ Found = {}
  BY <1>1, NothingApplied DEF Found
<1>3. /\ DiskInv(fs) /\ DiskInv(fs') /\ Typed /\ Numbers(fs) /\ DiskTyped(fs) /\ DirsRight(fs)
      /\ nextFile \in Nat
  BY DEF Inv, ProcessInv, Typed, TypedVersion, DiskInv
<1>4. TableFile(nextFile) \in File
  BY <1>3, FileTypes
<1>5. Touches(fs, fs', TableFile(nextFile))
  BY <1>1, <1>3, <1>4, NewFileTouches
<1>6. WhollySynced(fs', nextFile)
  <2>1. Records(fs', TableFile(nextFile)) = <<>> /\ Synced(fs', TableFile(nextFile)) = 0
    BY <1>1, <1>3, <1>4, NewFileDisk
  <2>. QED
    BY <2>1 DEF WhollySynced
<1>7. nextFile \notin Named(fs) \cup version \cup Found
  <2>1. /\ \A t \in Named(fs) : t > 0 /\ t < nextFile
        /\ version \subseteq 1 .. nextFile - 1
    BY <1>1, <1>3 DEF Numbers
  <2>. QED
    BY <1>2, <1>3, <2>1
<1>8. Harmless(fs, fs', TableFile(nextFile))
  BY <1>2, <1>3, <1>7, NewTableHarmless
<1>9. StoreInv(fs') /\ Holds(fs') = Holds(fs)
  BY <1>1, <1>3, <1>5, <1>6, <1>8, TableStore
<1>10. Made' \subseteq Made
  BY <1>1 DEF Made, Found, QuietVars
<1>11. apply'.step # "failed"
  BY <1>1 DEF StoreInv, ErrorFree
<1>12. StoreInv(fs)' /\ Holds(fs)' = Holds(fs')
  BY <1>1, <1>9, <1>10, <1>11, QuietStore
<1>. QED
  BY <1>1, <1>9, <1>12 DEF SameStore, QuietVars

LEMMA SyncForwards ==
    ASSUME NEW D, DiskTyped(D), DirsRight(D), Untorn(D), NEW f \in Dir(D).names,
           NEW E, E = Sync(D, f)
    PROVE  Forwards(D, E, f)
<1>1. /\ f \in Files(D) /\ f \in Files(E)
      /\ Records(E, f) = Records(D, f) /\ Synced(E, f) = Len(Records(D, f))
  BY SyncDisk DEF DiskTyped, DirsTyped, Dirs, Dir
<1>2. Synced(D, f) <= Synced(E, f)
  BY <1>1, FileParts DEF DiskTyped
<1>3. \A c \in Nat : f = DescriptorFile(c) => TornEdit \notin Range1(EditsIn(E, c))
  BY <1>1 DEF Untorn, EditsIn
<1>4. \A t : f = TableFile(t) => WhollySynced(E, t)
  BY <1>1 DEF WhollySynced
<1>. QED
  BY <1>2, <1>3, <1>4 DEF Forwards

LEMMA CompactionFinishStore ==
    ASSUME MaxErrors = 0, Inv, Inv', KeepsInv(fs), StoreInv(fs), CompactionFinish
    PROVE  StoreInv(fs)' /\ SameStore
<1>. DEFINE f == TableFile(comp.out)
            s == SetToSeq(UNION {ReadTable(fs, t) : t \in comp.inputs})
            D1 == AddRecords(fs, f, s)
<1>1. /\ comp.step = "running" /\ flush.step = "none" /\ f \in Dir(fs).names
      /\ fs' = Sync(D1, f) /\ apply' = apply /\ flush' = flush
      /\ comp' = [comp EXCEPT !.step = "written"]
      /\ UNCHANGED QuietVars
  BY NoFail, NothingTyped DEF CompactionFinish, FileExists, QuietVars, memoryVars, recoveryVars, historyVars, boundVars
<1>2. phase = "up" /\ Found = {}
  BY <1>1, WorkIsUp DEF Found
<1>3. Adding = {}
  BY <1>1, <1>2, NothingApplied
<1>4. DiskInv(fs) /\ DiskInv(fs') /\ Typed /\ ProcessInv(fs) /\ DiskTyped(fs) /\ DirsRight(fs)
  BY DEF Inv, DiskInv
<1>5. comp \in CompactionRecord /\ comp.out \in Nat /\ s \in Seq(Batch) /\ Item(f) = Batch
  BY <1>1, <1>4, CompactionBatches, FileTypes DEF Typed, TypedWork, CompactionRecord, Item
<1>. HIDE DEF s
<1>6. Touches(fs, fs', f) /\ WhollySynced(fs', comp.out)
  <2>. HIDE DEF f
  <2>1. Touches(fs, D1, f)
    BY <1>1, <1>4, <1>5, AddRecordsTouches
  <2>2. DiskTyped(D1) /\ f \in Dir(D1).names
    BY <2>1 DEF Touches
  <2>. HIDE DEF D1
  <2>3. Touches(fs, fs', f)
    BY <1>1, <2>1, <2>2, SyncTouches, TouchTwice
  <2>4. Records(fs', f) = Records(D1, f) /\ Synced(fs', f) = Len(Records(D1, f))
    BY <1>1, <2>2, SyncDisk
  <2>. QED
    BY <2>3, <2>4 DEF WhollySynced, f
<1>7. comp.out \notin Named(fs) \cup version \cup Found
  BY <1>1, <1>2, <1>4 DEF ProcessInv, Outputs
<1>8. Harmless(fs, fs', f)
  BY <1>3, <1>4, <1>5, <1>7, NewTableHarmless
<1>9. StoreInv(fs') /\ Holds(fs') = Holds(fs)
  BY <1>2, <1>4, <1>5, <1>6, <1>8, TableStore
<1>10. Made' \ Made \subseteq {comp.out}
  <2>1. comp'.out = comp.out
    BY <1>1, <1>5 DEF CompactionRecord
  <2>. QED
    BY <1>1, <2>1 DEF Made, Found, QuietVars
<1>11. apply'.step # "failed"
  BY <1>1 DEF StoreInv, ErrorFree
<1>12. StoreInv(fs)' /\ Holds(fs)' = Holds(fs')
  BY <1>1, <1>6, <1>9, <1>10, <1>11, QuietStore
<1>. QED
  BY <1>1, <1>9, <1>12 DEF SameStore, QuietVars

\* The write is in the log, and the whole log is on the disk.
LEMMA WriteSynced ==
    ASSUME Inv, KeepsInv(fs), StoreInv(fs), phase = "up", writer.step # "idle",
           NEW E, E = Sync(fs, LogFile(logNumber)), NEW d, NEW s \in Seq(EditRecord),
           d = Dir(E), s[Len(s)].log <= logNumber
    PROVE  Finds(E, d, s, writer.batch.id)
<1>1. DiskTyped(fs) /\ logNumber \in Nat /\ LogFile(logNumber) \in Dir(fs).names
  BY DEF Inv, DiskInv, Typed, TypedMemory, ProcessInv, InUse, FileExists
<1>2. /\ Records(E, LogFile(logNumber)) = Records(fs, LogFile(logNumber))
      /\ Synced(E, LogFile(logNumber)) = Len(Records(fs, LogFile(logNumber)))
      /\ Dir(E) = Dir(fs) /\ DiskTyped(E) /\ LogFile(logNumber) \in Files(E)
  BY <1>1, SyncDisk
<1>3. writer.batch \in ReadLog(fs, logNumber)
  BY DEF KeepsInv, MemLogged, Writing, StoreInv, ErrorFree
<1>4. DOMAIN Records(E, LogFile(logNumber)) = 1 .. Synced(E, LogFile(logNumber))
  BY <1>2, FileParts DEF DiskTyped
<1>5. writer.batch \in SyncedLog(E, logNumber)
  BY <1>2, <1>3, <1>4 DEF ReadLog, SyncedLog
<1>. QED
  BY <1>1, <1>2, <1>5 DEF Finds, Ids

LEMMA SyncLogStore ==
    ASSUME FsyncForcesNames, MaxErrors = 0, Inv, Inv', KeepsInv(fs), StoreInv(fs), SyncLog
    PROVE  StoreInv(fs)' /\ SameStore
<1>. DEFINE f == LogFile(logNumber)
<1>1. /\ writer.step = "logged" /\ writer \in WriteRecord /\ fs' = Sync(fs, f)
      /\ writer' = [writer EXCEPT !.step = "synced"]
      /\ UNCHANGED <<phase, mem, imm, logNumber, version, versionLog, manifest, toRecover, recovered,
                     written, safe, limbo, hidden, errors, bgError, flush, comp, apply>>
  BY NoFail DEF SyncLog, memoryVars, recoveryVars, historyVars, Inv, Typed, TypedWork
<1>2. phase = "up" /\ Writing' = Writing /\ Promised = safe /\ Promised' = safe \cup {writer.batch.id}
  BY <1>1, WorkIsUp, NothingTyped DEF Writing, WriteRecord, Promised
<1>3. /\ DiskInv(fs) /\ DiskInv(fs') /\ Typed /\ Steps /\ ProcessInv(fs) /\ DiskTyped(fs) /\ DirsRight(fs)
      /\ DiskTyped(fs') /\ DirsRight(fs')
  BY DEF Inv, DiskInv
<1>4. f \in Dir(fs).names
  BY <1>2, <1>3 DEF ProcessInv, InUse, FileExists
<1>5. Touches(fs, fs', f) /\ Harmless(fs, fs', f) /\ Forwards(fs, fs', f)
  BY <1>1, <1>3, <1>4, SyncHarmless, SyncForwards DEF StoreInv
<1>6. StoreInv(fs') /\ Holds(fs') = Holds(fs)
  BY <1>2, <1>3, <1>5, HarmlessStore
<1>7. Dir(fs') = Dir(fs) /\ Dirs(fs') = {Dir(fs)}
  BY <1>1, <1>3, <1>4, SyncDisk DEF SyncsDir
<1>8. Dir(fs).current = manifest /\ manifest > 1 /\ manifest \in Nat
  BY <1>2, <1>3 DEF ProcessInv, Numbers, StoreInv, RecoveryHeld, Typed, TypedVersion
<1>9. AtLeast(fs', Promised')
  <2>. SUFFICES ASSUME NEW s \in Survivors(fs', manifest), NEW w \in Promised'
                PROVE  Finds(fs', Dir(fs'), s, w)
    BY <1>7, <1>8 DEF AtLeast
  <2>1. CASE w \in Promised
    BY <1>6, <1>7, <1>8, <2>1 DEF StoreInv, AtLeast
  <2>2. CASE w = writer.batch.id
    <3>1. manifest \in Currents(fs')
      BY <1>7, <1>8 DEF Currents
    <3>2. s \in Seq(EditRecord) /\ s[Len(s)].log <= logNumber
      <4>1. /\ s \in Seq(EditRecord) /\ s[Len(s)] \in EditRecord /\ s[Len(s)].numbers
            /\ Len(s) \in DOMAIN EditsIn(fs', manifest) /\ s[Len(s)] = EditsIn(fs', manifest)[Len(s)]
        BY <1>3, <3>1, SurvivorFacts
      <4>2. Numbered(EditsIn(fs', manifest)[Len(s)])
        BY <4>1, EditsNotTorn DEF Numbered
      <4>3. LogsUpTo(fs', logNumber)
        BY <1>1, <1>2 DEF Inv, ProcessInv, Numbers
      <4>. QED
        BY <3>1, <4>1, <4>2, <4>3 DEF LogsUpTo
    <3>. QED
      BY <1>1, <1>2, <2>2, <3>2, WriteSynced
  <2>. QED
    BY <1>2, <2>1, <2>2
<1>10. /\ Holds(fs)' = Holds(fs') /\ Begun(fs)' = Begun(fs')
  BY <1>1 DEF Holds, Begun, Shown
<1>11. Untorn(fs)' /\ ErrorFree'
  BY <1>1, <1>6 DEF StoreInv, Untorn, ErrorFree
<1>12. LogsHeld(fs)' /\ RecoveryHeld(fs)'
  BY <1>1, <1>2, <1>6 DEF StoreInv, LogsHeld, RecoveryHeld, Found
<1>13. TablesSynced(fs)'
  BY <1>1, <1>6 DEF StoreInv, TablesSynced, WhollySynced, Made, Found
<1>14. HistoryRight(fs)'
  <2>1. \A d \in Dirs(fs') : d.current > 1
    BY <1>7, <1>8
  <2>. QED
    BY <1>1, <1>2, <1>6, <1>10, <2>1 DEF StoreInv, HistoryRight
<1>15. AtMost(fs, Begun(fs))' /\ AtLeast(fs, Promised)'
  <2>1. AtMost(fs', Begun(fs)') /\ AtLeast(fs', Promised')
    BY <1>6, <1>9, <1>10 DEF StoreInv
  <2>. QED
    BY <2>1 DEF AtMost, AtLeast, Survivors, FindsOnly, Finds
<1>. QED
  BY <1>1, <1>6, <1>10, <1>11, <1>12, <1>13, <1>14, <1>15 DEF StoreInv, SameStore

\* The write is acknowledged.
LEMMA InsertIntoStore ==
    ASSUME Inv, StoreInv(fs), InsertInto
    PROVE  /\ StoreInv(fs)'
           /\ phase = "up" /\ phase' = "up" /\ writer.batch.id \in limbo /\ writer.batch.id \in 1 .. written
           /\ Holds(fs)' = Holds(fs) \cup {writer.batch.id}
           /\ limbo' = limbo \ {writer.batch.id}
           /\ safe' = IF writer.sync THEN safe \cup {writer.batch.id} ELSE safe
           /\ writer.sync \in BOOLEAN
<1>. DEFINE id == writer.batch.id
<1>1. /\ writer.step # "idle" /\ phase = "up" /\ mem' = Append(mem, writer.batch) /\ writer' = NoWrite
      /\ writer.batch \in Batch /\ mem \in Seq(Batch) /\ writer.sync \in BOOLEAN
      /\ writer.step = (IF writer.sync THEN "synced" ELSE "logged")
      /\ limbo' = limbo \ {id}
      /\ safe' = IF writer.sync THEN safe \cup {id} ELSE safe
      /\ UNCHANGED <<fs, phase, imm, logNumber, version, versionLog, manifest, toRecover, recovered,
                     written, hidden, errors, bgError, flush, comp, apply>>
  BY WorkIsUp, NothingTyped DEF InsertInto, Inv, Typed, TypedMemory, TypedWork, WriteRecord,
     recoveryVars, boundVars
<1>2. Range1(mem') = Range1(mem) \cup {writer.batch} /\ Writing = {writer.batch} /\ Writing' = {}
  <2>1. mem' = mem \o <<writer.batch>>
    BY <1>1, AppendIsConcat
  <2>. QED
    BY <1>1, <2>1, OneMore, NothingTyped DEF Writing
<1>3. limbo = {id} /\ limbo' = {} /\ id \in 1 .. written
  <2>1. limbo = {id}
    BY <1>2, IdsOf DEF StoreInv, HistoryRight
  <2>. QED
    BY <1>1, <2>1 DEF Inv, Typed, TypedHistory
<1>4. Promised' = Promised
  <2>1. CASE writer.sync
    BY <1>1, <2>1, NothingTyped DEF Promised
  <2>2. CASE ~writer.sync
    BY <1>1, <2>2, NothingTyped DEF Promised
  <2>. QED
    BY <2>1, <2>2
<1>5. Holds(fs)' = Holds(fs) \cup {id} /\ Begun(fs)' = Begun(fs)
  <2>1. Shown(fs)' = Shown(fs) \cup {writer.batch}
    BY <1>1, <1>2 DEF Shown
  <2>2. Ids(Shown(fs))' = Ids(Shown(fs)) \cup {id}
    BY <2>1 DEF Ids
  <2>. QED
    BY <1>1, <1>3, <2>2 DEF Holds, Begun
<1>6. Untorn(fs)' /\ ErrorFree'
  BY <1>1 DEF StoreInv, Untorn, ErrorFree
<1>7. LogsHeld(fs)' /\ RecoveryHeld(fs)'
  BY <1>1, <1>2 DEF StoreInv, LogsHeld, RecoveryHeld, Found
<1>8. TablesSynced(fs)'
  BY <1>1 DEF StoreInv, TablesSynced, WhollySynced, Made, Found
<1>9. HistoryRight(fs)'
  BY <1>1, <1>2, <1>3, <1>4, <1>5, IdsOf DEF StoreInv, HistoryRight
<1>10. AtMost(fs, Begun(fs))' /\ AtLeast(fs, Promised)'
  <2>1. AtMost(fs', Begun(fs)') /\ AtLeast(fs', Promised')
    BY <1>1, <1>4, <1>5 DEF StoreInv
  <2>. QED
    BY <2>1 DEF AtMost, AtLeast, Survivors, FindsOnly, Finds
<1>. QED
  BY <1>1, <1>3, <1>5, <1>6, <1>7, <1>8, <1>9, <1>10 DEF StoreInv

LEMMA SyncManifestStore ==
    ASSUME MaxErrors = 0, Inv, Inv', KeepsInv(fs), StoreInv(fs), SyncManifest
    PROVE  StoreInv(fs)' /\ SameStore
<1>1. /\ apply.step = "sync" /\ apply \in ApplyRecord /\ fs' = Sync(fs, Descriptor)
      /\ apply'.step \in {"current", "install"} /\ flush' = flush /\ comp' = comp
      /\ UNCHANGED QuietVars
  BY NoFail DEF SyncManifest, QuietVars, memoryVars, versionVars, recoveryVars, historyVars, boundVars,
     Inv, Typed, TypedWork, ApplyRecord
<1>2. /\ phase \in {"up", "opening"} /\ (phase = "opening" <=> apply.for = "open") /\ manifest \in Nat
  BY <1>1, NothingTyped DEF Inv, Steps, Typed, TypedMemory, TypedVersion, TypedWork, ApplyRecord
<1>3. DiskInv(fs) /\ DiskInv(fs') /\ Typed /\ Steps /\ ProcessInv(fs) /\ DiskTyped(fs) /\ DirsRight(fs)
  BY DEF Inv, DiskInv
<1>4. Descriptor \in Dir(fs).names
  <2>1. CASE phase = "opening"
    BY <1>1, <1>2, <1>3, <2>1 DEF ProcessInv, EditWritten, FileExists, Descriptor
  <2>2. CASE phase = "up"
    <3>1. Dir(fs).current = manifest /\ Dir(fs) \in Dirs(fs) /\ Dir(fs).current > 0
      BY <1>3, <2>2, DirParts DEF ProcessInv, Numbers, DiskTyped
    <3>. QED
      BY <1>2, <1>3, <3>1 DEF DirsRight, Descriptor
  <2>. QED
    BY <1>2, <2>1, <2>2
<1>5. Touches(fs, fs', Descriptor) /\ Harmless(fs, fs', Descriptor) /\ Forwards(fs, fs', Descriptor)
  BY <1>1, <1>3, <1>4, SyncHarmless, SyncForwards DEF StoreInv
<1>6. StoreInv(fs') /\ Holds(fs') = Holds(fs)
  BY <1>2, <1>3, <1>5, HarmlessStore
<1>7. Made' = Made
  BY <1>1 DEF Made, Found, QuietVars
<1>8. StoreInv(fs)' /\ Holds(fs)' = Holds(fs')
  BY <1>1, <1>6, <1>7, QuietStore
<1>. QED
  BY <1>1, <1>6, <1>8 DEF SameStore, QuietVars

\* A manifest that can be read, and that no append has damaged, is what recovery reads.
LEMMA ManifestWhole ==
    ASSUME NEW D, DiskInv(D), Untorn(D), Readable(D)
    PROVE  /\ Dir(D).current \in Currents(D) /\ Edits(D) = EditsIn(D, Dir(D).current)
           /\ Edits(D) \in Survivors(D, Dir(D).current) /\ Edits(D) \in Seq(EditRecord)
           /\ LastEdit(D) = Edits(D)[Len(Edits(D))]
<1>. DEFINE c == Dir(D).current
            s == EditsIn(D, c)
<1>1. /\ DiskTyped(D) /\ DirsRight(D) /\ c \in Currents(D) /\ c \in Nat
      /\ DescriptorFile(c) \in Files(D)
  BY LastEditFacts, CurrentFacts DEF DiskInv
<1>2. /\ s \in Seq(EditRecord \cup {TornEdit}) /\ DOMAIN s = 1 .. Len(s) /\ Len(s) \in Nat
      /\ TornEdit \notin Range1(s)
  BY <1>1, CurrentFacts DEF Untorn
<1>3. Edits(D) = Complete(s)
  BY EditsComplete
<1>4. Edits(D) = s
  <2>. HIDE DEF s
  <2>1. CASE s = <<>>
    BY <1>3, <2>1 DEF Complete
  <2>2. CASE s # <<>>
    <3>1. Len(s) \in 1 .. Len(s)
      BY <1>2, <2>2, EmptySeq
    <3>2. s[Len(s)] # TornEdit
      BY <1>2, <3>1 DEF Range1
    <3>. QED
      BY <1>2, <1>3, <2>2, <3>2, CompletePrefix
  <2>. QED
    BY <2>1, <2>2
<1>5. Edits(D) # <<>> /\ Edits(D)[Len(Edits(D))].numbers
  BY DEF Readable
<1>6. s \in Survivors(D, c)
  BY <1>1, <1>2, <1>4, <1>5, WholeIsSurvivor
<1>7. s \in Seq(EditRecord)
  BY <1>6 DEF Survivors
<1>. QED
  BY <1>1, <1>4, <1>6, <1>7 DEF LastEdit

\* The current manifest gets the edit that is being applied.
LEMMA AppendedFacts ==
    ASSUME Inv, apply.step = "append", phase = "up",
           NEW E, E = AddRecords(fs, Descriptor, <<apply.edit>>)
    PROVE  /\ DiskTyped(E) /\ DirsRight(E) /\ SameData(fs, E)
           /\ Dir(E) = Dir(fs) /\ Dirs(E) = Dirs(fs) /\ Dir(fs).current = manifest
           /\ manifest \in Currents(fs) /\ manifest \in Nat
           /\ \A g \in Files(fs) : g # Descriptor => E.files[g] = fs.files[g]
           /\ EditsIn(E, manifest) = EditsIn(fs, manifest) \o <<apply.edit>>
           /\ Synced(E, Descriptor) = Synced(fs, Descriptor)
           /\ Named(E) \subseteq Named(fs) \cup version \cup apply.edit.added
           /\ apply.edit \in EditRecord /\ apply.edit.numbers
<1>. DEFINE e == apply.edit
<1>1. DiskInv(fs) /\ Typed /\ Steps /\ ProcessInv(fs) /\ DiskTyped(fs) /\ DirsRight(fs)
  BY DEF Inv, DiskInv
<1>2. Dir(fs).current = manifest /\ manifest \in Currents(fs) /\ manifest \in Nat
  BY <1>1, CurrentOfDir DEF ProcessInv, Numbers, Typed, TypedVersion
<1>3. EditRight(fs) /\ EditAhead(fs, manifest, version, e) /\ e \in EditRecord /\ e.numbers
  BY <1>1 DEF ProcessInv, EditRight, EditAhead
<1>4. /\ DiskTyped(E) /\ DirsRight(E) /\ SameData(fs, E) /\ Dir(E) = Dir(fs)
      /\ Gains(fs, E, manifest, version, e)
      /\ EditsIn(E, manifest) = EditsIn(fs, manifest) \o <<e>>
  <2>1. apply.edit \in {apply.edit, TornEdit}
    OBVIOUS
  <2>. QED
    BY <1>1, <2>1, AppendStep
<1>5. Named(E) \subseteq Named(fs) \cup version \cup e.added
  BY <1>1, <1>3, <1>4, GainsKeep DEF DiskInv
<1>6. /\ Dirs(E) = Dirs(fs) /\ Synced(E, Descriptor) = Synced(fs, Descriptor)
      /\ \A g \in Files(fs) : g # Descriptor => E.files[g] = fs.files[g]
  <2>. DEFINE u == <<e>>
  <2>1. /\ Descriptor \in Files(fs) /\ Item(Descriptor) = EditRecord \cup {TornEdit}
    BY <1>1, <1>2, CurrentFacts, FileTypes DEF Item, Descriptor
  <2>2. u \in Seq(Item(Descriptor)) /\ E = AddRecords(fs, Descriptor, u)
    BY <1>3, <2>1
  <2>. HIDE DEF u
  <2>3. Dirs(E) = Dirs(fs)
    BY <1>1, <2>1, <2>2, AddRecordsDisk, SMTT(30)
  <2>4. Synced(E, Descriptor) = Synced(fs, Descriptor)
    BY <1>1, <2>1, <2>2, AddRecordsDisk, SMTT(30)
  <2>5. \A g \in Files(fs) : g # Descriptor => E.files[g] = fs.files[g]
    BY <1>1, <2>1, <2>2, AddRecordsDisk, SMTT(30)
  <2>. QED
    BY <2>3, <2>4, <2>5
<1>. QED
  BY <1>2, <1>3, <1>4, <1>5, <1>6

\* What may be left of it has the edit at its end, or is what could be left before.
LEMMA AppendedSurvivors ==
    ASSUME Inv, apply.step = "append", phase = "up",
           NEW E, E = AddRecords(fs, Descriptor, <<apply.edit>>),
           NEW c \in Currents(fs), NEW s \in Survivors(E, c)
    PROVE  \/ s \in Survivors(fs, c)
           \/ c = manifest /\ s = EditsIn(fs, manifest) \o <<apply.edit>>
<1>. DEFINE S == EditRecord \cup {TornEdit}
            old == EditsIn(fs, manifest)
            e == apply.edit
<1>1. /\ DiskTyped(fs) /\ DirsRight(fs) /\ manifest \in Currents(fs) /\ manifest \in Nat
      /\ \A g \in Files(fs) : g # Descriptor => E.files[g] = fs.files[g]
      /\ EditsIn(E, manifest) = old \o <<e>>
      /\ Synced(E, Descriptor) = Synced(fs, Descriptor) /\ e \in EditRecord
  BY AppendedFacts DEF Inv, DiskInv
<1>2. /\ s \in Seq(EditRecord) /\ s # <<>> /\ s[Len(s)].numbers /\ Prefix(s, EditsIn(E, c))
      /\ Synced(E, DescriptorFile(c)) <= Len(s)
  BY DEF Survivors, Survives
<1>3. CASE c # manifest
  <2>1. c \in Nat /\ DescriptorFile(c) \in Files(fs) /\ DescriptorFile(c) # Descriptor
    BY <1>1, <1>3, CurrentFacts, FilesDiffer DEF Descriptor
  <2>2. E.files[DescriptorFile(c)] = fs.files[DescriptorFile(c)]
    BY <1>1, <2>1
  <2>. QED
    BY <2>2 DEF Survivors, Survives, EditsIn, Records, Synced
<1>4. CASE c = manifest
  <2>1. old \in Seq(S) /\ s \in Seq(S) /\ e \in S
    BY <1>1, <1>2, CurrentFacts
  <2>2. Prefix(s, old \o <<e>>)
    BY <1>1, <1>2, <1>4
  <2>3. Prefix(s, old) \/ s = old \o <<e>>
    <3>. HIDE DEF old, S, e
    <3>. QED
      BY <2>1, <2>2, LongerPrefix
  <2>4. ASSUME Prefix(s, old) PROVE s \in Survivors(fs, c)
    BY <1>1, <1>2, <1>4, <2>4 DEF Survivors, Survives, Descriptor
  <2>. QED
    BY <1>4, <2>3, <2>4
<1>. QED
  BY <1>3, <1>4

\* What the edit of a flush or a compaction does.
LEMMA EditMeans ==
    ASSUME Inv, phase = "up", apply.step # "none"
    PROVE  /\ versionLog <= apply.edit.log /\ versionLog \in Nat /\ apply.edit.log \in Nat
           /\ \A t \in apply.edit.added : t \in Nat /\ FileExists(fs, TableFile(t))
           /\ \/ /\ flush.step = "apply" /\ apply.for = "flush"
                 /\ apply.edit.added = {flush.out} /\ apply.edit.deleted = {}
                 /\ apply.edit.log = logNumber
                 /\ ReadTable(fs, flush.out) = Range1(imm)
              \/ /\ comp.step = "apply" /\ apply.for = "compaction"
                 /\ apply.edit.added = {comp.out} /\ apply.edit.deleted = comp.inputs
                 /\ apply.edit.log = versionLog /\ comp.inputs \subseteq version
                 /\ ReadTable(fs, comp.out) = UNION {ReadTable(fs, t) : t \in comp.inputs}
<1>1. DiskTyped(fs) /\ Typed /\ Steps /\ ProcessInv(fs) /\ EditRight(fs) /\ OutputsWritten(fs) /\ Outputs(fs)
  BY DEF Inv, DiskInv, ProcessInv
<1>2. apply.for \in {"none", "open", "flush", "compaction"} /\ versionLog \in Nat
  BY <1>1 DEF Typed, TypedWork, TypedVersion, ApplyRecord
<1>3. apply.edit \in EditRecord /\ versionLog <= apply.edit.log
  BY <1>1 DEF EditRight, EditAhead
<1>4. \A t \in apply.edit.added : t \in Nat /\ FileExists(fs, TableFile(t))
  BY <1>1, AddingShown
<1>5. CASE apply.for = "flush"
  BY <1>1, <1>2, <1>3, <1>4, <1>5 DEF EditRight, Steps, OutputsWritten, EditRecord
<1>6. CASE apply.for = "compaction"
  BY <1>1, <1>2, <1>3, <1>4, <1>6 DEF EditRight, Steps, OutputsWritten, Outputs, EditRecord
<1>7. apply.for # "none" /\ apply.for # "open"
  BY <1>1 DEF Steps
<1>. QED
  BY <1>2, <1>5, <1>6, <1>7

\* A log that the version may need holds what is in memory.
LEMMA LogsBegun ==
    ASSUME Inv, StoreInv(fs), phase = "up", NEW n \in Nat, versionLog <= n, LogFile(n) \in Files(fs)
    PROVE  /\ Ids(ReadLog(fs, n)) \subseteq Begun(fs)
           /\ n < logNumber => ReadLog(fs, n) \subseteq Range1(imm)
<1>1. /\ n <= logNumber /\ logNumber \in Nat
      /\ n = logNumber => ReadLog(fs, n) \subseteq Range1(mem) \cup Writing
      /\ n < logNumber => ReadLog(fs, n) \subseteq Range1(imm)
  BY DEF StoreInv, LogsHeld, Inv, Typed, TypedMemory
<1>2. /\ Range1(mem) \cup Range1(imm) \subseteq Shown(fs) /\ Ids(Writing) = limbo
      /\ Holds(fs) = Ids(Shown(fs))
  BY DEF Shown, StoreInv, HistoryRight, Holds
<1>3. Ids(Range1(mem) \cup Writing) \subseteq Begun(fs) /\ Ids(Range1(imm)) \subseteq Begun(fs)
  <2>1. Ids(Range1(mem)) \subseteq Ids(Shown(fs)) /\ Ids(Range1(imm)) \subseteq Ids(Shown(fs))
    BY <1>2, IdsOf
  <2>2. Ids(Range1(mem) \cup Writing) = Ids(Range1(mem)) \cup Ids(Writing)
    BY IdsOf
  <2>. QED
    BY <1>2, <2>1, <2>2 DEF Begun
<1>4. n = logNumber \/ n < logNumber
  BY <1>1
<1>5. CASE n = logNumber
  BY <1>1, <1>3, <1>5, IdsOf
<1>6. CASE n < logNumber
  BY <1>1, <1>3, <1>6, IdsOf
<1>. QED
  BY <1>1, <1>4, <1>5, <1>6

\* The manifest before the edit.
LEMMA ManifestUp ==
    ASSUME Inv, KeepsInv(fs), StoreInv(fs), phase = "up"
    PROVE  LET old == EditsIn(fs, manifest)
           IN  /\ Readable(fs) /\ Dir(fs).current = manifest /\ manifest \in Currents(fs)
               /\ old \in Seq(EditRecord) /\ old \in Survivors(fs, manifest) /\ Edits(fs) = old
               /\ old[Len(old)] = LastEdit(fs)
               /\ versionLog <= LastEdit(fs).log
<1>1. DiskInv(fs) /\ ProcessInv(fs) /\ Dir(fs).current = manifest /\ manifest > 0 /\ DiskTyped(fs)
  BY DEF Inv, ProcessInv, Numbers, DiskInv
<1>2. manifest \in Nat /\ DescriptorFile(manifest) \in Files(fs)
  <2>1. Dir(fs) \in Dirs(fs) /\ manifest \in Nat
    BY <1>1, DirParts DEF DiskTyped
  <2>. QED
    BY <1>1, <2>1, CurrentOfDir, CurrentFacts DEF DiskInv
<1>3. TornEdit \notin Range1(EditsIn(fs, manifest))
  BY <1>2 DEF StoreInv, Untorn
<1>4. ~Damaged(fs)
  <2>1. Edits(fs) = Complete(EditsIn(fs, manifest))
    BY <1>1, EditsComplete
  <2>2. EditsIn(fs, manifest) \in Seq(EditRecord \cup {TornEdit})
    BY <1>1, <1>2, ReadTypes
  <2>. DEFINE s == EditsIn(fs, manifest)
  <2>. HIDE DEF s
  <2>3. Prefix(Complete(s), s)
    BY <2>2, CompletePrefix DEF s
  <2>4. Range1(Complete(s)) \subseteq Range1(s)
    BY <2>3 DEF Prefix, Range1
  <2>. QED
    BY <1>3, <2>1, <2>4 DEF Damaged, s
<1>5. Readable(fs)
  BY <1>4 DEF KeepsInv, ManifestKeeps
<1>6. versionLog <= LastEdit(fs).log
  BY <1>1, <1>4, <1>5 DEF ProcessInv, LogsGone, Readable, Damaged, LastEdit, Range1
<1>. QED
  BY <1>1, <1>5, <1>6, ManifestWhole DEF StoreInv

\* The manifest with the edit at its end.
LEMMA AppendedManifest ==
    ASSUME Inv, KeepsInv(fs), StoreInv(fs), apply.step = "append", phase = "up"
    PROVE  LET old == EditsIn(fs, manifest)
               new == old \o <<apply.edit>>
           IN  /\ new[Len(new)] = apply.edit
               /\ TablesOf(new) = (TablesOf(old) \ apply.edit.deleted) \cup apply.edit.added
               /\ Range1(new) = Range1(old) \cup {apply.edit}
<1>. DEFINE old == EditsIn(fs, manifest)
            e == apply.edit
<1>1. old \in Seq(EditRecord) /\ e \in EditRecord
  BY ManifestUp, AppendedFacts
<1>. HIDE DEF old, e
<1>2. /\ Len(old \o <<e>>) = Len(old) + 1 /\ (old \o <<e>>)[Len(old) + 1] = e
      /\ Range1(old \o <<e>>) = Range1(old) \cup {e}
  BY <1>1, OneMore
<1>3. TablesOf(old \o <<e>>) = (TablesOf(old) \ e.deleted) \cup e.added
  BY <1>1, TablesAppended
<1>. QED
  BY <1>2, <1>3 DEF old, e

LEMMA AppendedAtMost ==
    ASSUME Inv, KeepsInv(fs), StoreInv(fs), apply.step = "append", phase = "up",
           NEW E, E = AddRecords(fs, Descriptor, <<apply.edit>>)
    PROVE  AtMost(E, Begun(fs))
<1>. DEFINE old == EditsIn(fs, manifest)
            new == old \o <<apply.edit>>
            A == Begun(fs)
<1>1. /\ DiskTyped(fs) /\ DirsRight(fs) /\ Typed /\ ProcessInv(fs)
  BY DEF Inv, DiskInv
<1>2. /\ SameData(fs, E) /\ Dirs(E) = Dirs(fs) /\ Files(E) = Files(fs) /\ manifest \in Nat
      /\ Dir(fs).current = manifest /\ Dir(fs) \in Dirs(fs)
  BY <1>1, AppendedFacts, DirParts DEF SameData, DiskTyped
<1>3. /\ \A n \in Nat : LogFile(n) \in Files(fs) => ReadLog(E, n) = ReadLog(fs, n)
      /\ \A t \in Nat : TableFile(t) \in Files(fs) => ReadTable(E, t) = ReadTable(fs, t)
  BY <1>2 DEF SameData, ReadLog, ReadTable
<1>. SUFFICES ASSUME NEW d \in Dirs(fs), d.current # 0, NEW s \in Survivors(E, d.current)
              PROVE  FindsOnly(E, d, s, A)
  BY <1>2 DEF AtMost
<1>4. /\ d.current \in Currents(fs) /\ d.names \subseteq Files(fs)
  BY <1>1, DirParts DEF Currents, DiskTyped, DirsTyped
<1>5. CASE s \in Survivors(fs, d.current)
  <2>1. FindsOnly(fs, d, s, A)
    BY <1>5 DEF StoreInv, AtMost
  <2>2. TablesOf(s) \subseteq Nat
    BY <1>1, <1>4, <1>5, SurvivorFacts
  <2>. QED
    BY <1>2, <1>3, <1>4, <2>1, <2>2 DEF FindsOnly
<1>6. CASE d.current = manifest /\ s = new
  <2>1. old \in Survivors(fs, manifest) /\ TablesOf(old) \subseteq Nat
    BY <1>1, <1>4, <1>6, ManifestUp, SurvivorFacts
  <2>2. /\ s[Len(s)].log = apply.edit.log
        /\ TablesOf(s) \subseteq TablesOf(old) \cup apply.edit.added
    BY <1>6, AppendedManifest
  <2>3. \A t \in TablesOf(old) : TableFile(t) \in Files(fs) => Ids(ReadTable(fs, t)) \subseteq A
    BY <1>6, <2>1 DEF StoreInv, AtMost, FindsOnly
  <2>4. ASSUME NEW t \in apply.edit.added
        PROVE  t \in Nat /\ Ids(ReadTable(fs, t)) \subseteq A
    <3>1. t \in Nat /\ ReadTable(fs, t) \subseteq Shown(fs)
      BY EditMeans DEF Shown
    <3>. QED
      BY <3>1, IdsOf DEF Begun, Holds
  <2>5. \A t \in TablesOf(s) : TableFile(t) \in Files(E) => Ids(ReadTable(E, t)) \subseteq A
    BY <1>2, <1>3, <2>1, <2>2, <2>3, <2>4
  <2>6. ASSUME NEW n \in Nat, s[Len(s)].log <= n, LogFile(n) \in d.names
        PROVE  Ids(ReadLog(E, n)) \subseteq A
    <3>1. LogFile(n) \in Files(fs) /\ versionLog <= n
      BY <1>4, <2>2, <2>6, EditMeans
    <3>. QED
      BY <1>3, <3>1, LogsBegun
  <2>. QED
    BY <2>5, <2>6 DEF FindsOnly
<1>. QED
  BY <1>4, <1>5, <1>6, AppendedSurvivors

LEMMA AppendedAtLeast ==
    ASSUME Inv, KeepsInv(fs), NamesInv(fs), StoreInv(fs), apply.step = "append", phase = "up",
           NEW E, E = AddRecords(fs, Descriptor, <<apply.edit>>)
    PROVE  AtLeast(E, Promised)
<1>. DEFINE old == EditsIn(fs, manifest)
            new == old \o <<apply.edit>>
<1>1. /\ DiskTyped(fs) /\ DirsRight(fs) /\ Typed /\ ProcessInv(fs)
  BY DEF Inv, DiskInv
<1>2. /\ SameData(fs, E) /\ Dirs(E) = Dirs(fs) /\ Files(E) = Files(fs) /\ manifest \in Nat
      /\ \A g \in Files(fs) : g # Descriptor => E.files[g] = fs.files[g]
  BY <1>1, AppendedFacts DEF SameData
<1>3. /\ \A n \in Nat : LogFile(n) \in Files(fs) => SyncedLog(E, n) = SyncedLog(fs, n)
      /\ \A t \in Nat : TableFile(t) \in Files(fs) => ReadTable(E, t) = ReadTable(fs, t)
  <2>1. \A n \in Nat : LogFile(n) # Descriptor /\ TableFile(n) # Descriptor
    BY <1>2, FilesDiffer DEF Descriptor
  <2>2. \A g \in Files(fs) : g # Descriptor => Records(E, g) = Records(fs, g) /\ Synced(E, g) = Synced(fs, g)
    BY <1>2 DEF Records, Synced
  <2>. QED
    BY <2>1, <2>2 DEF SyncedLog, ReadTable
<1>. SUFFICES ASSUME NEW d \in Dirs(fs), d.current # 0, NEW s \in Survivors(E, d.current),
                     NEW w \in Promised
              PROVE  Finds(E, d, s, w)
  BY <1>2 DEF AtLeast
<1>4. /\ d.current \in Currents(fs) /\ d.names \subseteq Files(fs)
  BY <1>1, DirParts DEF Currents, DiskTyped, DirsTyped
<1>5. CASE s \in Survivors(fs, d.current)
  <2>1. Finds(fs, d, s, w)
    BY <1>5 DEF StoreInv, AtLeast
  <2>2. TablesOf(s) \subseteq Nat
    BY <1>1, <1>4, <1>5, SurvivorFacts
  <2>. QED
    BY <1>3, <1>4, <2>1, <2>2 DEF Finds
<1>6. CASE d.current = manifest /\ s = new
  <2>1. old \in Survivors(fs, manifest) /\ TablesOf(old) \subseteq Nat /\ old[Len(old)] = LastEdit(fs)
        /\ versionLog <= LastEdit(fs).log /\ LastEdit(fs).log \in Nat
    BY <1>1, <1>4, <1>6, ManifestUp, SurvivorFacts
  <2>2. /\ s[Len(s)].log = apply.edit.log
        /\ TablesOf(s) = (TablesOf(old) \ apply.edit.deleted) \cup apply.edit.added
    BY <1>6, AppendedManifest
  <2>3. Finds(fs, d, old, w)
    BY <1>6, <2>1 DEF StoreInv, AtLeast
  <2>4. ASSUME NEW t \in apply.edit.added, w \in Ids(ReadTable(fs, t)), Forced(fs, t)
        PROVE  Finds(E, d, s, w)
    <3>1. t \in Nat /\ TableFile(t) \in d.names
      BY <2>4, EditMeans DEF Forced
    <3>2. ReadTable(E, t) = ReadTable(fs, t) /\ t \in TablesOf(s)
      BY <1>3, <1>4, <2>2, <3>1
    <3>. QED
      BY <2>4, <3>1, <3>2 DEF Finds
  <2>5. ASSUME NEW t \in TablesOf(old), TableFile(t) \in d.names, w \in Ids(ReadTable(fs, t))
        PROVE  Finds(E, d, s, w)
    <3>1. CASE t \notin apply.edit.deleted
      <4>1. t \in TablesOf(s) /\ ReadTable(E, t) = ReadTable(fs, t)
        BY <1>3, <1>4, <2>1, <2>2, <2>5, <3>1
      <4>. QED
        BY <2>5, <4>1 DEF Finds
    <3>2. CASE t \in apply.edit.deleted
      <4>1. /\ comp.step = "apply" /\ comp.out \in apply.edit.added
            /\ ReadTable(fs, t) \subseteq ReadTable(fs, comp.out)
        BY <3>2, EditMeans
      <4>2. Forced(fs, comp.out)
        BY <4>1 DEF NamesInv, OutputsForced
      <4>3. w \in Ids(ReadTable(fs, comp.out))
        BY <2>5, <4>1, IdsOf
      <4>. QED
        BY <2>4, <4>1, <4>2, <4>3
    <3>. QED
      BY <3>1, <3>2
  <2>6. ASSUME NEW n \in Nat, old[Len(old)].log <= n, LogFile(n) \in d.names,
               w \in Ids(SyncedLog(fs, n))
        PROVE  Finds(E, d, s, w)
    <3>1. LogFile(n) \in Files(fs) /\ versionLog <= n
      BY <1>4, <2>1, <2>6, EditMeans
    <3>2. CASE apply.edit.log <= n
      BY <1>3, <2>2, <2>6, <3>1, <3>2 DEF Finds
    <3>3. CASE ~(apply.edit.log <= n)
      <4>1. /\ flush.step = "apply" /\ apply.edit.added = {flush.out} /\ n < logNumber
            /\ ReadTable(fs, flush.out) = Range1(imm)
        BY <3>1, <3>3, EditMeans
      <4>2. SyncedLog(fs, n) \subseteq ReadLog(fs, n)
        <5>1. Torn \notin Range1(Records(fs, LogFile(n)))
          BY <3>1 DEF StoreInv, Untorn
        <5>2. /\ DOMAIN Records(fs, LogFile(n)) = 1 .. Len(Records(fs, LogFile(n)))
              /\ Synced(fs, LogFile(n)) <= Len(Records(fs, LogFile(n)))
              /\ Synced(fs, LogFile(n)) \in Nat /\ Len(Records(fs, LogFile(n))) \in Nat
          BY <1>1, <3>1, FileParts DEF DiskTyped
        <5>3. 1 .. Synced(fs, LogFile(n)) \subseteq DOMAIN Records(fs, LogFile(n))
          BY <5>2
        <5>4. \A j \in DOMAIN Records(fs, LogFile(n)) : \A k \in 1 .. j : k \in DOMAIN Records(fs, LogFile(n))
          BY <5>2
        <5>. QED
          BY <5>1, <5>3, <5>4 DEF SyncedLog, ReadLog, Range1
      <4>3. ReadLog(fs, n) \subseteq Range1(imm)
        BY <3>1, <4>1, LogsBegun
      <4>4. w \in Ids(ReadTable(fs, flush.out))
        BY <2>6, <4>1, <4>2, <4>3, IdsOf
      <4>5. Forced(fs, flush.out)
        BY <4>1 DEF NamesInv, OutputsForced
      <4>. QED
        BY <2>4, <4>1, <4>4, <4>5
    <3>. QED
      BY <3>2, <3>3
  <2>. QED
    BY <2>3, <2>5, <2>6 DEF Finds
<1>. QED
  BY <1>4, <1>5, <1>6, AppendedSurvivors

LEMMA AppendedStore ==
    ASSUME Inv, KeepsInv(fs), NamesInv(fs), StoreInv(fs), apply.step = "append", phase = "up",
           NEW E, E = AddRecords(fs, Descriptor, <<apply.edit>>)
    PROVE  StoreInv(E) /\ Holds(E) = Holds(fs)
<1>. DEFINE old == EditsIn(fs, manifest)
            new == old \o <<apply.edit>>
<1>1. /\ DiskTyped(fs) /\ DirsRight(fs) /\ Typed /\ ProcessInv(fs)
  BY DEF Inv, DiskInv
<1>2. /\ SameData(fs, E) /\ Dirs(E) = Dirs(fs) /\ Files(E) = Files(fs) /\ manifest \in Nat
      /\ \A g \in Files(fs) : g # Descriptor => E.files[g] = fs.files[g]
      /\ EditsIn(E, manifest) = new /\ apply.edit \in EditRecord
      /\ Named(E) \subseteq Named(fs) \cup version \cup apply.edit.added
  BY <1>1, AppendedFacts DEF SameData
<1>3. /\ \A n \in Nat : LogFile(n) # Descriptor /\ TableFile(n) # Descriptor
      /\ \A n \in Nat : n # manifest => DescriptorFile(n) # Descriptor
  BY <1>2, FilesDiffer DEF Descriptor
<1>4. \A g \in Files(fs) : g # Descriptor => Records(E, g) = Records(fs, g) /\ Synced(E, g) = Synced(fs, g)
  BY <1>2 DEF Records, Synced
<1>5. /\ \A n \in Nat : LogFile(n) \in Files(fs) => ReadLog(E, n) = ReadLog(fs, n)
      /\ \A t \in Nat : TableFile(t) \in Files(fs) => ReadTable(E, t) = ReadTable(fs, t)
  BY <1>3, <1>4 DEF ReadLog, ReadTable
<1>6. Holds(E) = Holds(fs) /\ Begun(E) = Begun(fs)
  <2>1. \A t \in version : t \in Nat /\ TableFile(t) \in Files(fs)
    BY <1>1, DirParts DEF ProcessInv, InUse, FileExists, DiskTyped, DirsTyped, Typed, TypedVersion
  <2>2. \A t \in version : ReadTable(E, t) = ReadTable(fs, t)
    BY <1>5, <2>1
  <2>3. Shown(E) = Shown(fs)
    BY <2>2 DEF Shown
  <2>. QED
    BY <2>3 DEF Holds, Begun
<1>7. Untorn(E)
  <2>1. ASSUME NEW n \in Nat, LogFile(n) \in Files(E)
        PROVE  Torn \notin Range1(Records(E, LogFile(n)))
    BY <1>2, <1>3, <1>4, <2>1 DEF StoreInv, Untorn
  <2>2. ASSUME NEW c \in Nat, DescriptorFile(c) \in Files(E), c # manifest
        PROVE  TornEdit \notin Range1(EditsIn(E, c))
    BY <1>2, <1>3, <1>4, <2>2 DEF StoreInv, Untorn, EditsIn
  <2>3. ASSUME DescriptorFile(manifest) \in Files(E)
        PROVE  TornEdit \notin Range1(EditsIn(E, manifest))
    <3>1. Range1(EditsIn(E, manifest)) = Range1(old) \cup {apply.edit}
      BY <1>2, AppendedManifest
    <3>2. TornEdit \notin Range1(old)
      BY <1>2, <2>3 DEF StoreInv, Untorn
    <3>. QED
      BY <1>2, <3>1, <3>2, EditsNotTorn
  <2>. QED
    BY <2>1, <2>2, <2>3 DEF Untorn
<1>8. LogsHeld(E)
  BY <1>2, <1>5 DEF StoreInv, LogsHeld
<1>9. RecoveryHeld(E)
  BY DEF StoreInv, RecoveryHeld, Found
<1>10. TablesSynced(E)
  <2>. SUFFICES ASSUME NEW t \in Made \cup Named(E), TableFile(t) \in Files(E)
                PROVE  WhollySynced(E, t)
    BY DEF TablesSynced
  <2>1. apply.edit.added \subseteq Made
    BY EditMeans DEF Made
  <2>2. t \in Made \cup Named(fs)
    BY <1>2, <2>1 DEF Made
  <2>3. t \in Nat
    BY <1>1, <2>2 DEF Made, Named, Found, Typed, TypedVersion, TypedWork, FlushRecord, CompactionRecord
  <2>. QED
    BY <1>2, <1>3, <1>4, <2>2, <2>3 DEF StoreInv, TablesSynced, WhollySynced
<1>11. HistoryRight(E)
  BY <1>2, <1>6 DEF StoreInv, HistoryRight
<1>12. AtMost(E, Begun(E)) /\ AtLeast(E, Promised)
  BY <1>6, AppendedAtMost, AppendedAtLeast
<1>. QED
  BY <1>6, <1>7, <1>8, <1>9, <1>10, <1>11, <1>12 DEF StoreInv

\* A new manifest that CURRENT does not name.
LEMMA NewManifestStore ==
    ASSUME Inv, KeepsInv(fs), StoreInv(fs), apply.step = "append", phase = "opening",
           NEW E, E = AddRecords(NewWritableFile(fs, Descriptor), Descriptor,
                                 <<Snapshot(version), apply.edit>>)
    PROVE  StoreInv(E) /\ Holds(E) = Holds(fs)
<1>. DEFINE two == <<Snapshot(version), apply.edit>>
<1>1. /\ DiskInv(fs) /\ DiskTyped(fs) /\ DirsRight(fs) /\ Typed /\ Steps /\ ProcessInv(fs)
      /\ apply \in ApplyRecord /\ manifest \in Nat
  BY DEF Inv, DiskInv, Typed, TypedVersion, TypedWork
<1>2. Snapshot(version) \in EditRecord /\ apply.edit \in EditRecord
  BY <1>1 DEF Snapshot, EditRecord, Typed, TypedVersion, ApplyRecord
<1>3. two \in Seq(EditRecord \cup {TornEdit}) /\ TornEdit \notin Range1(two)
  <2>1. two \in Seq(EditRecord \cup {TornEdit})
    BY <1>2
  <2>2. two[1] = Snapshot(version) /\ two[2] = apply.edit /\ DOMAIN two = 1 .. 2
    OBVIOUS
  <2>3. \A i \in DOMAIN two : two[i] # TornEdit
    BY <1>2, <2>2, EditsNotTorn
  <2>. QED
    BY <2>1, <2>3 DEF Range1
<1>4. E = AddRecords(NewWritableFile(fs, Descriptor), Descriptor, two)
  OBVIOUS
<1>. HIDE DEF two
<1>5. Touches(fs, E, Descriptor) /\ Records(E, Descriptor) = two /\ Harmless(fs, E, Descriptor)
  BY <1>1, <1>3, <1>4, NewManifestHarmless
<1>6. DiskInv(E)
  BY <1>1, <1>3, <1>4, NewManifestStep
<1>7. Forwards(fs, E, Descriptor)
  <2>1. \A c \in Currents(fs) : Descriptor # DescriptorFile(c)
    <3>. SUFFICES ASSUME NEW c \in Currents(fs) PROVE c # manifest /\ c \in Nat
      BY <1>1, FilesDiffer DEF Descriptor
    <3>1. c \in Nat /\ c <= Dir(fs).current /\ Dir(fs).current < manifest /\ Dir(fs).current \in Nat
      BY <1>1, CurrentFacts, DirParts DEF ProcessInv, Numbers, DiskTyped
    <3>. QED
      BY <1>1, <3>1
  <2>2. \A n \in Nat : LogFile(n) # Descriptor /\ TableFile(n) # Descriptor
    BY <1>1, FilesDiffer DEF Descriptor
  <2>3. Made \cup Named(fs) \subseteq Nat
    BY <1>1 DEF Made, Named, Found, Typed, TypedVersion, TypedWork, FlushRecord, CompactionRecord
  <2>4. \A c \in Nat : Descriptor = DescriptorFile(c) => TornEdit \notin Range1(EditsIn(E, c))
    BY <1>3, <1>5 DEF EditsIn
  <2>. QED
    BY <2>1, <2>2, <2>3, <2>4 DEF Forwards
<1>. QED
  BY <1>1, <1>5, <1>6, <1>7, HarmlessStore

LEMMA WriteManifestStore ==
    ASSUME MaxErrors = 0, Inv, Inv', KeepsInv(fs), NamesInv(fs), StoreInv(fs), WriteManifest
    PROVE  StoreInv(fs)' /\ SameStore
<1>1. /\ apply.step = "append" /\ apply \in ApplyRecord /\ flush' = flush /\ comp' = comp
      /\ fs' = (IF apply.for = "open"
                THEN AddRecords(NewWritableFile(fs, Descriptor), Descriptor,
                                <<Snapshot(version), apply.edit>>)
                ELSE AddRecords(fs, Descriptor, <<apply.edit>>))
      /\ apply' = [apply EXCEPT !.step = "sync"]
      /\ UNCHANGED QuietVars
  BY NoFail DEF WriteManifest, QuietVars, memoryVars, versionVars, recoveryVars, historyVars, boundVars,
     Inv, Typed, TypedWork
<1>2. /\ phase \in {"up", "opening"} /\ (phase = "opening" <=> apply.for = "open")
  BY <1>1, NothingTyped DEF Inv, Steps, Typed, TypedMemory, TypedVersion, TypedWork, ApplyRecord
<1>3. StoreInv(fs') /\ Holds(fs') = Holds(fs)
  <2>1. CASE phase = "opening"
    BY <1>1, <1>2, <2>1, NewManifestStore
  <2>2. CASE phase = "up"
    BY <1>1, <1>2, <2>2, AppendedStore
  <2>. QED
    BY <1>2, <2>1, <2>2
<1>4. Made' = Made /\ apply'.step = "sync"
  BY <1>1 DEF Made, Found, QuietVars, ApplyRecord
<1>5. StoreInv(fs)' /\ Holds(fs)' = Holds(fs')
  BY <1>1, <1>3, <1>4, QuietStore
<1>. QED
  BY <1>1, <1>3, <1>5 DEF SameStore, QuietVars

\* What a manifest that can be read leads to.
LEMMA FindsNow ==
    ASSUME NEW D, DiskInv(D), Untorn(D), Readable(D)
    PROVE  FindsOnly(D, Dir(D), Edits(D), Ids(Recoverable(D)))
<1>1. /\ TablesRead(D, Opened(D)) \subseteq Recoverable(D)
      /\ LoggedFrom(D, LastEdit(D).log) \subseteq Recoverable(D)
      /\ LastEdit(D) = Edits(D)[Len(Edits(D))] /\ DiskTyped(D)
  BY RecoverableIs, ManifestWhole DEF DiskInv
<1>2. ASSUME NEW t \in TablesOf(Edits(D))
      PROVE  Ids(ReadTable(D, t)) \subseteq Ids(Recoverable(D))
  <2>1. ReadTable(D, t) \subseteq Recoverable(D)
    BY <1>1 DEF TablesRead, Opened
  <2>. QED
    BY <2>1, IdsOf
<1>3. ASSUME NEW n \in Nat, Edits(D)[Len(Edits(D))].log <= n, LogFile(n) \in Dir(D).names
      PROVE  Ids(ReadLog(D, n)) \subseteq Ids(Recoverable(D))
  <2>1. ReadLog(D, n) \subseteq Batch
    BY <1>1, <1>3, DirParts, ReadTypes DEF DiskTyped, DirsTyped
  <2>2. ReadLog(D, n) \subseteq Recoverable(D)
    BY <1>1, <1>3, <2>1 DEF LoggedFrom, FileExists
  <2>. QED
    BY <2>2, IdsOf
<1>. QED
  BY <1>2, <1>3 DEF FindsOnly

\* What is forced of a log can be read.
LEMMA SyncedRead ==
    ASSUME NEW D, DiskTyped(D), Untorn(D), NEW n \in Nat, LogFile(n) \in Files(D)
    PROVE  SyncedLog(D, n) \subseteq ReadLog(D, n)
<1>1. Torn \notin Range1(Records(D, LogFile(n)))
  BY DEF Untorn
<1>2. /\ DOMAIN Records(D, LogFile(n)) = 1 .. Len(Records(D, LogFile(n)))
      /\ Synced(D, LogFile(n)) <= Len(Records(D, LogFile(n)))
      /\ Synced(D, LogFile(n)) \in Nat /\ Len(Records(D, LogFile(n))) \in Nat
  BY FileParts DEF DiskTyped
<1>3. 1 .. Synced(D, LogFile(n)) \subseteq DOMAIN Records(D, LogFile(n))
  BY <1>2
<1>4. \A j \in DOMAIN Records(D, LogFile(n)) : \A k \in 1 .. j : k \in DOMAIN Records(D, LogFile(n))
  BY <1>2
<1>. QED
  BY <1>1, <1>3, <1>4 DEF SyncedLog, ReadLog, Range1

LEMMA PromisedNow ==
    ASSUME NEW D, DiskInv(D), Untorn(D), Readable(D), NEW S, AtLeast(D, S)
    PROVE  S \subseteq Ids(Recoverable(D))
<1>. SUFFICES ASSUME NEW w \in S PROVE w \in Ids(Recoverable(D))
  OBVIOUS
<1>1. /\ TablesRead(D, Opened(D)) \subseteq Recoverable(D)
      /\ LoggedFrom(D, LastEdit(D).log) \subseteq Recoverable(D)
      /\ LastEdit(D) = Edits(D)[Len(Edits(D))] /\ DiskTyped(D)
      /\ Edits(D) \in Survivors(D, Dir(D).current)
      /\ Dir(D) \in Dirs(D) /\ Dir(D).names \subseteq Files(D)
  BY RecoverableIs, ManifestWhole, DirParts DEF DiskInv, DiskTyped, DirsTyped
<1>2. Finds(D, Dir(D), Edits(D), w)
  BY <1>1 DEF AtLeast, Readable
<1>3. ASSUME NEW t \in TablesOf(Edits(D)), w \in Ids(ReadTable(D, t))
      PROVE  w \in Ids(Recoverable(D))
  <2>1. ReadTable(D, t) \subseteq Recoverable(D)
    BY <1>1 DEF TablesRead, Opened
  <2>. QED
    BY <1>3, <2>1, IdsOf
<1>4. ASSUME NEW n \in Nat, Edits(D)[Len(Edits(D))].log <= n, LogFile(n) \in Dir(D).names,
             w \in Ids(SyncedLog(D, n))
      PROVE  w \in Ids(Recoverable(D))
  <2>1. SyncedLog(D, n) \subseteq ReadLog(D, n) /\ ReadLog(D, n) \subseteq Batch
    BY <1>1, <1>4, SyncedRead, ReadTypes
  <2>2. SyncedLog(D, n) \subseteq Recoverable(D)
    BY <1>1, <1>4, <2>1 DEF LoggedFrom, FileExists
  <2>. QED
    BY <1>4, <2>2, IdsOf
<1>. QED
  BY <1>2, <1>3, <1>4 DEF Finds

\* While the database is being opened the new log is empty.
LEMMA NewLogEmpty ==
    ASSUME NEW D, LogsHeld(D), Typed, Steps, phase = "opening", DiskTyped(D)
    PROVE  LoggedFrom(D, logNumber) = {}
<1>1. Range1(mem) = {} /\ Writing = {}
  BY EmptySeen, NothingTyped DEF Steps, Quiet, Writing
<1>. SUFFICES ASSUME NEW b \in Batch, NEW n \in Nat, logNumber <= n, FileExists(D, LogFile(n)),
                     b \in ReadLog(D, n)
              PROVE  FALSE
  BY DEF LoggedFrom
<1>2. LogFile(n) \in Files(D)
  BY DirParts DEF FileExists, DiskTyped, DirsTyped
<1>3. n <= logNumber /\ logNumber \in Nat
  BY <1>2 DEF LogsHeld, Typed, TypedMemory
<1>4. n = logNumber
  BY <1>3
<1>. QED
  BY <1>1, <1>2, <1>4 DEF LogsHeld

\* The tables that opening will show hold what the disk holds.
LEMMA OpeningReads ==
    ASSUME Inv, KeepsInv(fs), StoreInv(fs), phase = "opening"
    PROVE  Recoverable(fs) = TablesRead(fs, version \cup recovered)
<1>1. /\ DiskInv(fs) /\ DiskTyped(fs) /\ Steps /\ toRecover = {} /\ Readable(fs) /\ Found = recovered
  BY DEF Inv, DiskInv, Steps, KeepsInv, RecoveryKeeps, Found
<1>2. /\ TablesRead(fs, Opened(fs)) \subseteq Recoverable(fs)
      /\ LoggedFrom(fs, LastEdit(fs).log) \subseteq Recoverable(fs)
      /\ Recoverable(fs) \subseteq TablesRead(fs, Opened(fs)) \cup LoggedFrom(fs, LastEdit(fs).log)
  BY <1>1, RecoverableIs
<1>3. CASE apply.step = "install"
  <2>1. Opened(fs) = version \cup recovered
    BY <1>3 DEF KeepsInv, RecoveryKeeps
  <2>2. LastEdit(fs).log = logNumber
    <3>1. LastEdit(fs) = apply.edit
      BY <1>1, <1>3, EditInstalled DEF Inv
    <3>2. apply.for = "open"
      BY <1>1 DEF Steps
    <3>. QED
      BY <1>3, <3>1, <3>2 DEF Inv, ProcessInv, EditRight
  <2>3. LoggedFrom(fs, logNumber) = {}
    BY <1>1, NewLogEmpty DEF StoreInv, Inv
  <2>. QED
    BY <1>2, <2>1, <2>2, <2>3
<1>4. CASE apply.step # "install"
  <2>1. /\ Opened(fs) = version /\ LastEdit(fs).log = versionLog
        /\ \A m \in Nat : FileExists(fs, LogFile(m)) /\ versionLog <= m =>
              ReadLog(fs, m) \subseteq TablesRead(fs, version \cup recovered)
    BY <1>1, <1>4 DEF KeepsInv, RecoveryKeeps
  <2>2. LoggedFrom(fs, versionLog) \subseteq TablesRead(fs, version \cup recovered)
    BY <2>1 DEF LoggedFrom
  <2>3. TablesRead(fs, recovered) \subseteq Recoverable(fs)
    BY <1>1 DEF StoreInv, RecoveryHeld, TablesRead
  <2>4. TablesRead(fs, version \cup recovered) = TablesRead(fs, version) \cup TablesRead(fs, recovered)
    BY DEF TablesRead
  <2>. QED
    BY <1>2, <2>1, <2>2, <2>3, <2>4
<1>. QED
  BY <1>3, <1>4

\* CURRENT names the new manifest.
LEMMA WriteCurrentFacts ==
    ASSUME Inv, Inv', KeepsInv(fs), KeepsInv(fs)', NamesInv(fs), StoreInv(fs), WriteCurrent
    PROVE  /\ phase = "opening" /\ Found = recovered /\ DiskTyped(fs) /\ DirsRight(fs)
           /\ manifest \in Nat /\ manifest > 1
           /\ apply.step = "current" /\ apply'.step = "install" /\ flush' = flush /\ comp' = comp
           /\ UNCHANGED QuietVars
           /\ DiskInv(fs') /\ DiskTyped(fs') /\ DirsRight(fs') /\ Files(fs') = Files(fs)
           /\ \A g \in Files(fs) : Records(fs', g) = Records(fs, g) /\ Synced(fs', g) = Synced(fs, g)
           /\ Dir(fs').names = Dir(fs).names /\ Dir(fs').current = manifest
           /\ Dirs(fs') = Dirs(fs) \cup {Dir(fs')}
           /\ EditsIn(fs', manifest) = <<Snapshot(version), apply.edit>>
           /\ Synced(fs', DescriptorFile(manifest)) = Len(EditsIn(fs', manifest))
           /\ DescriptorFile(manifest) \in Files(fs)
           /\ apply.edit.added = recovered
           /\ Readable(fs') /\ Opened(fs') = version \cup recovered
<1>1. /\ apply.step = "current" /\ apply \in ApplyRecord /\ apply' = [apply EXCEPT !.step = "install"]
      /\ fs' = SetCurrentFile(fs, manifest) /\ flush' = flush /\ comp' = comp
      /\ UNCHANGED QuietVars
  BY DEF WriteCurrent, QuietVars, memoryVars, versionVars, recoveryVars, historyVars, boundVars,
         Inv, Typed, TypedWork
<1>2. apply.for = "open" /\ phase = "opening" /\ Found = recovered /\ manifest \in Nat
  BY <1>1 DEF Inv, Steps, Found, Typed, TypedVersion
<1>3. manifest > 1 /\ DiskTyped(fs) /\ DirsRight(fs) /\ DiskInv(fs') /\ DiskTyped(fs') /\ DirsRight(fs')
  BY <1>2 DEF StoreInv, RecoveryHeld, Inv, DiskInv
<1>4. /\ Files(fs') = Files(fs) /\ \A g \in Files(fs) : fs'.files[g] = fs.files[g]
      /\ Dir(fs').names = Dir(fs).names /\ Dir(fs').current = manifest
      /\ Dirs(fs') = Dirs(fs) \cup {Dir(fs')}
  BY <1>1, <1>2, <1>3, SetCurrentDisk
<1>5. /\ EditsIn(fs, manifest) = <<Snapshot(version), apply.edit>> /\ FileExists(fs, Descriptor)
      /\ apply.edit.added = recovered
      /\ Synced(fs, DescriptorFile(manifest)) = Len(EditsIn(fs, manifest))
  BY <1>1, <1>2 DEF Inv, ProcessInv, EditWritten, EditRight, NamesInv, EditSynced, Descriptor
<1>6. DescriptorFile(manifest) \in Files(fs)
  BY <1>3, <1>5, DirParts DEF FileExists, Descriptor, DiskTyped, DirsTyped
<1>7. \A g \in Files(fs) : Records(fs', g) = Records(fs, g) /\ Synced(fs', g) = Synced(fs, g)
  BY <1>4 DEF Records, Synced
<1>8. apply'.step = "install"
  BY <1>1 DEF ApplyRecord
<1>9. Readable(fs') /\ Opened(fs') = version \cup recovered
  BY <1>1, <1>2, <1>8 DEF KeepsInv, RecoveryKeeps, QuietVars
<1>. QED
  BY <1>1, <1>2, <1>3, <1>4, <1>5, <1>6, <1>7, <1>8, <1>9 DEF EditsIn

LEMMA CurrentHolds ==
    ASSUME Inv, Inv', KeepsInv(fs), KeepsInv(fs)', NamesInv(fs), StoreInv(fs), WriteCurrent
    PROVE  Recoverable(fs') = Recoverable(fs)
<1>1. /\ phase = "opening" /\ DiskInv(fs') /\ DiskTyped(fs) /\ Readable(fs') /\ Files(fs') = Files(fs)
      /\ Opened(fs') = version \cup recovered /\ Dir(fs').names = Dir(fs).names
      /\ \A g \in Files(fs) : Records(fs', g) = Records(fs, g)
      /\ apply'.step = "install" /\ logNumber' = logNumber
  BY WriteCurrentFacts DEF QuietVars
<1>2. LastEdit(fs').log = logNumber
  <2>1. LastEdit(fs') = apply'.edit /\ apply'.for = "open"
    <3>1. DiskTyped(fs') /\ Typed' /\ Steps' /\ ProcessInv(fs)'
      BY DEF Inv, DiskInv
    <3>2. apply.for = "open" /\ apply'.edit = apply.edit /\ apply'.for = apply.for /\ manifest' = manifest
          /\ apply.edit.log = logNumber
      BY <1>1 DEF Inv, Typed, TypedWork, Steps, ApplyRecord, WriteCurrent, versionVars, ProcessInv, EditRight
    <3>3. /\ EditsIn(fs', manifest) = <<Snapshot(version), apply.edit>>
          /\ Dir(fs').current = manifest /\ apply.edit \in EditRecord
      BY WriteCurrentFacts DEF Inv, Typed, TypedWork, ApplyRecord
    <3>4. Edits(fs') = EditsIn(fs', manifest)
      <4>1. Edits(fs') = Complete(EditsIn(fs', manifest))
        BY <3>3, EditsComplete
      <4>2. apply.edit # TornEdit /\ Last(<<Snapshot(version), apply.edit>>) = apply.edit
        BY <3>3, EditsNotTorn DEF Last
      <4>. QED
        BY <3>3, <4>1, <4>2 DEF Complete
    <3>. QED
      BY <3>2, <3>3, <3>4 DEF LastEdit
  <2>2. apply'.edit.log = logNumber
    BY <1>1, <2>1 DEF Inv, ProcessInv, EditRight
  <2>. QED
    BY <2>1, <2>2
<1>3. LoggedFrom(fs', logNumber) = {}
  <2>1. LoggedFrom(fs, logNumber) = {}
    BY <1>1, NewLogEmpty DEF StoreInv, Inv
  <2>2. \A n \in Nat : FileExists(fs', LogFile(n)) =>
           FileExists(fs, LogFile(n)) /\ ReadLog(fs', n) = ReadLog(fs, n)
    BY <1>1, DirParts DEF FileExists, ReadLog, DiskTyped, DirsTyped
  <2>. QED
    BY <2>1, <2>2 DEF LoggedFrom
<1>4. Recoverable(fs') = TablesRead(fs', version \cup recovered)
  BY <1>1, <1>2, <1>3, RecoverableIs
<1>5. \A t \in version \cup recovered : ReadTable(fs', t) = ReadTable(fs, t)
  <2>1. \A t \in version \cup recovered : TableFile(t) \in Files(fs)
    BY <1>1, DirParts DEF Inv, ProcessInv, InUse, Found, FileExists, DiskTyped, DirsTyped
  <2>. QED
    BY <1>1, <2>1 DEF ReadTable
<1>. QED
  BY <1>1, <1>4, <1>5, OpeningReads, SameTablesRead

\* Files as they were, in a directory that was there or in one that names a
\* manifest that is forced.
LEMMA SameFilesAtMost ==
    ASSUME NEW D, NEW E, DiskTyped(D), Files(E) = Files(D),
           \A g \in Files(D) : Records(E, g) = Records(D, g) /\ Synced(E, g) = Synced(D, g),
           NEW d, NEW s, NEW A, s \in Survivors(D, d.current), TablesOf(s) \subseteq Nat,
           d.names \subseteq Files(D), DescriptorFile(d.current) \in Files(D)
    PROVE  /\ s \in Survivors(E, d.current)
           /\ FindsOnly(D, d, s, A) <=> FindsOnly(E, d, s, A)
           /\ \A w : Finds(D, d, s, w) <=> Finds(E, d, s, w)
<1>1. EditsIn(E, d.current) = EditsIn(D, d.current)
      /\ Synced(E, DescriptorFile(d.current)) = Synced(D, DescriptorFile(d.current))
  BY DEF EditsIn
<1>2. s \in Survivors(E, d.current)
  BY <1>1 DEF Survivors, Survives
<1>3. \A t : TableFile(t) \in Files(D) => ReadTable(E, t) = ReadTable(D, t)
  BY DEF ReadTable
<1>4. \A n : LogFile(n) \in Files(D) => ReadLog(E, n) = ReadLog(D, n) /\ SyncedLog(E, n) = SyncedLog(D, n)
  BY DEF ReadLog, SyncedLog
<1>5. FindsOnly(D, d, s, A) <=> FindsOnly(E, d, s, A)
  BY <1>3, <1>4 DEF FindsOnly
<1>6. ASSUME NEW w PROVE Finds(D, d, s, w) <=> Finds(E, d, s, w)
  BY <1>3, <1>4 DEF Finds
<1>. QED
  BY <1>2, <1>5, <1>6

LEMMA WriteCurrentStore ==
    ASSUME Inv, Inv', KeepsInv(fs), KeepsInv(fs)', NamesInv(fs), StoreInv(fs), WriteCurrent
    PROVE  StoreInv(fs)' /\ SameStore
<1>. DEFINE E == fs'
            two == EditsIn(E, manifest)
<1>1. /\ phase = "opening" /\ Found = recovered /\ DiskTyped(fs) /\ DirsRight(fs)
      /\ manifest \in Nat /\ manifest > 1
      /\ apply'.step = "install" /\ flush' = flush /\ comp' = comp /\ UNCHANGED QuietVars
      /\ DiskInv(E) /\ DiskTyped(E) /\ DirsRight(E) /\ Files(E) = Files(fs)
      /\ \A g \in Files(fs) : Records(E, g) = Records(fs, g) /\ Synced(E, g) = Synced(fs, g)
      /\ Dir(E).names = Dir(fs).names /\ Dir(E).current = manifest
      /\ Dirs(E) = Dirs(fs) \cup {Dir(E)}
      /\ two = <<Snapshot(version), apply.edit>> /\ apply.edit.added = recovered
      /\ Synced(E, DescriptorFile(manifest)) = Len(two)
      /\ Readable(E) /\ Opened(E) = version \cup recovered
  BY WriteCurrentFacts
<1>2. Holds(E) = Holds(fs) /\ Begun(E) = Begun(fs) /\ Holds(E) = Ids(Recoverable(E))
      /\ Recoverable(E) = Recoverable(fs)
  BY <1>1, CurrentHolds DEF Holds, Begun
<1>3. Untorn(E)
  BY <1>1 DEF StoreInv, Untorn, EditsIn
<1>4. LogsHeld(E)
  BY <1>1 DEF StoreInv, LogsHeld, ReadLog
<1>5. \A t \in version \cup recovered : TableFile(t) \in Dir(fs).names /\ TableFile(t) \in Files(fs)
  BY <1>1, DirParts DEF Inv, ProcessInv, InUse, FileExists, DiskTyped, DirsTyped
<1>6. RecoveryHeld(E)
  <2>1. ASSUME NEW t \in Found PROVE ReadTable(E, t) \subseteq Recoverable(E)
    BY <1>1, <1>2, <1>5, <2>1 DEF StoreInv, RecoveryHeld, ReadTable
  <2>. QED
    BY <2>1 DEF StoreInv, RecoveryHeld
<1>7. TablesSynced(E)
  <2>. SUFFICES ASSUME NEW t \in Made \cup Named(E), TableFile(t) \in Files(E)
                PROVE  WhollySynced(E, t)
    BY DEF TablesSynced
  <2>1. t \in Made \cup Named(fs)
    <3>1. CASE t \in Made
      BY <3>1
    <3>2. CASE t \in Named(E)
      <4>1. PICK c \in Currents(E) : \E k \in DOMAIN EditsIn(E, c) :
                   EditsIn(E, c)[k] # TornEdit /\ t \in EditsIn(E, c)[k].added
        BY <3>2 DEF Named
      <4>2. CASE c \in Currents(fs)
        <5>1. EditsIn(E, c) = EditsIn(fs, c)
          BY <1>1, <4>2, CurrentFacts DEF EditsIn
        <5>. QED
          BY <3>2, <4>1, <4>2, <5>1 DEF Named
      <4>3. CASE c = manifest
        <5>1. PICK k \in DOMAIN two : t \in two[k].added
          BY <4>1, <4>3
        <5>2. DOMAIN two = 1 .. 2 /\ two[1].added = version /\ two[2].added = recovered
          BY <1>1 DEF Snapshot
        <5>. QED
          BY <1>1, <5>1, <5>2 DEF Made
      <4>. QED
        BY <1>1, <4>2, <4>3 DEF Currents
    <3>. QED
      BY <3>1, <3>2
  <2>. QED
    BY <1>1, <2>1 DEF StoreInv, TablesSynced, WhollySynced
<1>8. HistoryRight(E)
  BY <1>1, <1>2 DEF StoreInv, HistoryRight
<1>. HIDE DEF two
<1>9. ASSUME NEW d \in Dirs(fs), d.current # 0, NEW s \in Survivors(E, d.current)
      PROVE  FindsOnly(E, d, s, Begun(E)) /\ \A w \in Promised : Finds(E, d, s, w)
  <2>1. d.current \in Currents(fs) /\ d.names \subseteq Files(fs)
        /\ DescriptorFile(d.current) \in Files(fs)
    BY <1>1, <1>9, CurrentFacts DEF Currents, DiskTyped, DirsTyped
  <2>2. EditsIn(E, d.current) = EditsIn(fs, d.current)
        /\ Synced(E, DescriptorFile(d.current)) = Synced(fs, DescriptorFile(d.current))
    BY <1>1, <2>1 DEF EditsIn
  <2>3. s \in Survivors(fs, d.current)
    BY <2>2 DEF Survivors, Survives
  <2>4. TablesOf(s) \subseteq Nat
    BY <1>1, <2>1, <2>3, SurvivorFacts
  <2>5. FindsOnly(fs, d, s, Begun(E)) /\ \A w \in Promised : Finds(fs, d, s, w)
    BY <1>2, <1>9, <2>3 DEF StoreInv, AtMost, AtLeast
  <2>. QED
    BY <1>1, <2>1, <2>3, <2>4, <2>5, SameFilesAtMost
<1>10. ASSUME NEW s \in Survivors(E, manifest)
       PROVE  FindsOnly(E, Dir(E), s, Begun(E)) /\ \A w \in Promised : Finds(E, Dir(E), s, w)
  <2>1. manifest \in Currents(E)
    BY <1>1 DEF Currents
  <2>2. s = two
    BY <1>1, <2>1, WholeOnly DEF two
  <2>3. Edits(E) = two
    BY <1>1, <1>3, ManifestWhole DEF two
  <2>4. FindsOnly(E, Dir(E), s, Begun(E))
    <3>1. FindsOnly(E, Dir(E), s, Holds(E))
      BY <1>1, <1>2, <1>3, <2>2, <2>3, FindsNow
    <3>. QED
      BY <3>1 DEF FindsOnly, Begun
  <2>5. ASSUME NEW w \in Promised PROVE Finds(E, Dir(E), s, w)
    <3>1. Readable(fs) /\ DiskInv(fs)
      BY <1>1 DEF KeepsInv, RecoveryKeeps, Inv
    <3>2. w \in Ids(Recoverable(fs))
      BY <3>1, PromisedNow DEF StoreInv
    <3>3. w \in Ids(TablesRead(fs, version \cup recovered))
      BY <1>1, <3>2, OpeningReads
    <3>4. PICK t \in version \cup recovered : w \in Ids(ReadTable(fs, t))
      BY <3>3 DEF TablesRead, Ids
    <3>5. ReadTable(E, t) = ReadTable(fs, t) /\ TableFile(t) \in Dir(E).names
      BY <1>1, <1>5 DEF ReadTable
    <3>6. t \in TablesOf(s)
      BY <1>1, <2>2, <2>3 DEF Opened
    <3>. QED
      BY <3>4, <3>5, <3>6 DEF Finds
  <2>. QED
    BY <2>4, <2>5
<1>11. AtMost(E, Begun(E)) /\ AtLeast(E, Promised)
  BY <1>1, <1>9, <1>10 DEF AtMost, AtLeast
<1>12. StoreInv(E)
  BY <1>3, <1>4, <1>6, <1>7, <1>8, <1>11 DEF StoreInv
<1>13. Made' = Made
  BY <1>1 DEF Made, Found, QuietVars
<1>14. StoreInv(fs)' /\ Holds(fs)' = Holds(fs')
  BY <1>1, <1>12, <1>13, QuietStore
<1>. QED
  BY <1>1, <1>2, <1>14 DEF SameStore, QuietVars

\* Deleting obsolete files leaves directories with all that is live.
LEMMA ObsoleteDirs ==
    ASSUME NEW D, NEW V, NEW outs, NEW base, NEW log \in Nat, NEW E,
           E = DeleteObsoleteFiles(D, V, outs, base, log, bgError), DiskTyped(D)
    PROVE  /\ Files(E) = Files(D)
           /\ \A g \in Files(D) : Records(E, g) = Records(D, g) /\ Synced(E, g) = Synced(D, g)
           /\ \A d \in Dirs(E) : d \in Dirs(D) \/ (/\ d.current = Dir(D).current
                                                   /\ Dir(E).names \subseteq d.names
                                                   /\ d.names \subseteq Dir(D).names)
<1>1. CASE E = D
  BY <1>1
<1>2. ASSUME NEW gone, E = DeleteFiles(D, gone)
      PROVE  /\ Files(E) = Files(D)
             /\ \A g \in Files(D) : E.files[g] = D.files[g]
             /\ \A d \in Dirs(E) : d \in Dirs(D) \/ (/\ d.current = Dir(D).current
                                                     /\ Dir(E).names \subseteq d.names
                                                     /\ d.names \subseteq Dir(D).names)
  BY <1>2, DeleteFilesDisk
<1>3. E = D \/ \E gone : E = DeleteFiles(D, gone)
  BY DEF DeleteObsoleteFiles
<1>. QED
  BY <1>1, <1>2, <1>3 DEF Records, Synced

LEMMA InstallFacts ==
    ASSUME Inv, Inv', KeepsInv(fs), NamesInv(fs), StoreInv(fs), Install
    PROVE  /\ phase \in {"opening", "up"} /\ phase' = "up" /\ toRecover = {} /\ manifest \in Nat
           /\ DiskInv(fs) /\ DiskTyped(fs) /\ DirsRight(fs) /\ DiskTyped(fs') /\ DirsRight(fs')
           /\ Dir(fs).current = manifest /\ manifest > 1 /\ manifest \in Currents(fs)
           /\ Readable(fs) /\ Edits(fs) = EditsIn(fs, manifest) /\ LastEdit(fs) = apply.edit
           /\ Synced(fs, DescriptorFile(manifest)) = Len(EditsIn(fs, manifest))
           /\ Opened(fs) = (version \cup apply.edit.added) \ apply.edit.deleted
           /\ version' = Opened(fs) /\ versionLog' = apply.edit.log
           /\ apply'.step = "none" /\ apply.edit.log \in Nat
           /\ UNCHANGED <<mem, logNumber, manifest, toRecover, recovered, written, safe, limbo,
                          hidden, errors, bgError, writer>>
<1>1. /\ apply.step = "install" /\ phase' = "up" /\ apply' = NoApply
      /\ version' = (version \cup apply.edit.added) \ apply.edit.deleted
      /\ versionLog' = apply.edit.log
      /\ UNCHANGED <<mem, logNumber, manifest, toRecover, recovered, written, safe, limbo,
                          hidden, errors, bgError, writer>>
  BY DEF Install, recoveryVars, historyVars, boundVars
<1>2. DiskInv(fs) /\ DiskTyped(fs) /\ DirsRight(fs) /\ Typed /\ Steps /\ ProcessInv(fs)
      /\ DiskTyped(fs') /\ DirsRight(fs')
  BY DEF Inv, DiskInv
<1>3. /\ Dir(fs).current = manifest /\ manifest > 0 /\ manifest \in Nat
      /\ Edits(fs) = EditsIn(fs, manifest) /\ LastEdit(fs) = apply.edit
      /\ apply.edit \in EditRecord /\ phase \in {"opening", "up"} /\ toRecover = {}
  BY <1>1, <1>2, EditInstalled
<1>4. manifest \in Currents(fs) /\ DescriptorFile(manifest) \in Files(fs)
  <2>1. manifest \in Currents(fs)
    BY <1>2, <1>3, CurrentOfDir
  <2>. QED
    BY <1>2, <2>1, CurrentFacts
<1>5. ~Damaged(fs)
  BY <1>3, <1>4 DEF StoreInv, Untorn, Damaged
<1>6. Readable(fs) /\ Opened(fs) = (version \cup apply.edit.added) \ apply.edit.deleted
  BY <1>5, InstallOpened DEF StoreInv, ErrorFree
<1>7. Synced(fs, DescriptorFile(manifest)) = Len(EditsIn(fs, manifest))
  BY <1>1 DEF NamesInv, EditSynced
<1>8. manifest > 1
  BY <1>3 DEF StoreInv, RecoveryHeld
<1>9. apply'.step = "none" /\ apply.edit.log \in Nat
  BY <1>1, <1>3, NothingTyped DEF EditRecord
<1>. QED
  BY <1>1, <1>2, <1>3, <1>4, <1>6, <1>7, <1>8, <1>9

\* What is shown does not change.
LEMMA InstallHolds ==
    ASSUME Inv, Inv', KeepsInv(fs), NamesInv(fs), StoreInv(fs), Install
    PROVE  Holds(fs)' = Holds(fs)
<1>1. /\ phase \in {"opening", "up"} /\ phase' = "up" /\ mem' = mem
      /\ version' = (version \cup apply.edit.added) \ apply.edit.deleted
      /\ apply.step = "install" /\ Steps
      /\ (IF apply.for = "flush" THEN imm' = <<>> ELSE imm' = imm)
  BY InstallFacts DEF Install, Inv
<1>2. \A t \in version \cup apply.edit.added : ReadTable(fs', t) = ReadTable(fs, t)
  BY InstallReads
<1>3. TablesRead(fs', version') = TablesRead(fs, version')
  BY <1>1, <1>2, SameTablesRead
<1>4. Shown(fs)' = Range1(mem) \cup Range1(imm') \cup TablesRead(fs, version')
  BY <1>1, <1>3 DEF Shown, TablesRead
<1>5. CASE phase = "opening"
  <2>1. apply.for = "open" /\ imm' = <<>> /\ mem = <<>> /\ apply.edit.added = recovered
        /\ apply.edit.deleted = {}
    BY <1>1, <1>5 DEF Steps, Quiet, Inv, ProcessInv, EditRight
  <2>2. Shown(fs)' = TablesRead(fs, version \cup recovered)
    BY <1>1, <1>4, <2>1, EmptySeen
  <2>3. Holds(fs) = Ids(TablesRead(fs, version \cup recovered))
    BY <1>5, OpeningReads DEF Holds
  <2>. QED
    BY <1>1, <2>2, <2>3 DEF Holds, Ids
<1>6. CASE phase = "up"
  <2>1. Shown(fs) = Range1(mem) \cup Range1(imm) \cup TablesRead(fs, version)
    BY DEF Shown, TablesRead
  <2>2. Shown(fs)' = Shown(fs)
    <3>1. CASE /\ apply.for = "flush" /\ apply.edit.added = {flush.out} /\ apply.edit.deleted = {}
               /\ ReadTable(fs, flush.out) = Range1(imm)
      <4>1. imm' = <<>> /\ Range1(imm') = {}
        BY <1>1, <3>1, EmptySeen
      <4>2. TablesRead(fs, version') = TablesRead(fs, version) \cup Range1(imm)
        BY <1>1, <3>1 DEF TablesRead
      <4>. QED
        BY <1>4, <2>1, <4>1, <4>2
    <3>2. CASE /\ comp.step = "apply" /\ apply.for = "compaction"
               /\ apply.edit.added = {comp.out} /\ apply.edit.deleted = comp.inputs
               /\ comp.inputs \subseteq version
               /\ ReadTable(fs, comp.out) = UNION {ReadTable(fs, t) : t \in comp.inputs}
      <4>1. imm' = imm
        BY <1>1, <3>2
      <4>2. comp.out \notin comp.inputs
        BY <3>2 DEF Inv, ProcessInv, Outputs
      <4>3. TablesRead(fs, version') = TablesRead(fs, version)
        BY <1>1, <3>2, <4>2 DEF TablesRead
      <4>. QED
        BY <1>4, <2>1, <4>1, <4>3
    <3>. QED
      BY <1>1, <1>6, <3>1, <3>2, EditMeans
  <2>. QED
    BY <1>1, <1>6, <2>2 DEF Holds, Ids
<1>. QED
  BY <1>1, <1>5, <1>6

LEMMA InstallMade ==
    ASSUME Inv, Inv', KeepsInv(fs), NamesInv(fs), StoreInv(fs), Install
    PROVE  Made' \subseteq Made /\ Named(fs)' \subseteq Named(fs)
<1>1. /\ phase \in {"opening", "up"} /\ phase' = "up" /\ apply.step = "install" /\ Steps
      /\ version' = (version \cup apply.edit.added) \ apply.edit.deleted
      /\ flush' \in {NoFlush, flush} /\ comp' \in {NoCompaction, comp}
  BY InstallFacts DEF Install, Inv
<1>2. apply.edit.added \subseteq Made
  <2>1. CASE phase = "opening"
    BY <1>1, <2>1 DEF Inv, Steps, ProcessInv, EditRight, Made, Found
  <2>2. CASE phase = "up"
    BY <1>1, <2>2, EditMeans DEF Made
  <2>. QED
    BY <1>1, <2>1, <2>2
<1>3. Found' = {} /\ version' \subseteq Made
  BY <1>1, <1>2 DEF Found, Made
<1>4. (IF flush'.step = "apply" THEN {flush'.out} ELSE {}) \subseteq Made
  BY <1>1, NothingTyped DEF Made
<1>5. (IF comp'.step \in {"written", "apply"} THEN {comp'.out} ELSE {}) \subseteq Made
  BY <1>1, NothingTyped DEF Made
<1>6. Made' \subseteq Made
  <2>1. Made' = version' \cup Found' \cup (IF flush'.step = "apply" THEN {flush'.out} ELSE {})
                  \cup (IF comp'.step \in {"written", "apply"} THEN {comp'.out} ELSE {})
    BY DEF Made
  <2>. QED
    BY <1>3, <1>4, <1>5, <2>1
<1>7. Named(fs') \subseteq Named(fs)
  <2>1. /\ DiskInv(fs) /\ Dir(fs).current = manifest /\ manifest > 0 /\ manifest \in Nat
        /\ apply.edit.log \in Nat
    BY InstallFacts
  <2>2. \E V, outs, base : fs' = DeleteObsoleteFiles(fs, V, outs, base, apply.edit.log, bgError)
    BY DEF Install
  <2>. QED
    BY <2>1, <2>2, ObsoleteStep
<1>. QED
  BY <1>6, <1>7 DEF Named

\* What may be left of the machine's disk is what could be left before.
LEMMA InstallLeaves ==
    ASSUME Inv, Inv', KeepsInv(fs), NamesInv(fs), StoreInv(fs), Install
    PROVE  AtMost(fs', Begun(fs)) /\ AtLeast(fs', Promised)
<1>. DEFINE E == fs'
<1>1. /\ DiskTyped(fs) /\ DirsRight(fs) /\ DiskTyped(E) /\ DirsRight(E)
      /\ Dir(fs).current = manifest /\ manifest > 1 /\ manifest \in Currents(fs) /\ manifest \in Nat
      /\ Edits(fs) = EditsIn(fs, manifest) /\ LastEdit(fs) = apply.edit
      /\ Synced(fs, DescriptorFile(manifest)) = Len(EditsIn(fs, manifest))
      /\ version' = Opened(fs) /\ apply.edit.log \in Nat /\ DiskInv(fs)
  BY InstallFacts
<1>2. PICK V, outs, base : /\ V = version'
                           /\ E = DeleteObsoleteFiles(fs, V, outs, base, apply.edit.log, bgError)
  BY DEF Install
<1>3. /\ Files(E) = Files(fs)
      /\ \A g \in Files(fs) : Records(E, g) = Records(fs, g) /\ Synced(E, g) = Synced(fs, g)
      /\ \A d \in Dirs(E) : d \in Dirs(fs) \/ (/\ d.current = manifest
                                               /\ Dir(E).names \subseteq d.names
                                               /\ d.names \subseteq Dir(fs).names)
  BY <1>1, <1>2, ObsoleteDirs
<1>4. /\ \A m \in Nat : m >= apply.edit.log /\ LogFile(m) \in Dir(fs).names => LogFile(m) \in Dir(E).names
      /\ \A t \in Nat : t \in Opened(fs) /\ TableFile(t) \in Dir(fs).names =>
                            TableFile(t) \in Dir(E).names
  <2>1. Opened(fs) \subseteq Live(V, outs, base)
    BY <1>1, <1>2 DEF Live
  <2>2. /\ \A m \in Nat : m >= apply.edit.log /\ LogFile(m) \in Dir(fs).names => LogFile(m) \in Dir(E).names
        /\ \A t \in Nat : t \in Live(V, outs, base) /\ TableFile(t) \in Dir(fs).names =>
                                 TableFile(t) \in Dir(E).names
    BY <1>1, <1>2, ObsoleteStep
  <2>. QED
    BY <2>1, <2>2
<1>5. \A d \in Dirs(fs) : d.names \subseteq Files(fs)
  BY <1>1 DEF DiskTyped, DirsTyped
<1>6. /\ \A t : TableFile(t) \in Files(fs) => ReadTable(E, t) = ReadTable(fs, t)
      /\ \A n : LogFile(n) \in Files(fs) => ReadLog(E, n) = ReadLog(fs, n) /\ SyncedLog(E, n) = SyncedLog(fs, n)
  BY <1>3 DEF ReadTable, ReadLog, SyncedLog
<1>7. \A c \in Currents(fs) : Survivors(E, c) = Survivors(fs, c)
  <2>1. \A c \in Currents(fs) : DescriptorFile(c) \in Files(fs)
    BY <1>1, CurrentFacts
  <2>. QED
    BY <1>3, <2>1 DEF Survivors, Survives, EditsIn
<1>8. ASSUME NEW d \in Dirs(fs), d.current # 0, NEW s \in Survivors(E, d.current)
      PROVE  FindsOnly(E, d, s, Begun(fs)) /\ \A w \in Promised : Finds(E, d, s, w)
  <2>1. d.current \in Currents(fs) /\ d.names \subseteq Files(fs)
        /\ DescriptorFile(d.current) \in Files(fs)
    BY <1>1, <1>5, <1>8, CurrentFacts DEF Currents
  <2>2. s \in Survivors(fs, d.current)
    BY <1>7, <1>8, <2>1
  <2>3. TablesOf(s) \subseteq Nat
    BY <1>1, <2>1, <2>2, SurvivorFacts
  <2>4. FindsOnly(fs, d, s, Begun(fs)) /\ \A w \in Promised : Finds(fs, d, s, w)
    BY <1>8, <2>2 DEF StoreInv, AtMost, AtLeast
  <2>. QED
    BY <1>1, <1>3, <2>1, <2>2, <2>3, <2>4, SameFilesAtMost
<1>9. ASSUME NEW d \in Dirs(E), d.current = manifest, Dir(E).names \subseteq d.names,
             d.names \subseteq Dir(fs).names, NEW s \in Survivors(E, manifest)
      PROVE  FindsOnly(E, d, s, Begun(fs)) /\ \A w \in Promised : Finds(E, d, s, w)
  <2>1. Dir(fs) \in Dirs(fs) /\ s \in Survivors(fs, manifest) /\ Dir(fs).names \subseteq Files(fs)
    BY <1>1, <1>5, <1>7, <1>9, DirParts DEF DiskTyped
  <2>2. s = Edits(fs) /\ s[Len(s)].log = apply.edit.log /\ TablesOf(s) = Opened(fs)
        /\ TablesOf(s) \subseteq Nat
    <3>1. s = Edits(fs)
      BY <1>1, <2>1, WholeOnly
    <3>. QED
      BY <1>1, <2>1, <3>1, SurvivorFacts DEF LastEdit, Opened
  <2>3. FindsOnly(fs, Dir(fs), s, Begun(fs)) /\ \A w \in Promised : Finds(fs, Dir(fs), s, w)
    BY <1>1, <2>1 DEF StoreInv, AtMost, AtLeast
  <2>4. FindsOnly(E, d, s, Begun(fs))
    BY <1>3, <1>6, <1>9, <2>1, <2>2, <2>3 DEF FindsOnly
  <2>5. ASSUME NEW w \in Promised PROVE Finds(E, d, s, w)
    <3>1. Finds(fs, Dir(fs), s, w)
      BY <2>3
    <3>2. \A t \in TablesOf(s) : TableFile(t) \in Dir(fs).names =>
              TableFile(t) \in d.names /\ ReadTable(fs, t) \subseteq ReadTable(E, t)
      BY <1>4, <1>6, <1>9, <2>1, <2>2
    <3>3. \A n \in Nat : s[Len(s)].log <= n /\ LogFile(n) \in Dir(fs).names =>
              LogFile(n) \in d.names /\ SyncedLog(fs, n) \subseteq SyncedLog(E, n)
      BY <1>1, <1>4, <1>6, <1>9, <2>1, <2>2
    <3>. QED
      BY <3>1, <3>2, <3>3, FindsKept
  <2>. QED
    BY <2>4, <2>5
<1>10. ASSUME NEW d \in Dirs(E), d.current # 0, NEW s \in Survivors(E, d.current)
       PROVE  FindsOnly(E, d, s, Begun(fs)) /\ \A w \in Promised : Finds(E, d, s, w)
  BY <1>3, <1>8, <1>9, <1>10
<1>. QED
  BY <1>10 DEF AtMost, AtLeast

LEMMA InstallStore ==
    ASSUME Inv, Inv', KeepsInv(fs), NamesInv(fs), StoreInv(fs), Install
    PROVE  /\ StoreInv(fs)' /\ Holds(fs)' = Holds(fs) /\ safe' = safe /\ limbo' = limbo
           /\ phase' = "up"
<1>. DEFINE E == fs'
<1>1. /\ phase \in {"opening", "up"} /\ phase' = "up" /\ toRecover = {} /\ manifest \in Nat
      /\ DiskTyped(fs) /\ Dir(fs).current = manifest /\ manifest > 1
      /\ apply'.step = "none" /\ apply.edit.log \in Nat /\ versionLog' = apply.edit.log
      /\ UNCHANGED <<mem, logNumber, manifest, toRecover, recovered, written, safe, limbo,
                     hidden, errors, bgError, writer>>
  BY InstallFacts
<1>2. PICK V, outs, base : E = DeleteObsoleteFiles(fs, V, outs, base, apply.edit.log, bgError)
  BY DEF Install
<1>3. /\ Files(E) = Files(fs)
      /\ \A g \in Files(fs) : Records(E, g) = Records(fs, g) /\ Synced(E, g) = Synced(fs, g)
      /\ \A d \in Dirs(E) : d \in Dirs(fs) \/ d.current = manifest
  BY <1>1, <1>2, ObsoleteDirs
<1>4. /\ Holds(fs)' = Holds(fs) /\ Begun(fs)' = Begun(fs)
      /\ Promised' = Promised /\ Writing' = Writing
  BY <1>1, InstallHolds DEF Begun, Promised, Writing
<1>5. Untorn(fs)' /\ ErrorFree'
  BY <1>1, <1>3 DEF StoreInv, Untorn, ErrorFree, EditsIn
<1>6. LogsHeld(fs)'
  <2>. SUFFICES ASSUME NEW n \in Nat, LogFile(n) \in Files(E)
                PROVE  /\ n <= logNumber
                       /\ n = logNumber => ReadLog(E, n) \subseteq Range1(mem) \cup Writing
                       /\ apply.edit.log <= n /\ n < logNumber => ReadLog(E, n) \subseteq Range1(imm')
    BY <1>1, <1>4 DEF LogsHeld
  <2>1. ReadLog(E, n) = ReadLog(fs, n) /\ LogFile(n) \in Files(fs)
    BY <1>3 DEF ReadLog
  <2>2. n <= logNumber /\ (n = logNumber => ReadLog(fs, n) \subseteq Range1(mem) \cup Writing)
    BY <1>1, <2>1 DEF StoreInv, LogsHeld
  <2>3. ASSUME apply.edit.log <= n, n < logNumber
        PROVE  ReadLog(fs, n) \subseteq Range1(imm')
    <3>0. logNumber \in Nat /\ Steps /\ apply.step = "install"
      BY DEF Inv, Typed, TypedMemory, Install
    <3>1. CASE phase = "opening"
      <4>1. apply.edit.log = logNumber
        BY <3>0, <3>1 DEF Steps, Inv, ProcessInv, EditRight
      <4>. QED
        BY <1>1, <2>3, <3>0, <4>1
    <3>2. CASE phase = "up"
      <4>1. apply.for = "compaction" /\ apply.edit.log = versionLog
        BY <1>1, <2>3, <3>0, <3>2, EditMeans
      <4>2. imm' = imm
        BY <4>1 DEF Install
      <4>. QED
        BY <2>1, <2>3, <3>2, <4>1, <4>2, LogsBegun
    <3>. QED
      BY <1>1, <3>1, <3>2
  <2>. QED
    BY <2>1, <2>2, <2>3
<1>7. RecoveryHeld(fs)'
  BY <1>1 DEF RecoveryHeld, Found
<1>8. TablesSynced(fs)'
  BY <1>3, InstallMade DEF StoreInv, TablesSynced, WhollySynced
<1>9. HistoryRight(fs)'
  <2>1. Promised = {} \/ \A d \in Dirs(E) : d.current > 1
    BY <1>1, <1>3 DEF StoreInv, HistoryRight
  <2>. QED
    BY <1>1, <1>4, <2>1 DEF StoreInv, HistoryRight
<1>10. AtMost(fs, Begun(fs))' /\ AtLeast(fs, Promised)'
  <2>1. AtMost(fs', Begun(fs)') /\ AtLeast(fs', Promised')
    BY <1>4, InstallLeaves
  <2>. QED
    BY <2>1 DEF AtMost, AtLeast, Survivors, FindsOnly, Finds
<1>. QED
  BY <1>1, <1>4, <1>5, <1>6, <1>7, <1>8, <1>9, <1>10 DEF StoreInv

\* A write that is begun is in the log that takes it, and in nothing else.
LEMMA AddRecordFacts ==
    ASSUME MaxErrors = 0, Inv, StoreInv(fs), NEW sync \in SyncOptions, AddRecord(sync)
    PROVE  LET batch == [seq |-> lastSequence + 1, id |-> written + 1]
               l == IF Switches THEN nextFile ELSE logNumber
               f == LogFile(l)
           IN  /\ phase = "up" /\ writer.step = "idle" /\ Writing = {} /\ toRecover = {}
               /\ written < MaxWrites /\ written \in Nat
               /\ batch \in Batch /\ batch # Torn
               /\ IF Switches
                  THEN imm = <<>> /\ imm' = mem /\ mem' = <<>> /\ f \notin Files(fs)
                  ELSE imm' = imm /\ mem' = mem /\ f \in Dir(fs).names
               /\ l \in Nat /\ logNumber' = l /\ logNumber \in Nat /\ (Switches => logNumber < l)
               /\ Writing' = {batch} /\ writer'.step = "logged" /\ limbo' = limbo \cup {written + 1}
               /\ written' = written + 1
               /\ hidden' = {} /\ Touches(fs, fs', f)
               /\ \A b \in ReadLog(fs', l) : b = batch \/ (f \in Files(fs) /\ b \in ReadLog(fs, l))
               /\ f \in Files(fs) => SyncedLog(fs, l) \subseteq SyncedLog(fs', l)
               /\ Torn \notin Range1(Records(fs', f))
               /\ UNCHANGED <<phase, version, versionLog, manifest, toRecover, recovered, bgError,
                              flush, comp, apply, safe, errors>>
<1>. DEFINE batch == [seq |-> lastSequence + 1, id |-> written + 1]
            l == IF Switches THEN nextFile ELSE logNumber
            f == LogFile(l)
            D1 == IF Switches THEN NewWritableFile(fs, f) ELSE fs
<1>0. /\ DiskTyped(fs) /\ Numbers(fs) /\ InUse(fs) /\ phase = "up"
      /\ writer.step = "idle" /\ toRecover = {} /\ Writing = {} /\ Steps
      /\ nextFile \in Nat /\ logNumber \in Nat /\ lastSequence \in Nat /\ written \in Nat
  BY DEF Inv, DiskInv, ProcessInv, AddRecord, Steps, Writing, Typed, TypedMemory, TypedVersion, TypedHistory
<1>1. /\ fs' = AddRecords(D1, f, <<batch>>)
      /\ writer' = [step |-> "logged", batch |-> batch, sync |-> sync]
      /\ hidden' = IF Torn \in Range1(Records(D1, f)) THEN hidden \cup {batch.id} ELSE hidden
      /\ limbo' = limbo \cup {batch.id} /\ errors' = errors
  BY NoFail DEF AddRecord
<1>2. batch \in Batch /\ batch # Torn /\ Torn \in Batch /\ batch.id = written + 1
  <2>1. batch \in Batch /\ batch.seq = lastSequence + 1
    BY <1>0 DEF Batch
  <2>2. Torn.seq = 0 /\ lastSequence + 1 # 0
    BY <1>0 DEF Torn
  <2>. QED
    BY <2>1, <2>2, NothingTyped
<1>3. /\ written < MaxWrites /\ written' = written + 1 /\ logNumber' = l
      /\ IF Switches
         THEN hasImm = FALSE /\ imm' = mem /\ mem' = <<>>
         ELSE imm' = imm /\ mem' = mem
      /\ UNCHANGED <<phase, version, versionLog, manifest, toRecover, recovered, bgError,
                     flush, comp, apply, safe>>
  BY <1>0 DEF AddRecord, recoveryVars, Inv, Typed, TypedMemory
<1>4. /\ l \in Nat /\ (Switches => logNumber < l)
      /\ IF Switches THEN f \notin Files(fs) ELSE f \in Dir(fs).names
      /\ \/ f \in Dir(fs).names /\ D1 = fs
         \/ f \notin Files(fs) /\ D1 = NewWritableFile(fs, f)
  <2>1. LogFile(nextFile) \notin Files(fs) /\ logNumber < nextFile
    BY <1>0 DEF Numbers
  <2>2. LogFile(logNumber) \in Dir(fs).names
    BY <1>0 DEF InUse, FileExists
  <2>. QED
    BY <1>0, <2>1, <2>2
<1>5. Writing' = {batch} /\ writer'.step = "logged"
  BY <1>1 DEF Writing
<1>6. Switches => imm = <<>>
  BY <1>0, <1>3 DEF Steps
<1>. HIDE DEF batch, l
<1>7. f \in File /\ Item(f) = Batch
  BY <1>4, FileTypes DEF Item
<1>8. /\ DiskTyped(D1) /\ f \in Files(D1) /\ f \in Dir(D1).names
      /\ f \in Files(fs) => D1 = fs
      /\ Records(D1, f) = <<>> \/ (f \in Files(fs) /\ D1 = fs)
  <2>1. CASE f \in Dir(fs).names /\ D1 = fs
    BY <1>0, <2>1, DirParts DEF DiskTyped, DirsTyped
  <2>2. CASE f \notin Files(fs) /\ D1 = NewWritableFile(fs, f)
    <3>. DEFINE E == NewWritableFile(fs, f)
    <3>1. DiskTyped(E) /\ Files(E) = Files(fs) \cup {f} /\ Records(E, f) = <<>>
          /\ Dir(E).names = Dir(fs).names \cup {f}
      <4>1. f \in File
        BY <1>7
      <4>. HIDE DEF f
      <4>. QED
        BY <1>0, <4>1, NewFileDisk
    <3>. QED
      BY <2>2, <3>1
  <2>. QED
    BY <1>4, <2>1, <2>2
<1>9. Torn \notin Range1(Records(D1, f))
  BY <1>4, <1>8, EmptySeen DEF StoreInv, Untorn
<1>10. hidden' = {}
  BY <1>1, <1>9 DEF StoreInv, ErrorFree
<1>11. /\ Touches(fs, fs', f)
       /\ \A b \in ReadLog(fs', l) : b = batch \/ (f \in Files(fs) /\ b \in ReadLog(fs, l))
  <2>. HIDE DEF D1
  <2>. QED
    BY <1>0, <1>1, <1>2, <1>4, LogWritten, SMTT(30)
<1>12. Records(D1, f) \in Seq(Batch)
  BY <1>7, <1>8, FileParts DEF DiskTyped
<1>13. Records(fs', f) = Records(D1, f) \o <<batch>> /\ Synced(fs', f) = Synced(D1, f)
  <2>. DEFINE u == <<batch>>
  <2>1. u \in Seq(Item(f)) /\ fs' = AddRecords(D1, f, u)
    BY <1>1, <1>2, <1>7
  <2>2. Records(fs', f) = Records(D1, f) \o u
    <3>. HIDE DEF u, D1, f
    <3>. QED
      BY <1>8, <2>1, AddRecordsDisk
  <2>3. Synced(fs', f) = Synced(D1, f)
    <3>. HIDE DEF u, D1, f
    <3>. QED
      BY <1>8, <2>1, AddRecordsDisk
  <2>. QED
    BY <2>2, <2>3
<1>14. Torn \notin Range1(Records(fs', f))
  <2>. DEFINE s == Records(D1, f)
  <2>. HIDE DEF s, D1
  <2>1. Range1(s \o <<batch>>) = Range1(s) \cup {batch}
    BY <1>2, <1>12, OneMore DEF s
  <2>. QED
    BY <1>2, <1>9, <1>13, <2>1 DEF s
<1>15. f \in Files(fs) => SyncedLog(fs, l) \subseteq SyncedLog(fs', l)
  <2>. SUFFICES ASSUME f \in Files(fs) PROVE SyncedLog(fs, l) \subseteq SyncedLog(fs', l)
    OBVIOUS
  <2>. DEFINE s == Records(fs, f)
              n == Synced(fs, f)
  <2>1. /\ Records(fs', f) = s \o <<batch>> /\ Synced(fs', f) = n /\ s \in Seq(Batch)
        /\ n \in Nat /\ Len(s) \in Nat /\ n <= Len(s)
    <3>1. D1 = fs
      BY <1>8
    <3>. QED
      BY <1>0, <1>12, <1>13, <3>1, FileParts DEF DiskTyped
  <2>. HIDE DEF s, n
  <2>2. \A i \in 1 .. Len(s) : (s \o <<batch>>)[i] = s[i]
    BY <1>2, <2>1, OneMore
  <2>3. \A i \in 1 .. n : i \in 1 .. Len(s)
    BY <2>1
  <2>. QED
    BY <2>1, <2>2, <2>3 DEF SyncedLog, s, n
<1>16. batch = [seq |-> lastSequence + 1, id |-> written + 1]
       /\ l = (IF Switches THEN nextFile ELSE logNumber)
  BY DEF batch, l
<1>. HIDE DEF D1
<1>. QED
  BY <1>0, <1>1, <1>2, <1>3, <1>4, <1>5, <1>6, <1>10, <1>11, <1>14, <1>15 DEF batch, l

LEMMA AddRecordStore ==
    ASSUME MaxErrors = 0, Inv, Inv', KeepsInv(fs), StoreInv(fs), NEW sync \in SyncOptions,
           AddRecord(sync)
    PROVE  /\ StoreInv(fs)'
           /\ phase = "up" /\ phase' = "up" /\ written + 1 \in 1 .. MaxWrites
           /\ written + 1 \notin Holds(fs) \cup limbo
           /\ Holds(fs)' = Holds(fs) /\ limbo' = limbo \cup {written + 1} /\ safe' = safe
<1>. DEFINE E == fs'
            batch == [seq |-> lastSequence + 1, id |-> written + 1]
            l == IF Switches THEN nextFile ELSE logNumber
            f == LogFile(l)
<1>1. /\ phase = "up" /\ writer.step = "idle" /\ Writing = {} /\ toRecover = {}
      /\ written < MaxWrites /\ written \in Nat
      /\ batch \in Batch /\ batch # Torn /\ batch.id = written + 1
      /\ IF Switches
         THEN imm = <<>> /\ imm' = mem /\ mem' = <<>> /\ f \notin Files(fs)
         ELSE imm' = imm /\ mem' = mem /\ f \in Dir(fs).names
      /\ l \in Nat /\ logNumber' = l /\ logNumber \in Nat /\ (Switches => logNumber < l)
      /\ Writing' = {batch} /\ writer'.step = "logged" /\ limbo' = limbo \cup {written + 1}
      /\ written' = written + 1
      /\ hidden' = {} /\ Touches(fs, E, f)
      /\ \A b \in ReadLog(E, l) : b = batch \/ (f \in Files(fs) /\ b \in ReadLog(fs, l))
      /\ f \in Files(fs) => SyncedLog(fs, l) \subseteq SyncedLog(E, l)
      /\ Torn \notin Range1(Records(E, f))
      /\ UNCHANGED <<phase, version, versionLog, manifest, toRecover, recovered, bgError,
                     flush, comp, apply, safe, errors>>
  BY AddRecordFacts
<1>2. ~Switches => l = logNumber
  OBVIOUS
<1>. HIDE DEF batch, l
<1>3. /\ DiskTyped(fs) /\ DirsRight(fs) /\ DiskInv(fs) /\ Typed /\ Steps /\ ProcessInv(fs)
      /\ DiskTyped(E) /\ DirsRight(E) /\ Dir(fs).current > 0
  BY <1>1 DEF Inv, DiskInv, ProcessInv, Numbers
<1>4. /\ \A n \in Nat : f # TableFile(n) /\ f # DescriptorFile(n)
      /\ \A n \in Nat : LogFile(n) = f => n = l
  BY <1>1, FilesDiffer
<1>5. \A g \in Files(E) : g # f => g \in Files(fs) /\ Records(E, g) = Records(fs, g)
                                   /\ Synced(E, g) = Synced(fs, g)
  <2>. HIDE DEF f, E
  <2>. QED
    BY <1>1, <1>3, TouchOthers
<1>6. \A n \in Nat : LogFile(n) \in Files(E) /\ n # l =>
         LogFile(n) \in Files(fs) /\ ReadLog(E, n) = ReadLog(fs, n)
  BY <1>4, <1>5 DEF ReadLog
<1>7. /\ limbo = {} /\ Promised' = Promised /\ Made' = Made
      /\ Promised = safe
  <2>1. limbo = {}
    BY <1>1, IdsOf DEF StoreInv, HistoryRight
  <2>2. Made' = Made
    BY <1>1 DEF Made, Found
  <2>. QED
    BY <1>1, <2>1, <2>2 DEF Promised
<1>8. Range1(mem') \cup Range1(imm') = Range1(mem) \cup Range1(imm)
  <2>1. CASE Switches
    BY <1>1, <2>1, EmptySeen
  <2>2. CASE ~Switches
    BY <1>1, <2>2
  <2>. QED
    BY <2>1, <2>2
<1>9. Holds(fs)' = Holds(fs) /\ Begun(fs)' = Begun(fs) \cup {written + 1}
  <2>1. \A t \in version : t \in Nat /\ TableFile(t) \in Files(E)
    BY <1>1, <1>3, DirParts DEF Inv, ProcessInv, InUse, FileExists, DiskTyped, DirsTyped, Typed, TypedVersion
  <2>2. \A t \in version : ReadTable(E, t) = ReadTable(fs, t)
    BY <1>4, <1>5, <2>1 DEF ReadTable
  <2>3. Shown(fs)' = Shown(fs)
    BY <1>1, <1>8, <2>2 DEF Shown
  <2>4. Holds(fs)' = Holds(fs)
    BY <1>1, <2>3 DEF Holds, Ids
  <2>. QED
    BY <1>1, <2>4 DEF Begun
<1>10. /\ Begun(fs) \subseteq 1 .. written /\ Begun(fs)' \subseteq 1 .. written'
       /\ written + 1 \notin Begun(fs) /\ written + 1 \in 1 .. MaxWrites
  <2>1. Begun(fs) \subseteq 1 .. written /\ MaxWrites \in Nat
    BY BoundsAssumption DEF StoreInv, HistoryRight
  <2>. QED
    BY <1>1, <1>9, <2>1
<1>11. Ids(ReadLog(E, l)) \subseteq Begun(fs)'
  <2>1. CASE Switches
    <3>1. ReadLog(E, l) \subseteq {batch}
      BY <1>1, <2>1
    <3>. QED
      BY <1>1, <1>9, <3>1 DEF Ids
  <2>2. CASE ~Switches
    <3>1. ReadLog(E, l) \subseteq ReadLog(fs, l) \cup {batch}
      BY <1>1
    <3>2. f \in Files(fs) /\ versionLog <= l
      BY <1>1, <1>2, <1>3, <2>2, DirParts DEF DiskTyped, DirsTyped, ProcessInv, Numbers
    <3>3. Ids(ReadLog(fs, l)) \subseteq Begun(fs)
      BY <1>1, <3>2, LogsBegun
    <3>4. Ids(ReadLog(E, l)) \subseteq Ids(ReadLog(fs, l)) \cup {batch.id}
      BY <3>1 DEF Ids
    <3>. QED
      BY <1>1, <1>9, <3>3, <3>4
  <2>. QED
    BY <2>1, <2>2
<1>12. Named(fs) \subseteq Nat /\ Currents(fs) \subseteq Nat
  BY <1>3, CurrentFacts DEF Named
<1>13. AtMost(fs', Begun(fs)')
  <2>. DEFINE B == Begun(fs)'
              A == Begun(fs)
  <2>1. A \subseteq B
    BY <1>9
  <2>2. AtMost(fs, A)
    BY DEF StoreInv
  <2>3. Ids(ReadLog(E, l)) \subseteq B
    BY <1>11
  <2>. HIDE DEF A, B, E
  <2>4. \A n \in Nat : f = LogFile(n) => Ids(ReadLog(E, n)) \subseteq B
    BY <1>4, <2>3
  <2>. HIDE DEF f
  <2>. QED
    BY <1>1, <1>3, <1>4, <1>12, <2>1, <2>2, <2>4, TouchAtMost DEF A, B, E
<1>14. AtLeast(fs', Promised')
  <2>1. AtLeast(fs, Promised)
    BY DEF StoreInv
  <2>. HIDE DEF E
  <2>2. \A n \in Nat : f = LogFile(n) /\ f \in Files(fs) => SyncedLog(fs, n) \subseteq SyncedLog(E, n)
    BY <1>1, <1>4
  <2>. HIDE DEF f
  <2>. QED
    BY <1>1, <1>3, <1>4, <1>7, <1>12, <2>1, <2>2, TouchAtLeast DEF E
<1>15. Untorn(fs)'
  <2>1. ASSUME NEW n \in Nat, LogFile(n) \in Files(E) PROVE Torn \notin Range1(Records(E, LogFile(n)))
    BY <1>1, <1>5, <2>1 DEF StoreInv, Untorn
  <2>2. ASSUME NEW c \in Nat, DescriptorFile(c) \in Files(E) PROVE TornEdit \notin Range1(EditsIn(E, c))
    BY <1>4, <1>5, <2>2 DEF StoreInv, Untorn, EditsIn
  <2>. QED
    BY <2>1, <2>2 DEF Untorn
<1>16. ErrorFree'
  BY <1>1 DEF StoreInv, ErrorFree
<1>17. LogsHeld(fs)'
  <2>. SUFFICES ASSUME NEW n \in Nat, LogFile(n) \in Files(E)
                PROVE  /\ n <= l
                       /\ n = l => ReadLog(E, n) \subseteq Range1(mem') \cup Writing'
                       /\ versionLog <= n /\ n < l => ReadLog(E, n) \subseteq Range1(imm')
    BY <1>1 DEF LogsHeld
  <2>0. ASSUME n # l
        PROVE  /\ ReadLog(E, n) = ReadLog(fs, n) /\ n <= logNumber
               /\ n = logNumber => ReadLog(E, n) \subseteq Range1(mem)
               /\ versionLog <= n /\ n < logNumber => ReadLog(E, n) \subseteq Range1(imm)
    BY <1>1, <1>6, <2>0 DEF StoreInv, LogsHeld
  <2>1. CASE Switches
    <3>1. CASE n = l
      BY <1>1, <2>1, <3>1
    <3>2. CASE n # l
      <4>1. n = logNumber \/ n < logNumber
        BY <1>1, <2>0, <3>2
      <4>2. versionLog <= n => ReadLog(E, n) \subseteq Range1(imm')
        BY <1>1, <2>0, <2>1, <3>2, <4>1, EmptySeen
      <4>3. n <= l
        BY <1>1, <2>1, <4>1
      <4>. QED
        BY <3>2, <4>2, <4>3
    <3>. QED
      BY <3>1, <3>2
  <2>2. CASE ~Switches
    <3>1. CASE n = l
      <4>1. ReadLog(fs, l) \subseteq Range1(mem) \/ f \notin Files(fs)
        BY <1>1, <1>2, <2>2 DEF StoreInv, LogsHeld
      <4>. QED
        BY <1>1, <2>2, <3>1, <4>1
    <3>2. CASE n # l
      BY <1>1, <1>2, <2>0, <2>2, <3>2
    <3>. QED
      BY <3>1, <3>2
  <2>. QED
    BY <2>1, <2>2
<1>18. RecoveryHeld(fs)'
  BY <1>1 DEF StoreInv, RecoveryHeld, Found
<1>19. TablesSynced(fs)'
  <2>1. Named(E) \subseteq Named(fs)
    <3>1. Currents(E) \subseteq Currents(fs)
      <4>. HIDE DEF E, f
      <4>. QED
        BY <1>1, <1>3, TouchDirs
    <3>2. \A c \in Currents(E) : EditsIn(E, c) = EditsIn(fs, c)
      BY <1>3, <1>4, <1>5, CurrentFacts DEF EditsIn
    <3>. QED
      BY <3>1, <3>2 DEF Named
  <2>2. Made \cup Named(fs) \subseteq Nat
    BY <1>3 DEF Made, Named, Found, Typed, TypedVersion, TypedWork, FlushRecord, CompactionRecord
  <2>3. \A t \in Made \cup Named(E) : TableFile(t) \in Files(E) => WhollySynced(E, t)
    BY <1>4, <1>5, <2>1, <2>2 DEF StoreInv, TablesSynced, WhollySynced
  <2>. QED
    BY <1>7, <2>3 DEF TablesSynced, WhollySynced, Named
<1>20. HistoryRight(fs)'
  <2>1. limbo' = Ids(Writing')
    BY <1>1, <1>7 DEF Ids
  <2>2. \A d \in Dirs(E) : \E o \in Dirs(fs) : o.current = d.current
    BY <1>1, <1>3, DirParts DEF Touches, DiskTyped
  <2>3. Promised = {} \/ \A d \in Dirs(E) : d.current > 1
    BY <2>2 DEF StoreInv, HistoryRight
  <2>. QED
    BY <1>7, <1>10, <2>1, <2>3 DEF HistoryRight
<1>21. AtMost(fs, Begun(fs))' /\ AtLeast(fs, Promised)'
  BY <1>13, <1>14 DEF AtMost, AtLeast, Survivors, FindsOnly, Finds
<1>. QED
  BY <1>1, <1>7, <1>9, <1>10, <1>15, <1>16, <1>17, <1>18, <1>19, <1>20, <1>21 DEF StoreInv, Begun

\* Nothing is in the files of a database that NewDB has just made.
LEMMA NewDBEmpty ==
    ASSUME Inv, NewDB
    PROVE  /\ DiskInv(fs') /\ Files(fs') = {DescriptorFile(1)} /\ Currents(fs') = {1}
           /\ EditsIn(fs', 1) = <<Edit({}, {}, 0, 2, 0)>> /\ Named(fs') = {}
           /\ Recoverable(fs) = {} /\ Recoverable(fs') = {}
<1>. DEFINE e == Edit({}, {}, 0, 2, 0)
<1>0. e \in EditRecord /\ e # TornEdit /\ e.added = {}
  <2>1. e \in EditRecord /\ e.added = {}
    BY DEF Edit, EditRecord
  <2>. QED
    BY <2>1, EditsNotTorn
<1>1. DiskInv(fs) /\ Dir(fs).current = 0
  BY DEF Inv, NewDB
<1>2. /\ DiskTyped(fs') /\ DirsRight(fs') /\ FirstDir(fs')
      /\ Files(fs') = {DescriptorFile(1)} /\ Currents(fs') = {1} /\ EditsIn(fs', 1) = <<e>>
  <2>1. fs' = SetCurrentFile(AddRecords(NewWritableFile(fs, DescriptorFile(1)), DescriptorFile(1),
                                        <<e>>), 1)
    BY DEF NewDB, FirstManifest
  <2>. HIDE DEF e
  <2>. QED
    BY <1>0, <1>1, <2>1, NewDBDisk
<1>3. DiskInv(fs')
  BY NewDBInv DEF Inv
<1>. HIDE DEF e
<1>4. Named(fs') = {}
  <2>1. \A k \in DOMAIN EditsIn(fs', 1) : EditsIn(fs', 1)[k] = e
    BY <1>2
  <2>. QED
    BY <1>0, <1>2, <2>1 DEF Named
<1>5. Recoverable(fs) = {}
  BY <1>1 DEF Recoverable, Readable
<1>6. Recoverable(fs') = {}
  <2>1. CASE ~Readable(fs')
    BY <2>1 DEF Recoverable
  <2>2. CASE Readable(fs')
    <3>1. Opened(fs') = {}
      BY <1>3, <1>4, <2>2, RecoverableIs
    <3>2. \A n \in Nat : ~FileExists(fs', LogFile(n))
      <4>1. Dir(fs').names \subseteq Files(fs')
        BY <1>2, DirParts DEF DiskTyped, DirsTyped
      <4>. QED
        BY <1>2, <4>1, FilesDiffer DEF FileExists
    <3>3. LoggedFrom(fs', LastEdit(fs').log) = {}
      BY <3>2 DEF LoggedFrom
    <3>4. TablesRead(fs', Opened(fs')) = {}
      BY <3>1 DEF TablesRead
    <3>. QED
      BY <1>3, <2>2, <3>3, <3>4, RecoverableIs
  <2>. QED
    BY <2>1, <2>2
<1>. QED
  BY <1>2, <1>3, <1>4, <1>5, <1>6 DEF e

LEMMA NewDBStore ==
    ASSUME Inv, StoreInv(fs), NewDB
    PROVE  StoreInv(fs)' /\ SameStore
<1>0. /\ phase = "down" /\ phase' = "down" /\ Dir(fs).current = 0
      /\ UNCHANGED <<QuietVars, flush, comp, apply>>
  BY DEF NewDB, QuietVars, memoryVars, versionVars, recoveryVars, historyVars, boundVars
<1>1. /\ DiskInv(fs') /\ Files(fs') = {DescriptorFile(1)} /\ Currents(fs') = {1}
      /\ EditsIn(fs', 1) = <<Edit({}, {}, 0, 2, 0)>> /\ Named(fs') = {}
      /\ Recoverable(fs) = {} /\ Recoverable(fs') = {}
  BY NewDBEmpty
<1>2. /\ writer = NoWrite /\ version = {} /\ toRecover = {} /\ recovered = {}
      /\ flush = NoFlush /\ comp = NoCompaction /\ apply = NoApply
  BY <1>0 DEF Inv, Steps, Quiet
<1>3. Promised = {} /\ limbo = {} /\ Holds(fs) = {} /\ Begun(fs) = {}
  <2>1. Dir(fs) \in Dirs(fs)
    BY DirParts DEF Inv, DiskInv, DiskTyped
  <2>2. Promised = {} /\ limbo = Ids(Writing)
    BY <1>0, <2>1 DEF StoreInv, HistoryRight
  <2>3. Writing = {}
    BY <1>2, NothingTyped DEF Writing
  <2>4. limbo = {}
    BY <2>2, <2>3, IdsOf
  <2>5. Holds(fs) = {}
    BY <1>0, <1>1, IdsOf DEF Holds
  <2>. QED
    BY <2>2, <2>4, <2>5 DEF Begun
<1>4. /\ Holds(fs)' = {} /\ Begun(fs)' = {} /\ Promised' = {} /\ limbo' = {} /\ Writing' = Writing
      /\ safe' = safe
  <2>1. Holds(fs)' = {}
    BY <1>0, <1>1, IdsOf DEF Holds
  <2>2. Promised' = Promised /\ limbo' = limbo /\ Writing' = Writing
    BY <1>0 DEF Promised, Writing, QuietVars
  <2>. QED
    BY <1>0, <1>3, <2>1, <2>2 DEF Begun, QuietVars
<1>5. \A n \in Nat : LogFile(n) \notin Files(fs') /\ TableFile(n) \notin Files(fs')
  BY <1>1, FilesDiffer
<1>6. ErrorFree'
  BY <1>0 DEF StoreInv, ErrorFree, QuietVars
<1>7. Untorn(fs')
  <2>1. \A c \in Nat : DescriptorFile(c) \in Files(fs') => c = 1
    BY <1>1, FilesDiffer
  <2>2. Edit({}, {}, 0, 2, 0) # TornEdit
    <3>1. Edit({}, {}, 0, 2, 0) \in EditRecord
      BY DEF Edit, EditRecord
    <3>. QED
      BY <3>1, EditsNotTorn
  <2>. DEFINE e == Edit({}, {}, 0, 2, 0)
  <2>. HIDE DEF e
  <2>3. EditsIn(fs', 1) = <<e>> /\ e # TornEdit
    BY <1>1, <2>2 DEF e
  <2>4. TornEdit \notin Range1(EditsIn(fs', 1))
    BY <2>3 DEF Range1
  <2>. QED
    BY <1>5, <2>1, <2>4 DEF Untorn
<1>8. LogsHeld(fs)'
  BY <1>0 DEF LogsHeld
<1>9. RecoveryHeld(fs)'
  BY <1>0, <1>2 DEF RecoveryHeld, Found, QuietVars
<1>10. TablesSynced(fs)'
  <2>1. Made' \cup Named(fs') \subseteq Nat
    <3>1. Made' = {}
      BY <1>0, <1>2, NothingTyped DEF Made, Found, QuietVars
    <3>. QED
      BY <1>1, <3>1
  <2>. QED
    BY <1>5, <2>1 DEF TablesSynced, Named
<1>11. HistoryRight(fs)'
  <2>1. Begun(fs)' \subseteq (1 .. written)'
    BY <1>4
  <2>2. limbo' = Ids(Writing)'
    BY <1>4, <1>3, <1>2, NothingTyped, IdsOf DEF Writing
  <2>. QED
    BY <1>4, <2>1, <2>2 DEF HistoryRight
<1>12. AtMost(fs', {}) /\ AtLeast(fs', {})
  <2>. SUFFICES ASSUME NEW d \in Dirs(fs'), d.current # 0, NEW s \in Survivors(fs', d.current)
                PROVE  FindsOnly(fs', d, s, {})
    BY DEF AtMost, AtLeast
  <2>1. d.current \in Currents(fs') /\ d.names \subseteq Files(fs')
    BY <1>1 DEF Currents, DiskInv, DiskTyped, DirsTyped
  <2>2. TablesOf(s) = {}
    BY <1>1, <2>1, SurvivorFacts DEF DiskInv
  <2>. QED
    BY <1>5, <2>1, <2>2 DEF FindsOnly
<1>13. AtMost(fs, Begun(fs))' /\ AtLeast(fs, Promised)'
  BY <1>4, <1>12 DEF AtMost, AtLeast, Survivors, FindsOnly, Finds
<1>14. Untorn(fs)'
  BY <1>7 DEF Untorn
<1>. QED
  BY <1>0, <1>3, <1>4, <1>6, <1>8, <1>9, <1>10, <1>11, <1>13, <1>14 DEF StoreInv, SameStore

LEMMA InitStore == Init => StoreInv(fs)
<1>. SUFFICES ASSUME Init
              PROVE  StoreInv(fs)
  OBVIOUS
<1>1. Dirs(fs) = {[names |-> {}, current |-> 0]} /\ Files(fs) = {} /\ Dir(fs).current = 0
  <2>. DEFINE d == [names |-> {}, current |-> 0]
  <2>1. fs.dirs = <<d>> /\ fs.files = <<>>
    BY DEF Init, EmptyDisk
  <2>2. d.current = 0
    OBVIOUS
  <2>. HIDE DEF d
  <2>3. Dirs(fs) = {d}
    BY <2>1 DEF Dirs
  <2>4. Dir(fs) = d
    BY <2>1 DEF Dir
  <2>5. Files(fs) = {}
    BY <2>1 DEF Files
  <2>. QED
    BY <2>2, <2>3, <2>4, <2>5 DEF d
<1>2. Writing = {} /\ limbo = {} /\ safe = {} /\ Promised = {}
  BY NothingTyped DEF Init, Writing, Promised
<1>3. Holds(fs) = {} /\ Begun(fs) = {}
  <2>1. Recoverable(fs) = {}
    BY <1>1 DEF Recoverable, Readable
  <2>. QED
    BY <1>2, <2>1, IdsOf DEF Init, Holds, Begun
<1>4. ErrorFree
  BY DEF Init, ErrorFree, NoApply
<1>5. Untorn(fs) /\ LogsHeld(fs) /\ TablesSynced(fs)
  BY <1>1 DEF Init, Untorn, LogsHeld, TablesSynced
<1>6. RecoveryHeld(fs)
  BY DEF Init, RecoveryHeld, Found
<1>7. HistoryRight(fs)
  BY <1>2, <1>3, IdsOf DEF HistoryRight
<1>8. AtMost(fs, Begun(fs)) /\ AtLeast(fs, Promised)
  BY <1>1 DEF AtMost, AtLeast
<1>. QED
  BY <1>4, <1>5, <1>6, <1>7, <1>8 DEF StoreInv

LEMMA RecoverManifestStore ==
    ASSUME Inv, StoreInv(fs), RecoverManifest
    PROVE  StoreInv(fs)' /\ SameStore
<1>1. /\ phase = "down" /\ phase' = "recovering" /\ fs' = fs /\ Readable(fs)
      /\ version' = Opened(fs) /\ manifest' = LastEdit(fs).next /\ versionLog' = LastEdit(fs).log
      /\ toRecover' = LogsFrom(fs, LastEdit(fs).log)
      /\ UNCHANGED <<writer, safe, limbo, written, hidden, errors, bgError, flush, comp, apply,
                     recovered>>
  BY DEF RecoverManifest, Opened, LastEdit, historyVars, boundVars
<1>2. /\ recovered = {} /\ flush = NoFlush /\ comp = NoCompaction
  BY <1>1 DEF Inv, Steps, Quiet
<1>3. /\ Holds(fs)' = Holds(fs) /\ Begun(fs)' = Begun(fs) /\ Promised' = Promised
      /\ Writing' = Writing
  BY <1>1 DEF Holds, Begun, Promised, Writing
<1>4. ErrorFree' /\ Untorn(fs)' /\ LogsHeld(fs)'
  BY <1>1 DEF StoreInv, ErrorFree, Untorn, LogsHeld
<1>5. RecoveryHeld(fs)'
  <2>1. manifest' > 1
    <3>1. /\ Dir(fs).current \in Nat /\ Dir(fs).current > 0
          /\ LastEdit(fs) \in EditRecord /\ Dir(fs).current < LastEdit(fs).next
      BY <1>1, LastEditFacts DEF Inv
    <3>2. LastEdit(fs).next \in Nat
      BY <3>1 DEF EditRecord
    <3>. QED
      BY <1>1, <3>1, <3>2
  <2>2. \A m \in toRecover' : versionLog' <= m
    <3>1. LastEdit(fs).log \in Nat /\ DiskTyped(fs)
      BY <1>1, RecoverableIs DEF Inv, DiskInv
    <3>2. LogsFrom(fs, LastEdit(fs).log)
            = {m \in Nat : m >= LastEdit(fs).log /\ FileExists(fs, LogFile(m))}
      BY <3>1, LogsFromIs
    <3>. QED
      BY <1>1, <3>1, <3>2
  <2>3. Found' = {}
    BY <1>1, <1>2 DEF Found
  <2>. QED
    BY <2>1, <2>2, <2>3 DEF RecoveryHeld
<1>6. TablesSynced(fs)'
  <2>1. Made' \subseteq Named(fs)
    <3>1. Opened(fs) \subseteq Named(fs)
      BY <1>1, RecoverableIs DEF Inv
    <3>. QED
      BY <1>1, <1>2, <3>1, NothingTyped DEF Made, Found
  <2>. QED
    BY <1>1, <2>1 DEF StoreInv, TablesSynced, WhollySynced, Named
<1>7. HistoryRight(fs)'
  BY <1>1, <1>3 DEF StoreInv, HistoryRight
<1>8. AtMost(fs, Begun(fs))' /\ AtLeast(fs, Promised)'
  BY <1>1, <1>3 DEF StoreInv, AtMost, AtLeast, Survivors, FindsOnly, Finds
<1>. QED
  BY <1>1, <1>3, <1>4, <1>5, <1>6, <1>7, <1>8 DEF StoreInv, SameStore

LEMMA RecoverLogFileStore ==
    ASSUME Inv, Inv', KeepsInv(fs), StoreInv(fs), RecoverLogFile
    PROVE  StoreInv(fs)' /\ SameStore
<1>. DEFINE n == OldestLog
            batches == ReadLog(fs, n)
            s == SetToSeq(batches)
            f == TableFile(nextFile)
<1>0. /\ phase = "recovering" /\ phase' = "recovering" /\ toRecover # {}
      /\ toRecover' = toRecover \ {n}
      /\ \/ batches = {} /\ fs' = fs /\ recovered' = recovered
         \/ fs' = BuildTable(fs, nextFile, s) /\ recovered' = recovered \cup {nextFile}
      /\ UNCHANGED <<version, versionLog, manifest, writer, safe, limbo, written, hidden, errors,
                     bgError, flush, comp, apply>>
      /\ DiskInv(fs) /\ DiskInv(fs') /\ DiskTyped(fs) /\ Typed /\ Steps /\ ProcessInv(fs)
      /\ nextFile \in Nat
  BY DEF RecoverLogFile, RecoverBatches, historyVars, boundVars, Inv, DiskInv, Typed, TypedVersion
<1>1. /\ n \in toRecover /\ n \in Nat /\ FileExists(fs, LogFile(n)) /\ LogFile(n) \in Files(fs)
      /\ s \in Seq(Batch) /\ Range1(s) = batches
  BY <1>0, NextLog
<1>. HIDE DEF n, s
<1>2. apply.step = "none" /\ Adding = {} /\ Found = recovered /\ Found' = recovered'
  BY <1>0, NothingTyped DEF Steps, Adding, Found
<1>3. batches \subseteq Recoverable(fs)
  <2>1. Readable(fs) /\ LastEdit(fs).log = versionLog
    BY <1>0, <1>2 DEF KeepsInv, RecoveryKeeps
  <2>2. versionLog <= n
    BY <1>1 DEF StoreInv, RecoveryHeld
  <2>3. batches \subseteq Batch
    BY <1>0, <1>1, ReadTypes
  <2>4. batches \subseteq LoggedFrom(fs, versionLog)
    BY <1>1, <2>2, <2>3 DEF LoggedFrom
  <2>. QED
    BY <1>0, <2>1, <2>4, RecoverableIs
<1>4. /\ StoreInv(fs') /\ Holds(fs') = Holds(fs) /\ Recoverable(fs') = Recoverable(fs)
      /\ \A t \in recovered' \ recovered : /\ TableFile(t) \in Files(fs') => WhollySynced(fs', t)
                                           /\ ReadTable(fs', t) \subseteq Recoverable(fs')
  <2>1. CASE fs' = fs /\ recovered' = recovered
    BY <2>1
  <2>2. CASE fs' = BuildTable(fs, nextFile, s) /\ recovered' = recovered \cup {nextFile}
    <3>1. Touches(fs, fs', f) /\ Records(fs', f) = s /\ WhollySynced(fs', nextFile)
      BY <1>0, <1>1, <2>2, BuildTableTouches, BuildTableSynced
    <3>2. nextFile \notin Named(fs) \cup version \cup Found
      <4>1. /\ \A t \in Named(fs) : t > 0 /\ t < nextFile
            /\ version \cup Found \subseteq 1 .. nextFile - 1
        BY <1>0 DEF ProcessInv, Numbers
      <4>. QED
        BY <1>0, <4>1
    <3>3. Harmless(fs, fs', f)
      BY <1>0, <1>2, <3>2, NewTableHarmless DEF DiskInv
    <3>4. StoreInv(fs') /\ Holds(fs') = Holds(fs) /\ Recoverable(fs') = Recoverable(fs)
      BY <1>0, <3>1, <3>3, TableStore
    <3>5. ReadTable(fs', nextFile) = batches
      BY <1>1, <3>1 DEF ReadTable
    <3>. QED
      BY <1>3, <2>2, <3>1, <3>4, <3>5
  <2>. QED
    BY <1>0, <2>1, <2>2
<1>. HIDE DEF batches
<1>5. /\ Holds(fs)' = Holds(fs') /\ Begun(fs)' = Begun(fs') /\ Promised' = Promised
      /\ Writing' = Writing
  BY <1>0 DEF Holds, Begun, Promised, Writing
<1>6. ErrorFree' /\ Untorn(fs)' /\ LogsHeld(fs)'
  BY <1>0, <1>4 DEF StoreInv, ErrorFree, Untorn, LogsHeld
<1>7. RecoveryHeld(fs)'
  <2>1. \A m \in toRecover' : versionLog' <= m
    BY <1>0 DEF StoreInv, RecoveryHeld
  <2>2. \A t \in recovered : ReadTable(fs', t) \subseteq Recoverable(fs')
    BY <1>2, <1>4 DEF StoreInv, RecoveryHeld
  <2>3. \A t \in Found' : ReadTable(fs', t) \subseteq Recoverable(fs')
    BY <1>2, <1>4, <2>2
  <2>4. manifest' > 1
    BY <1>0 DEF StoreInv, RecoveryHeld
  <2>. QED
    BY <2>1, <2>3, <2>4 DEF RecoveryHeld
<1>8. TablesSynced(fs)'
  <2>1. \A t \in Made \cup Named(fs') : TableFile(t) \in Files(fs') => WhollySynced(fs', t)
    BY <1>4 DEF StoreInv, TablesSynced
  <2>2. Made' \subseteq Made \cup (recovered' \ recovered)
    BY <1>0, <1>2 DEF Made
  <2>3. \A t \in Made' \cup Named(fs') : TableFile(t) \in Files(fs') => WhollySynced(fs', t)
    BY <1>4, <2>1, <2>2
  <2>. QED
    BY <2>3 DEF TablesSynced, WhollySynced, Named
<1>9. HistoryRight(fs)'
  BY <1>0, <1>4, <1>5 DEF StoreInv, HistoryRight
<1>10. AtMost(fs, Begun(fs))' /\ AtLeast(fs, Promised)'
  <2>1. AtMost(fs', Begun(fs)') /\ AtLeast(fs', Promised')
    BY <1>4, <1>5 DEF StoreInv
  <2>. QED
    BY <2>1 DEF AtMost, AtLeast, Survivors, FindsOnly, Finds
<1>. QED
  BY <1>0, <1>4, <1>5, <1>6, <1>7, <1>8, <1>9, <1>10 DEF StoreInv, SameStore

LEMMA OpenLogFacts ==
    ASSUME Inv, Inv', KeepsInv(fs), StoreInv(fs), OpenLog
    PROVE  LET f == LogFile(nextFile)
           IN  /\ phase = "recovering" /\ toRecover = {} /\ phase' = "opening"
               /\ apply'.step = "append" /\ logNumber' = nextFile /\ nextFile \in Nat
               /\ UNCHANGED <<version, versionLog, manifest, writer, safe, limbo, written, hidden,
                              errors, bgError, flush, comp, toRecover, recovered, mem, imm>>
               /\ Touches(fs, fs', f) /\ f \notin Files(fs) /\ f \notin Dir(fs).names
               /\ Records(fs', f) = <<>> /\ ReadLog(fs', nextFile) = {}
               /\ \A m \in Nat : LogFile(m) \in Files(fs) => m < nextFile
               /\ OpenKept(fs, fs') /\ Readable(fs)
<1>. DEFINE f == LogFile(nextFile)
<1>0. /\ phase = "recovering" /\ toRecover = {} /\ phase' = "opening" /\ apply'.step = "append"
      /\ logNumber' = nextFile
      /\ fs' = NewWritableFile(fs, f) /\ nextFile \in Nat
      /\ UNCHANGED <<version, versionLog, manifest, writer, safe, limbo, written, hidden,
                     errors, bgError, flush, comp, toRecover, recovered, mem, imm>>
      /\ DiskInv(fs) /\ DiskTyped(fs) /\ DirsRight(fs) /\ ProcessInv(fs) /\ Dir(fs).current > 0
  BY DEF OpenLog, BeginApply, recoveryVars, historyVars, boundVars, Inv, DiskInv, Typed,
         TypedVersion, ProcessInv, Numbers
<1>1. Touches(fs, fs', f) /\ ReadLog(fs', nextFile) = {} /\ Records(fs', f) = <<>>
  <2>1. f \in File
    BY <1>0, FileTypes
  <2>. QED
    BY <1>0, <2>1, LogStarted, NewFileTouches
<1>2. \A m \in Nat : LogFile(m) \in Files(fs) => m < nextFile
  BY <1>0 DEF ProcessInv, Numbers
<1>3. f \notin Files(fs)
  BY <1>0, <1>2
<1>4. f \notin Dir(fs).names
  BY <1>0, <1>3, DirParts DEF DiskTyped, DirsTyped
<1>5. Readable(fs)
  BY <1>0 DEF KeepsInv, RecoveryKeeps
<1>6. OpenKept(fs, fs')
  <2>1. /\ f # DescriptorFile(Dir(fs).current)
        /\ \A t \in Opened(fs) : f # TableFile(t)
    BY <1>0, <1>5, FilesDiffer, CurrentOfDir, RecoverableIs
  <2>. QED
    BY <1>0, <1>1, <1>4, <2>1, TouchOpenKept
<1>. QED
  BY <1>0, <1>1, <1>2, <1>3, <1>4, <1>5, <1>6

LEMMA OpenLogStore ==
    ASSUME Inv, Inv', KeepsInv(fs), StoreInv(fs), OpenLog
    PROVE  StoreInv(fs)' /\ SameStore
<1>. DEFINE E == fs'
            f == LogFile(nextFile)
<1>1. /\ phase = "recovering" /\ toRecover = {} /\ phase' = "opening"
      /\ apply'.step = "append" /\ logNumber' = nextFile /\ nextFile \in Nat
      /\ UNCHANGED <<version, versionLog, manifest, writer, safe, limbo, written, hidden,
                     errors, bgError, flush, comp, toRecover, recovered, mem, imm>>
      /\ Touches(fs, E, f) /\ f \notin Files(fs) /\ f \notin Dir(fs).names
      /\ Records(E, f) = <<>> /\ ReadLog(E, nextFile) = {}
      /\ \A m \in Nat : LogFile(m) \in Files(fs) => m < nextFile
      /\ OpenKept(fs, E) /\ Readable(fs)
  BY OpenLogFacts
<1>2. /\ DiskTyped(fs) /\ DirsRight(fs) /\ DiskInv(fs) /\ Typed /\ Steps /\ ProcessInv(fs)
      /\ DiskTyped(E) /\ DirsRight(E) /\ DiskInv(E) /\ Dir(fs).current > 0
  BY <1>1 DEF Inv, DiskInv, ProcessInv, Numbers
<1>3. /\ \A n \in Nat : f # TableFile(n) /\ f # DescriptorFile(n)
      /\ \A n \in Nat : LogFile(n) = f => n = nextFile
  BY <1>1, FilesDiffer
<1>4. \A g \in Files(E) : g # f => g \in Files(fs) /\ Records(E, g) = Records(fs, g)
                                   /\ Synced(E, g) = Synced(fs, g)
  <2>. HIDE DEF f, E
  <2>. QED
    BY <1>1, <1>2, TouchOthers
<1>5. Recoverable(E) = Recoverable(fs)
  <2>1. ASSUME NEW n \in Nat, FileExists(E, LogFile(n)), LogFile(n) # f
        PROVE  FileExists(fs, LogFile(n)) /\ ReadLog(E, n) \subseteq ReadLog(fs, n)
    <3>1. LogFile(n) \in Dir(fs).names /\ LogFile(n) \in Files(E)
      BY <1>1, <1>2, <2>1, DirParts DEF FileExists, Touches, DiskTyped, DirsTyped
    <3>. QED
      BY <1>4, <2>1, <3>1 DEF FileExists, ReadLog
  <2>2. \A n \in Nat : LogFile(n) = f => ReadLog(E, n) = {}
    BY <1>1, <1>3
  <2>. HIDE DEF E, f
  <2>. QED
    BY <1>1, <1>2, <2>1, <2>2, SameRecoverable
<1>6. /\ Holds(fs)' = Holds(fs) /\ Begun(fs)' = Begun(fs) /\ Promised' = Promised
      /\ Writing' = Writing
  BY <1>1, <1>5 DEF Holds, Begun, Promised, Writing
<1>7. ErrorFree' /\ Untorn(fs)'
  <2>1. ErrorFree'
    BY <1>1 DEF StoreInv, ErrorFree
  <2>2. ASSUME NEW n \in Nat, LogFile(n) \in Files(E) PROVE Torn \notin Range1(Records(E, LogFile(n)))
    <3>1. CASE LogFile(n) = f
      BY <1>1, <3>1, EmptySeen
    <3>2. CASE LogFile(n) # f
      BY <1>4, <2>2, <3>2 DEF StoreInv, Untorn
    <3>. QED
      BY <3>1, <3>2
  <2>3. ASSUME NEW c \in Nat, DescriptorFile(c) \in Files(E) PROVE TornEdit \notin Range1(EditsIn(E, c))
    BY <1>3, <1>4, <2>3 DEF StoreInv, Untorn, EditsIn
  <2>. QED
    BY <2>1, <2>2, <2>3 DEF Untorn
<1>8. LogsHeld(fs)'
  <2>. SUFFICES ASSUME NEW n \in Nat, LogFile(n) \in Files(E)
                PROVE  /\ n <= nextFile
                       /\ n = nextFile => ReadLog(E, n) \subseteq Range1(mem') \cup Writing'
    BY <1>1 DEF LogsHeld
  <2>1. CASE n = nextFile
    BY <1>1, <2>1
  <2>2. CASE n # nextFile
    BY <1>1, <1>3, <1>4, <2>2
  <2>. QED
    BY <2>1, <2>2
<1>9. RecoveryHeld(fs)'
  <2>1. \A t \in recovered : ReadTable(fs, t) \subseteq Recoverable(fs)
    BY <1>1 DEF StoreInv, RecoveryHeld, Found
  <2>2. \A t \in recovered : t \in Nat /\ TableFile(t) \in Files(E)
    BY <1>1, <1>2, DirParts DEF ProcessInv, InUse, Found, FileExists, Touches, DiskTyped, DirsTyped,
                                Typed, TypedVersion
  <2>3. \A t \in recovered : ReadTable(E, t) = ReadTable(fs, t)
    BY <1>3, <1>4, <2>2 DEF ReadTable
  <2>. QED
    BY <1>1, <1>5, <2>1, <2>3 DEF StoreInv, RecoveryHeld, Found
<1>10. Named(fs) \subseteq Nat /\ Currents(fs) \subseteq Nat
  BY <1>2, CurrentFacts DEF Named
<1>11. TablesSynced(fs)'
  <2>1. Named(E) \subseteq Named(fs)
    <3>1. Currents(E) \subseteq Currents(fs)
      <4>. HIDE DEF E, f
      <4>. QED
        BY <1>1, <1>2, TouchDirs
    <3>2. \A c \in Currents(E) : EditsIn(E, c) = EditsIn(fs, c)
      BY <1>2, <1>3, <1>4, CurrentFacts DEF EditsIn
    <3>. QED
      BY <3>1, <3>2 DEF Named
  <2>2. Made \cup Named(fs) \subseteq Nat
    BY <1>2 DEF Made, Named, Found, Typed, TypedVersion, TypedWork, FlushRecord, CompactionRecord
  <2>3. Made' = Made
    BY <1>1 DEF Made, Found
  <2>4. \A t \in Made \cup Named(E) : TableFile(t) \in Files(E) => WhollySynced(E, t)
    BY <1>3, <1>4, <2>1, <2>2 DEF StoreInv, TablesSynced, WhollySynced
  <2>. QED
    BY <2>3, <2>4 DEF TablesSynced, WhollySynced, Named
<1>12. HistoryRight(fs)'
  <2>1. \A d \in Dirs(E) : \E o \in Dirs(fs) : o.current = d.current
    BY <1>1, <1>2, DirParts DEF Touches, DiskTyped
  <2>2. Promised = {} \/ \A d \in Dirs(E) : d.current > 1
    BY <2>1 DEF StoreInv, HistoryRight
  <2>. QED
    BY <1>1, <1>6, <2>2 DEF StoreInv, HistoryRight
<1>13. AtMost(E, Begun(fs)) /\ AtLeast(E, Promised)
  <2>. DEFINE A == Begun(fs)
  <2>1. AtMost(fs, A) /\ AtLeast(fs, Promised)
    BY DEF StoreInv
  <2>. HIDE DEF A, E
  <2>2. \A n \in Nat : f = LogFile(n) => Ids(ReadLog(E, n)) \subseteq A
    BY <1>1, <1>3, IdsOf
  <2>. HIDE DEF f
  <2>3. AtMost(E, A)
    BY <1>1, <1>2, <1>3, <1>10, <2>1, <2>2, TouchAtMost
  <2>4. AtLeast(E, Promised)
    BY <1>1, <1>2, <1>3, <1>10, <2>1, TouchAtLeast
  <2>. QED
    BY <2>3, <2>4 DEF A
<1>14. AtMost(fs, Begun(fs))' /\ AtLeast(fs, Promised)'
  BY <1>6, <1>13 DEF AtMost, AtLeast, Survivors, FindsOnly, Finds
<1>. QED
  BY <1>1, <1>6, <1>7, <1>8, <1>9, <1>11, <1>12, <1>14 DEF StoreInv, SameStore

\* What a reader finds, and the write that is under way, is what the next open
\* would find.
LEMMA OpenFinds ==
    ASSUME Inv, KeepsInv(fs), StoreInv(fs)
    PROVE  Ids(Recoverable(fs)) = Begun(fs)
<1>0. /\ DiskInv(fs) /\ DiskTyped(fs) /\ Typed /\ Steps /\ ProcessInv(fs) /\ Untorn(fs)
      /\ hidden = {} /\ limbo = Ids(Writing) /\ AtMost(fs, Begun(fs))
  BY DEF Inv, DiskInv, StoreInv, ErrorFree, HistoryRight
<1>1. CASE phase # "up"
  <2>1. Writing = {}
    BY <1>0, <1>1, NothingTyped DEF Steps, Quiet, Writing
  <2>2. limbo = {}
    BY <1>0, <2>1, IdsOf
  <2>. QED
    BY <1>1, <2>2 DEF Begun, Holds
<1>2. CASE phase = "up"
  <2>1. /\ Readable(fs) /\ Dir(fs).current = manifest /\ manifest \in Currents(fs)
        /\ Edits(fs) \in Survivors(fs, manifest)
        /\ Edits(fs)[Len(Edits(fs))] = LastEdit(fs)
    BY <1>2, ManifestUp
  <2>2. /\ LastEdit(fs).log \in Nat
        /\ TablesRead(fs, Opened(fs)) \subseteq Recoverable(fs)
        /\ LoggedFrom(fs, LastEdit(fs).log) \subseteq Recoverable(fs)
        /\ Recoverable(fs) \subseteq TablesRead(fs, Opened(fs)) \cup LoggedFrom(fs, LastEdit(fs).log)
        /\ ~Damaged(fs)
        /\ \A t \in Opened(fs) : TableFile(t) \in Files(fs)
    BY <1>0, <2>1, RecoverableIs
  <2>3. Ids(Recoverable(fs)) \subseteq Begun(fs)
    <3>1. Dir(fs) \in Dirs(fs) /\ Dir(fs).current # 0
      BY <1>0, <2>1, DirParts DEF DiskTyped, Currents
    <3>2. FindsOnly(fs, Dir(fs), Edits(fs), Begun(fs))
      BY <1>0, <2>1, <3>1 DEF AtMost
    <3>3. \A t \in Opened(fs) : Ids(ReadTable(fs, t)) \subseteq Begun(fs)
      BY <2>2, <3>2 DEF FindsOnly, Opened
    <3>4. \A n \in Nat : LastEdit(fs).log <= n /\ FileExists(fs, LogFile(n)) =>
             Ids(ReadLog(fs, n)) \subseteq Begun(fs)
      BY <2>1, <3>2 DEF FindsOnly, FileExists
    <3>5. ASSUME NEW b \in Recoverable(fs) PROVE b.id \in Begun(fs)
      <4>1. CASE b \in TablesRead(fs, Opened(fs))
        BY <3>3, <4>1 DEF TablesRead, Ids
      <4>2. CASE b \in LoggedFrom(fs, LastEdit(fs).log)
        BY <3>4, <4>2 DEF LoggedFrom, Ids
      <4>. QED
        BY <2>2, <4>1, <4>2
    <3>. QED
      BY <3>5 DEF Ids
  <2>4. Range1(mem) \cup Writing \subseteq Recoverable(fs)
    <3>1. LastEdit(fs).log <= logNumber /\ logNumber \in Nat /\ FileExists(fs, LogFile(logNumber))
      <4>1. LogsUpTo(fs, logNumber)
        BY <1>0, <1>2 DEF ProcessInv, Numbers
      <4>2. LastEdit(fs).log <= logNumber
        BY <1>0, <2>1, <4>1, LastEditLog
      <4>. QED
        BY <1>0, <1>2, <4>2 DEF Typed, TypedMemory, ProcessInv, InUse
    <3>2. LogFile(logNumber) \in Files(fs)
      BY <1>0, <3>1, DirParts DEF FileExists, DiskTyped, DirsTyped
    <3>3. Range1(mem) \cup Writing \subseteq ReadLog(fs, logNumber)
      BY <1>0, <1>2 DEF KeepsInv, MemLogged
    <3>4. ReadLog(fs, logNumber) \subseteq Batch
      BY <1>0, <3>1, <3>2, ReadTypes
    <3>5. ReadLog(fs, logNumber) \subseteq LoggedFrom(fs, LastEdit(fs).log)
      BY <3>1, <3>4 DEF LoggedFrom
    <3>. QED
      BY <2>2, <3>3, <3>5
  <2>5. Range1(imm) \subseteq Recoverable(fs)
    BY <1>0, <1>2, <2>2 DEF KeepsInv, ManifestKeeps
  <2>6. \A t \in version : ReadTable(fs, t) \subseteq Recoverable(fs)
    BY <1>2, <2>2 DEF KeepsInv, ManifestKeeps
  <2>7. Shown(fs) \cup Writing \subseteq Recoverable(fs)
    BY <2>4, <2>5, <2>6 DEF Shown
  <2>8. Begun(fs) \subseteq Ids(Recoverable(fs))
    <3>1. Begun(fs) = Ids(Shown(fs)) \cup Ids(Writing)
      BY <1>0, <1>2 DEF Begun, Holds
    <3>. QED
      BY <2>7, <3>1 DEF Ids
  <2>. QED
    BY <2>3, <2>8
<1>. QED
  BY <1>1, <1>2

LEMMA DownStore ==
    ASSUME NoProcess, StoreInv(fs), limbo' = {}, UNCHANGED <<written, safe, hidden, errors>>,
           Untorn(fs'),
           \A t \in Named(fs') : TableFile(t) \in Files(fs') => WhollySynced(fs', t),
           AtMost(fs', Ids(Recoverable(fs'))), AtLeast(fs', safe),
           safe = {} \/ \A d \in Dirs(fs') : d.current > 1,
           Ids(Recoverable(fs')) \subseteq 1 .. written
    PROVE  StoreInv(fs)' /\ Holds(fs)' = Ids(Recoverable(fs')) /\ phase' = "down"
<1>1. /\ phase' = "down" /\ writer' = NoWrite /\ version' = {} /\ recovered' = {}
      /\ toRecover' = {} /\ bgError' = FALSE
      /\ flush' = NoFlush /\ comp' = NoCompaction /\ apply' = NoApply
  BY DEF NoProcess
<1>2. /\ Holds(fs)' = Ids(Recoverable(fs')) /\ Begun(fs)' = Ids(Recoverable(fs'))
      /\ Promised' = safe /\ Writing' = {} /\ Made' = {}
  <2>1. Holds(fs)' = Ids(Recoverable(fs'))
    BY <1>1 DEF Holds
  <2>2. Promised' = safe /\ Writing' = {} /\ Made' = {}
    BY <1>1, NothingTyped DEF Promised, Writing, Made, Found
  <2>. QED
    BY <2>1, <2>2 DEF Begun
<1>3. ErrorFree'
  BY <1>1, NothingTyped DEF StoreInv, ErrorFree
<1>4. Untorn(fs)' /\ LogsHeld(fs)' /\ RecoveryHeld(fs)'
  BY <1>1 DEF Untorn, LogsHeld, RecoveryHeld, Found
<1>5. TablesSynced(fs)'
  <2>1. \A t \in Made' \cup Named(fs') : TableFile(t) \in Files(fs') => WhollySynced(fs', t)
    BY <1>2
  <2>. QED
    BY <2>1 DEF TablesSynced, WhollySynced, Named
<1>6. HistoryRight(fs)'
  BY <1>2, IdsOf DEF HistoryRight
<1>7. AtMost(fs, Begun(fs))' /\ AtLeast(fs, Promised)'
  <2>1. AtMost(fs', Begun(fs)') /\ AtLeast(fs', Promised')
    BY <1>2
  <2>. QED
    BY <2>1 DEF AtMost, AtLeast, Survivors, FindsOnly, Finds
<1>. QED
  BY <1>1, <1>2, <1>3, <1>4, <1>5, <1>6, <1>7 DEF StoreInv

LEMMA KillStore ==
    ASSUME Inv, KeepsInv(fs), StoreInv(fs), Kill
    PROVE  /\ StoreInv(fs)' /\ phase' = "down" /\ limbo' = {} /\ safe' = safe
           /\ \E more \in SUBSET limbo : Holds(fs)' = Holds(fs) \cup more
<1>1. /\ NoProcess /\ limbo' = {} /\ fs' = fs
      /\ UNCHANGED <<written, safe, hidden, errors>>
  BY DEF Kill
<1>2. Ids(Recoverable(fs)) = Begun(fs)
  BY OpenFinds
<1>3. /\ Untorn(fs') /\ AtMost(fs', Ids(Recoverable(fs'))) /\ AtLeast(fs', Promised)
      /\ safe \subseteq Promised
      /\ Promised = {} \/ \A d \in Dirs(fs') : d.current > 1
      /\ Ids(Recoverable(fs')) \subseteq 1 .. written
      /\ \A t \in Named(fs') : TableFile(t) \in Files(fs') => WhollySynced(fs', t)
  BY <1>1, <1>2 DEF StoreInv, HistoryRight, TablesSynced, Promised
<1>4. AtLeast(fs', safe) /\ (safe = {} \/ \A d \in Dirs(fs') : d.current > 1)
  BY <1>3 DEF AtLeast
<1>5. StoreInv(fs)' /\ Holds(fs)' = Ids(Recoverable(fs')) /\ phase' = "down"
  BY <1>1, <1>3, <1>4, DownStore
<1>6. Holds(fs)' = Holds(fs) \cup limbo
  BY <1>1, <1>2, <1>5 DEF Begun
<1>. QED
  BY <1>1, <1>5, <1>6

\* The manifest that NewDB writes names no table, and is written to no more.
FirstEmpty(disk) ==
    DescriptorFile(1) \in Files(disk) =>
       \A k \in DOMAIN EditsIn(disk, 1) :
          EditsIn(disk, 1)[k] # TornEdit => EditsIn(disk, 1)[k].added = {}

\* What a death of the machine leaves of each file.
Cuts(D, E, d) ==
    /\ d \in Dirs(D) /\ Dirs(E) = {d} /\ Dir(E) = d /\ Files(E) = d.names
    /\ \A f \in Files(E) :
          /\ f \in Files(D) /\ Prefix(Records(E, f), Records(D, f))
          /\ Len(Records(E, f)) \in Nat /\ DOMAIN Records(E, f) = 1 .. Len(Records(E, f))
          /\ Synced(E, f) = Len(Records(E, f)) /\ Synced(D, f) <= Len(Records(E, f))
          /\ Synced(D, f) = Len(Records(D, f)) => Records(E, f) = Records(D, f)

LEMMA PowerFailureCuts ==
    ASSUME NEW D, DiskTyped(D), NEW E \in AfterPowerFailure(D)
    PROVE  DiskTyped(E) /\ \E d : Cuts(D, E, d)
<1>1. /\ DiskTyped(E) /\ Files(E) \subseteq Files(D)
      /\ \A f \in Files(E) : \E n \in Synced(D, f) .. Len(Records(D, f)) :
            Records(E, f) = SubSeq(Records(D, f), 1, n) /\ Synced(E, f) = n
  BY PowerFailureDisk
<1>2. PICK d \in Dirs(D) : Dirs(E) = {d} /\ Dir(E) = d /\ Files(E) = d.names
  BY PowerFailureDisk
<1>3. ASSUME NEW f \in Files(E)
      PROVE  /\ f \in Files(D) /\ Prefix(Records(E, f), Records(D, f))
             /\ Len(Records(E, f)) \in Nat /\ DOMAIN Records(E, f) = 1 .. Len(Records(E, f))
             /\ Synced(E, f) = Len(Records(E, f)) /\ Synced(D, f) <= Len(Records(E, f))
             /\ Synced(D, f) = Len(Records(D, f)) => Records(E, f) = Records(D, f)
  <2>1. PICK n \in Synced(D, f) .. Len(Records(D, f)) :
             Records(E, f) = SubSeq(Records(D, f), 1, n) /\ Synced(E, f) = n
    BY <1>1, <1>3
  <2>2. f \in Files(D)
    BY <1>1, <1>3
  <2>. DEFINE s == Records(D, f)
              S == Item(f)
  <2>3. s \in Seq(S) /\ Len(s) \in Nat /\ Synced(D, f) \in Nat
    BY <2>2, FileParts DEF DiskTyped
  <2>4. n \in 0 .. Len(s) /\ Synced(D, f) <= n
    BY <2>1, <2>3
  <2>5. Records(E, f) = SubSeq(s, 1, n)
    BY <2>1
  <2>. HIDE DEF s, S
  <2>6. /\ Len(SubSeq(s, 1, n)) = n /\ DOMAIN SubSeq(s, 1, n) = 1 .. n
        /\ SubSeq(s, 1, n) \in Seq(S)
        /\ \A i \in 1 .. n : SubSeq(s, 1, n)[i] = s[i]
        /\ Prefix(SubSeq(s, 1, n), s)
    BY <2>3, <2>4, CutPrefix
  <2>7. Len(s) = n => SubSeq(s, 1, n) = s
    BY <2>3, <2>6
  <2>8. Synced(D, f) = Len(s) => Len(s) = n
    BY <2>3, <2>4
  <2>9. n \in Nat
    BY <2>3, <2>4
  <2>10. s = Records(D, f)
    BY DEF s
  <2>. QED
    BY <2>1, <2>2, <2>4, <2>5, <2>6, <2>7, <2>8, <2>9, <2>10
<1>. QED
  BY <1>1, <1>2, <1>3 DEF Cuts

LEMMA CutFirstEmpty ==
    ASSUME NEW D, NEW E, NEW d, Cuts(D, E, d), FirstEmpty(D)
    PROVE  FirstEmpty(E)
<1>. SUFFICES ASSUME DescriptorFile(1) \in Files(E), NEW k \in DOMAIN EditsIn(E, 1),
                     EditsIn(E, 1)[k] # TornEdit
              PROVE  EditsIn(E, 1)[k].added = {}
  BY DEF FirstEmpty
<1>1. DescriptorFile(1) \in Files(D) /\ Prefix(EditsIn(E, 1), EditsIn(D, 1))
  BY DEF Cuts, EditsIn
<1>2. k \in DOMAIN EditsIn(D, 1) /\ EditsIn(E, 1)[k] = EditsIn(D, 1)[k]
  BY <1>1 DEF Prefix
<1>. QED
  BY <1>1, <1>2 DEF FirstEmpty

LEMMA CutUntorn ==
    ASSUME NEW D, NEW E, NEW d, Cuts(D, E, d), Untorn(D)
    PROVE  Untorn(E)
<1>1. ASSUME NEW f \in Files(E)
      PROVE  f \in Files(D) /\ Range1(Records(E, f)) \subseteq Range1(Records(D, f))
  BY <1>1 DEF Cuts, Prefix, Range1
<1>. QED
  BY <1>1 DEF Untorn, EditsIn

\* What survives in the new disk is the whole manifest, which survived in the old.
LEMMA CutSurvivors ==
    ASSUME NEW D, NEW E, NEW d, DiskInv(D), DiskInv(E), Cuts(D, E, d), d.current # 0,
           NEW s \in Survivors(E, d.current)
    PROVE  /\ s = EditsIn(E, d.current) /\ s \in Survivors(D, d.current)
           /\ d.current \in Currents(E) /\ d.current \in Currents(D)
           /\ DescriptorFile(d.current) \in Files(E)
<1>. DEFINE c == d.current
<1>1. /\ DiskTyped(D) /\ DirsRight(D) /\ DiskTyped(E) /\ DirsRight(E)
      /\ c \in Currents(D) /\ c \in Currents(E)
  BY DEF DiskInv, Cuts, Currents
<1>2. DescriptorFile(c) \in Files(E)
  BY <1>1, CurrentFacts
<1>3. s = EditsIn(E, c)
  <2>1. Synced(E, DescriptorFile(c)) = Len(EditsIn(E, c))
    BY <1>2 DEF Cuts, EditsIn
  <2>. HIDE DEF c
  <2>. QED
    BY <1>1, <2>1, WholeOnly DEF c
<1>4. s \in Survivors(D, c)
  <2>1. Prefix(EditsIn(E, c), EditsIn(D, c)) /\ Synced(D, DescriptorFile(c)) <= Len(EditsIn(E, c))
    BY <1>2 DEF Cuts, EditsIn
  <2>. QED
    BY <1>3, <2>1 DEF Survivors, Survives
<1>. QED
  BY <1>1, <1>2, <1>3, <1>4

LEMMA CutReads ==
    ASSUME NEW D, NEW E, NEW d, DiskTyped(D), DiskTyped(E), Cuts(D, E, d), Untorn(E)
    PROVE  /\ \A t \in Nat : TableFile(t) \in Files(E) =>
                 /\ TableFile(t) \in Files(D) /\ ReadTable(E, t) \subseteq ReadTable(D, t)
                 /\ WhollySynced(E, t)
                 /\ WhollySynced(D, t) => ReadTable(E, t) = ReadTable(D, t)
           /\ \A n \in Nat : LogFile(n) \in Files(E) =>
                 /\ LogFile(n) \in Files(D) /\ ReadLog(E, n) \subseteq ReadLog(D, n)
                 /\ SyncedLog(D, n) \subseteq SyncedLog(E, n)
<1>1. ASSUME NEW t \in Nat, TableFile(t) \in Files(E)
      PROVE  /\ TableFile(t) \in Files(D) /\ ReadTable(E, t) \subseteq ReadTable(D, t)
             /\ WhollySynced(E, t)
             /\ WhollySynced(D, t) => ReadTable(E, t) = ReadTable(D, t)
  BY <1>1 DEF Cuts, ReadTable, Range1, Prefix, WhollySynced
<1>2. ASSUME NEW n \in Nat, LogFile(n) \in Files(E)
      PROVE  /\ LogFile(n) \in Files(D) /\ ReadLog(E, n) \subseteq ReadLog(D, n)
             /\ SyncedLog(D, n) \subseteq SyncedLog(E, n)
  <2>. DEFINE f == LogFile(n)
  <2>1. /\ f \in Files(D) /\ Prefix(Records(E, f), Records(D, f))
        /\ Len(Records(E, f)) \in Nat
        /\ Synced(E, f) = Len(Records(E, f)) /\ Synced(D, f) <= Len(Records(E, f))
        /\ DOMAIN Records(E, f) = 1 .. Len(Records(E, f))
    BY <1>2 DEF Cuts
  <2>2. Records(D, f) \in Seq(Batch) /\ Records(E, f) \in Seq(Batch) /\ Synced(D, f) \in Nat
    BY <1>2, <2>1, ReadTypes, FileParts DEF DiskTyped
  <2>3. ReadLog(E, n) \subseteq ReadLog(D, n)
    BY <2>1, <2>2, SeenOfPrefix, SeenLog
  <2>4. SyncedLog(D, n) \subseteq SyncedLog(E, n)
    <3>1. \A i \in 1 .. Synced(D, f) : /\ i \in 1 .. Synced(E, f)
                                       /\ Records(D, f)[i] = Records(E, f)[i]
      BY <2>1, <2>2 DEF Prefix
    <3>. QED
      BY <3>1 DEF SyncedLog
  <2>. QED
    BY <2>1, <2>3, <2>4
<1>. QED
  BY <1>1, <1>2

LEMMA RecoverableWithin ==
    ASSUME NEW D, DiskInv(D), Readable(D), NEW A, FindsOnly(D, Dir(D), Edits(D), A)
    PROVE  Ids(Recoverable(D)) \subseteq A
<1>1. /\ Recoverable(D) \subseteq TablesRead(D, Opened(D)) \cup LoggedFrom(D, LastEdit(D).log)
      /\ \A t \in Opened(D) : TableFile(t) \in Files(D)
  BY RecoverableIs
<1>2. \A t \in Opened(D) : Ids(ReadTable(D, t)) \subseteq A
  BY <1>1 DEF FindsOnly, Opened
<1>3. \A n \in Nat : LastEdit(D).log <= n /\ FileExists(D, LogFile(n)) => Ids(ReadLog(D, n)) \subseteq A
  BY DEF FindsOnly, FileExists, LastEdit
<1>4. ASSUME NEW b \in Recoverable(D) PROVE b.id \in A
  <2>1. CASE b \in TablesRead(D, Opened(D))
    BY <1>2, <2>1 DEF TablesRead, Ids
  <2>2. CASE b \in LoggedFrom(D, LastEdit(D).log)
    BY <1>3, <2>2 DEF LoggedFrom, Ids
  <2>. QED
    BY <1>1, <2>1, <2>2
<1>. QED
  BY <1>4 DEF Ids

LEMMA CutKept ==
    ASSUME NEW D, NEW E, NEW d, DiskInv(D), DiskInv(E), Cuts(D, E, d), Untorn(E), d.current # 0,
           \A t \in Named(D) : TableFile(t) \in Files(D) => WhollySynced(D, t),
           NEW s \in Survivors(E, d.current), NEW A, AtMost(D, A), NEW S, AtLeast(D, S)
    PROVE  FindsOnly(E, d, s, A) /\ \A w \in S : Finds(E, d, s, w)
<1>0. /\ DiskTyped(D) /\ DirsRight(D) /\ DiskTyped(E) /\ d \in Dirs(D) /\ Files(E) = d.names
  BY DEF DiskInv, Cuts
<1>1. s \in Survivors(D, d.current) /\ d.current \in Currents(D)
  BY CutSurvivors
<1>2. TablesOf(s) \subseteq Named(D) /\ TablesOf(s) \subseteq Nat
  BY <1>0, <1>1, SurvivorFacts
<1>3. FindsOnly(D, d, s, A) /\ \A w \in S : Finds(D, d, s, w)
  BY <1>0, <1>1 DEF AtMost, AtLeast
<1>4. \A t \in TablesOf(s) : TableFile(t) \in Files(E) =>
         TableFile(t) \in Files(D) /\ ReadTable(E, t) = ReadTable(D, t)
  BY <1>0, <1>2, CutReads
<1>5. \A n \in Nat : LogFile(n) \in d.names =>
         ReadLog(E, n) \subseteq ReadLog(D, n) /\ SyncedLog(D, n) \subseteq SyncedLog(E, n)
  BY <1>0, CutReads
<1>6. FindsOnly(E, d, s, A)
  BY <1>3, <1>4, <1>5, FindsOnlyKept
<1>7. ASSUME NEW w \in S PROVE Finds(E, d, s, w)
  BY <1>0, <1>3, <1>4, <1>5, FindsKept
<1>. QED
  BY <1>6, <1>7

\* A manifest that survives the machine's death can be opened.
LEMMA SurvivorReads ==
    ASSUME NEW E, DiskInv(E), Untorn(E), OpensAlways(E), FirstEmpty(E),
           Dir(E).current > 1 \/ EditsIn(E, Dir(E).current) \in Survivors(E, Dir(E).current),
           Dir(E).current # 0
    PROVE  Readable(E)
<1>. DEFINE c == Dir(E).current
            s == EditsIn(E, c)
<1>1. /\ DiskTyped(E) /\ DirsRight(E) /\ c \in Nat /\ c \in Currents(E)
      /\ DescriptorFile(c) \in Files(E)
  BY CurrentOfDir, CurrentFacts DEF DiskInv
<1>2. TornEdit \notin Range1(s)
  BY <1>1 DEF Untorn
<1>3. Edits(E) = s
  <2>1. s # <<>> => Last(s) \in Range1(s)
    <3>. DEFINE S == EditRecord \cup {TornEdit}
    <3>1. s \in Seq(S)
      BY <1>1, CurrentFacts
    <3>. HIDE DEF s, S
    <3>. QED
      BY <3>1 DEF Last, Range1
  <2>2. Edits(E) = Complete(s)
    BY EditsComplete
  <2>. HIDE DEF s
  <2>. QED
    BY <1>2, <2>1, <2>2 DEF Complete
<1>4. CASE c > 1
  <2>1. Readable(E) \/ TornEdit \in Range1(Edits(E))
    BY <1>1, <1>4, OpensNow
  <2>. QED
    BY <1>2, <1>3, <2>1
<1>5. CASE ~(c > 1)
  <2>1. c = 1 /\ s \in Survivors(E, c)
    BY <1>1, <1>5
  <2>2. s # <<>> /\ s[Len(s)].numbers
    BY <2>1 DEF Survivors
  <2>3. TablesOf(s) = {}
    <3>1. \A k \in DOMAIN s : s[k].added = {}
      BY <1>1, <1>2, <2>1 DEF FirstEmpty, Range1
    <3>. HIDE DEF s
    <3>. QED
      BY <3>1, TablesOfIs
  <2>4. FileExists(E, DescriptorFile(c))
    BY <1>1, DirParts DEF DirsRight, DiskTyped, FileExists
  <2>. QED
    BY <1>2, <1>3, <2>2, <2>3, <2>4 DEF Readable
<1>. QED
  BY <1>4, <1>5

LEMMA PowerFailureStore ==
    ASSUME Inv, Inv', NamesInv(fs), StoreInv(fs), FirstEmpty(fs), PowerFailure
    PROVE  /\ StoreInv(fs)' /\ phase' = "down" /\ limbo' = {} /\ safe' = safe
           /\ \E kept \in SUBSET (Holds(fs) \cup limbo) : safe \subseteq kept /\ Holds(fs)' = kept
<1>. DEFINE E == fs'
            A == Begun(fs)
            found == Ids(Recoverable(E))
<1>1. /\ NoProcess /\ limbo' = {} /\ E \in AfterPowerFailure(fs)
      /\ UNCHANGED <<written, safe, hidden, errors>>
  BY DEF PowerFailure
<1>2. DiskInv(fs) /\ DiskTyped(fs) /\ DirsRight(fs) /\ DiskInv(E) /\ DiskTyped(E) /\ DirsRight(E)
  BY DEF Inv, DiskInv
<1>3. /\ Untorn(fs) /\ AtMost(fs, A) /\ AtLeast(fs, Promised) /\ A \subseteq 1 .. written
      /\ Promised = {} \/ \A o \in Dirs(fs) : o.current > 1
      /\ \A t \in Named(fs) : TableFile(t) \in Files(fs) => WhollySynced(fs, t)
      /\ safe \subseteq Promised
  BY DEF StoreInv, HistoryRight, TablesSynced, Promised
<1>4. OpensAlways(E)
  BY <1>1, <1>2, PowerFailureOpens DEF NamesInv
<1>. HIDE DEF A
<1>5. PICK d : Cuts(fs, E, d)
  BY <1>1, <1>2, PowerFailureCuts
<1>6. Untorn(E) /\ FirstEmpty(E)
  BY <1>3, <1>5, CutUntorn, CutFirstEmpty
<1>7. Dir(E) = d /\ Dirs(E) = {d} /\ d \in Dirs(fs) /\ d.current \in Nat
  BY <1>2, <1>5, DirParts DEF Cuts, DiskTyped
<1>8. safe = {} \/ d.current > 1
  BY <1>3, <1>7
<1>. HIDE DEF E, found
<1>9. d.current > 1 => Readable(E)
  BY <1>2, <1>4, <1>6, <1>7, SurvivorReads
<1>10. ASSUME d.current # 0, NEW s \in Survivors(E, d.current)
       PROVE  /\ FindsOnly(E, d, s, A) /\ \A w \in Promised : Finds(E, d, s, w)
              /\ FindsOnly(E, d, s, found)
  <2>1. FindsOnly(E, d, s, A) /\ \A w \in Promised : Finds(E, d, s, w)
    BY <1>2, <1>3, <1>5, <1>6, <1>10, CutKept
  <2>2. s = EditsIn(E, d.current)
    BY <1>2, <1>5, <1>10, CutSurvivors
  <2>3. Readable(E)
    BY <1>2, <1>4, <1>6, <1>7, <1>10, <2>2, SurvivorReads
  <2>4. s = Edits(E)
    BY <1>2, <1>6, <1>7, <2>2, <2>3, ManifestWhole
  <2>5. FindsOnly(E, d, s, found)
    BY <1>2, <1>6, <1>7, <2>3, <2>4, FindsNow DEF found
  <2>. QED
    BY <2>1, <2>5
<1>11. AtMost(E, found) /\ AtLeast(E, safe)
  BY <1>3, <1>7, <1>10 DEF AtMost, AtLeast
<1>12. found \subseteq A /\ safe \subseteq found
  <2>1. CASE Readable(E)
    <3>1. d.current # 0
      BY <1>7, <2>1 DEF Readable
    <3>2. Edits(E) \in Survivors(E, d.current)
      BY <1>2, <1>6, <1>7, <2>1, ManifestWhole
    <3>3. FindsOnly(E, Dir(E), Edits(E), A)
      BY <1>7, <1>10, <3>1, <3>2
    <3>4. found \subseteq A
      BY <1>2, <2>1, <3>3, RecoverableWithin DEF found
    <3>5. safe \subseteq found
      BY <1>2, <1>6, <1>11, <2>1, PromisedNow DEF found
    <3>. QED
      BY <3>4, <3>5
  <2>2. CASE ~Readable(E)
    <3>1. safe = {}
      BY <1>8, <1>9, <2>2
    <3>2. found = {}
      BY <2>2, IdsOf DEF Recoverable, found
    <3>. QED
      BY <3>1, <3>2
  <2>. QED
    BY <2>1, <2>2
<1>13. \A t \in Named(E) : TableFile(t) \in Files(E) => WhollySynced(E, t)
  BY <1>2, <1>5, <1>6, CutReads DEF Named
<1>14. safe = {} \/ \A o \in Dirs(E) : o.current > 1
  BY <1>7, <1>8
<1>15. found \subseteq 1 .. written
  BY <1>3, <1>12
<1>16. StoreInv(fs)' /\ Holds(fs)' = found /\ phase' = "down"
  BY <1>1, <1>6, <1>11, <1>13, <1>14, <1>15, DownStore DEF E, found
<1>17. found \in SUBSET (Holds(fs) \cup limbo)
  BY <1>12 DEF A, Begun
<1>. QED
  BY <1>1, <1>12, <1>16, <1>17

LEMMA TouchFirst ==
    ASSUME NEW D, NEW E, NEW f, DiskTyped(D), Touches(D, E, f), f # DescriptorFile(1), FirstEmpty(D)
    PROVE  FirstEmpty(E)
<1>1. DescriptorFile(1) \in Files(E) => /\ DescriptorFile(1) \in Files(D)
                                        /\ EditsIn(E, 1) = EditsIn(D, 1)
  BY TouchOthers DEF EditsIn
<1>. QED
  BY <1>1 DEF FirstEmpty

LEMMA SameFilesFirst ==
    ASSUME NEW D, NEW E, Files(E) = Files(D), \A g \in Files(D) : Records(E, g) = Records(D, g),
           FirstEmpty(D)
    PROVE  FirstEmpty(E)
BY DEF FirstEmpty, EditsIn

LEMMA WriterFirst ==
    ASSUME MaxErrors = 0, Inv, StoreInv(fs), FirstEmpty(fs), WriterStep
    PROVE  FirstEmpty(fs')
<1>0. DiskTyped(fs)
  BY DEF Inv, DiskInv
<1>1. ASSUME NEW sync \in SyncOptions, AddRecord(sync)
      PROVE  FirstEmpty(fs')
  <2>. DEFINE l == IF Switches THEN nextFile ELSE logNumber
  <2>1. l \in Nat /\ Touches(fs, fs', LogFile(l))
    BY <1>1, AddRecordTouches
  <2>2. LogFile(l) # DescriptorFile(1)
    BY <2>1, FilesDiffer
  <2>. HIDE DEF l
  <2>. QED
    BY <1>0, <2>1, <2>2, TouchFirst
<1>2. CASE SyncLog
  <2>1. fs' = Sync(fs, LogFile(logNumber)) /\ phase = "up" /\ logNumber \in Nat
    BY <1>2, NoFail, WorkIsUp DEF SyncLog, Inv, Typed, TypedMemory
  <2>2. LogFile(logNumber) \in Dir(fs).names
    BY <2>1 DEF Inv, ProcessInv, InUse, FileExists
  <2>3. Touches(fs, fs', LogFile(logNumber))
    BY <1>0, <2>1, <2>2, SyncTouches
  <2>. QED
    BY <1>0, <2>1, <2>3, TouchFirst, FilesDiffer
<1>3. CASE NewLogFails \/ InsertInto
  BY <1>3 DEF NewLogFails, InsertInto
<1>. QED
  BY <1>1, <1>2, <1>3 DEF WriterStep

LEMMA BackgroundFirst ==
    ASSUME MaxErrors = 0, Inv, StoreInv(fs), FirstEmpty(fs), BackgroundStep
    PROVE  FirstEmpty(fs')
<1>0. /\ DiskTyped(fs) /\ imm \in Seq(Batch) /\ nextFile \in Nat
      /\ flush.out \in Nat /\ comp.out \in Nat
  BY DEF Inv, DiskInv, Typed, TypedMemory, TypedVersion, TypedWork, FlushRecord, CompactionRecord
<1>1. CASE FlushBegin \/ InstallCompactionResults
  BY <1>1 DEF FlushBegin, InstallCompactionResults
<1>2. CASE WriteLevel0Table
  <2>1. fs' = BuildTable(fs, flush.out, imm)
    BY <1>2, NoFail DEF WriteLevel0Table
  <2>2. Touches(fs, fs', TableFile(flush.out))
    BY <1>0, <2>1, BuildTableTouches
  <2>. QED
    BY <1>0, <2>2, TouchFirst, FilesDiffer
<1>3. CASE \E inputs \in SUBSET version : CompactionBegin(inputs)
  <2>1. fs' = NewWritableFile(fs, TableFile(nextFile))
    BY <1>3 DEF CompactionBegin
  <2>2. Touches(fs, fs', TableFile(nextFile))
    BY <1>0, <2>1, NewFileTouches, FileTypes
  <2>. QED
    BY <1>0, <2>2, TouchFirst, FilesDiffer
<1>4. CASE CompactionFinish
  <2>. DEFINE f == TableFile(comp.out)
              s == SetToSeq(UNION {ReadTable(fs, t) : t \in comp.inputs})
              D1 == AddRecords(fs, f, s)
  <2>1. comp.step = "running" /\ f \in Dir(fs).names /\ fs' = Sync(D1, f)
    BY <1>4, NoFail DEF CompactionFinish, FileExists
  <2>2. s \in Seq(Batch) /\ Item(f) = Batch /\ f # DescriptorFile(1)
    BY <1>0, <2>1, CompactionBatches, FileTypes, FilesDiffer DEF Item
  <2>. HIDE DEF s, f
  <2>3. Touches(fs, D1, f)
    BY <1>0, <2>1, <2>2, AddRecordsTouches
  <2>4. DiskTyped(D1) /\ f \in Dir(D1).names
    BY <2>3 DEF Touches
  <2>. HIDE DEF D1
  <2>5. Touches(fs, fs', f)
    BY <2>1, <2>3, <2>4, SyncTouches, TouchTwice
  <2>. QED
    BY <1>0, <2>2, <2>5, TouchFirst
<1>5. CASE \E inputs \in SUBSET version : CompactionOpenFails(inputs)
  BY <1>5 DEF CompactionOpenFails
<1>. QED
  BY <1>1, <1>2, <1>3, <1>4, <1>5 DEF BackgroundStep

LEMMA OpenFirst ==
    ASSUME MaxErrors = 0, Inv, Inv', KeepsInv(fs), StoreInv(fs), FirstEmpty(fs), OpenStep
    PROVE  FirstEmpty(fs')
<1>0. DiskTyped(fs) /\ nextFile \in Nat
  BY DEF Inv, DiskInv, Typed, TypedVersion
<1>1. CASE NewDB
  <2>. DEFINE e == Edit({}, {}, 0, 2, 0)
  <2>1. EditsIn(fs', 1) = <<e>> /\ e.added = {}
    BY <1>1, NewDBEmpty DEF Edit
  <2>. HIDE DEF e
  <2>2. \A k \in DOMAIN EditsIn(fs', 1) : EditsIn(fs', 1)[k] = e
    BY <2>1
  <2>. QED
    BY <2>1, <2>2 DEF FirstEmpty
<1>2. CASE RecoverManifest
  BY <1>2 DEF RecoverManifest
<1>3. CASE RecoverLogFile
  <2>. DEFINE s == SetToSeq(ReadLog(fs, OldestLog))
  <2>1. /\ phase = "recovering" /\ toRecover # {}
        /\ fs' = fs \/ fs' = BuildTable(fs, nextFile, s)
    BY <1>3 DEF RecoverLogFile, RecoverBatches
  <2>2. s \in Seq(Batch)
    BY <2>1, NextLog
  <2>. HIDE DEF s
  <2>3. fs' = fs \/ Touches(fs, fs', TableFile(nextFile))
    BY <1>0, <2>1, <2>2, BuildTableTouches
  <2>. QED
    BY <1>0, <2>3, TouchFirst, FilesDiffer
<1>4. CASE OpenLog
  <2>1. Touches(fs, fs', LogFile(nextFile))
    BY <1>4, OpenLogFacts
  <2>. QED
    BY <1>0, <2>1, TouchFirst, FilesDiffer
<1>5. CASE NewDBFails \/ RecoverLogPartly \/ OpenFails
  BY <1>5, NoFail DEF NewDBFails, RecoverLogPartly, OpenFails
<1>. QED
  BY <1>1, <1>2, <1>3, <1>4, <1>5 DEF OpenStep

\* A manifest that LogAndApply writes to is not NewDB's.
LEMMA ManifestFirst ==
    ASSUME MaxErrors = 0, Inv, StoreInv(fs), FirstEmpty(fs), WriteManifest \/ SyncManifest
    PROVE  FirstEmpty(fs')
<1>0. DiskInv(fs) /\ DiskTyped(fs) /\ DirsRight(fs) /\ Typed /\ Steps /\ ProcessInv(fs)
  BY DEF Inv, DiskInv
<1>1. /\ apply.step \in {"append", "sync"} /\ phase \in {"opening", "up"}
      /\ phase = "opening" <=> apply.for = "open"
  BY <1>0, NothingTyped DEF WriteManifest, SyncManifest, Steps, Typed, TypedMemory
<1>2. manifest > 1 /\ manifest \in Nat /\ Descriptor # DescriptorFile(1)
  BY <1>0, <1>1, FilesDiffer DEF StoreInv, RecoveryHeld, Typed, TypedVersion, Descriptor
<1>3. CASE WriteManifest /\ phase = "opening"
  <2>. DEFINE r == <<Snapshot(version), apply.edit>>
  <2>1. /\ apply.step = "append"
        /\ fs' = AddRecords(NewWritableFile(fs, Descriptor), Descriptor, r)
    BY <1>1, <1>3, NoFail DEF WriteManifest
  <2>2. r \in Seq(EditRecord \cup {TornEdit})
    <3>1. Snapshot(version) \in EditRecord /\ apply.edit \in EditRecord
      BY <1>0 DEF Snapshot, EditRecord, Typed, TypedVersion, TypedWork, ApplyRecord
    <3>. QED
      BY <3>1
  <2>. HIDE DEF r
  <2>3. Touches(fs, fs', Descriptor)
    BY <1>0, <1>3, <2>1, <2>2, NewManifestHarmless
  <2>. QED
    BY <1>0, <1>2, <2>3, TouchFirst
<1>4. CASE WriteManifest /\ phase = "up"
  <2>1. apply.step = "append" /\ fs' = AddRecords(fs, Descriptor, <<apply.edit>>)
    BY <1>1, <1>4, NoFail DEF WriteManifest
  <2>2. SameData(fs, fs') /\ \A g \in Files(fs) : g # Descriptor => fs'.files[g] = fs.files[g]
    BY <1>4, <2>1, AppendedFacts
  <2>3. DescriptorFile(1) \in Files(fs') => /\ DescriptorFile(1) \in Files(fs)
                                            /\ EditsIn(fs', 1) = EditsIn(fs, 1)
    BY <1>2, <2>2 DEF SameData, EditsIn, Records
  <2>. QED
    BY <2>3 DEF FirstEmpty
<1>5. CASE SyncManifest
  <2>1. apply.step = "sync" /\ fs' = Sync(fs, Descriptor)
    BY <1>5, NoFail DEF SyncManifest
  <2>2. Descriptor \in Dir(fs).names
    <3>1. CASE phase = "opening"
      BY <1>0, <1>1, <2>1, <3>1 DEF ProcessInv, EditWritten, FileExists, Descriptor
    <3>2. CASE phase = "up"
      <4>1. Dir(fs).current = manifest /\ Dir(fs) \in Dirs(fs) /\ Dir(fs).current > 0
        BY <1>0, <3>2, DirParts DEF ProcessInv, Numbers, DiskTyped
      <4>. QED
        BY <1>0, <1>2, <4>1 DEF DirsRight, Descriptor
    <3>. QED
      BY <1>1, <3>1, <3>2
  <2>3. Touches(fs, fs', Descriptor)
    BY <1>0, <2>1, <2>2, SyncTouches
  <2>. QED
    BY <1>0, <1>2, <2>3, TouchFirst
<1>. QED
  BY <1>1, <1>3, <1>4, <1>5

LEMMA ApplyFirst ==
    ASSUME MaxErrors = 0, Inv, Inv', KeepsInv(fs), KeepsInv(fs)', NamesInv(fs), StoreInv(fs),
           FirstEmpty(fs), ApplyStep
    PROVE  FirstEmpty(fs')
<1>1. CASE WriteManifest \/ SyncManifest
  BY <1>1, ManifestFirst
<1>2. CASE WriteCurrent
  <2>1. /\ Files(fs') = Files(fs)
        /\ \A g \in Files(fs) : Records(fs', g) = Records(fs, g)
    BY <1>2, WriteCurrentFacts
  <2>. QED
    BY <2>1, SameFilesFirst
<1>3. CASE Install
  <2>1. fs' = DeleteObsoleteFiles(fs, (version \cup apply.edit.added) \ apply.edit.deleted,
                                  pending', IF apply.for = "compaction" THEN {} ELSE comp.base,
                                  apply.edit.log, bgError)
    BY <1>3 DEF Install
  <2>2. apply.edit.log \in Nat /\ DiskTyped(fs)
    BY DEF Inv, DiskInv, Typed, TypedWork, ApplyRecord, EditRecord
  <2>3. /\ Files(fs') = Files(fs)
        /\ \A g \in Files(fs) : Records(fs', g) = Records(fs, g)
    BY <2>1, <2>2, ObsoleteDirs
  <2>. QED
    BY <2>3, SameFilesFirst
<1>4. CASE SetCurrentFails \/ ApplyFailed
  BY <1>4, NoFail DEF SetCurrentFails, ApplyFailed, StoreInv, ErrorFree
<1>. QED
  BY <1>1, <1>2, <1>3, <1>4 DEF ApplyStep

LEMMA NextFirst ==
    ASSUME MaxErrors = 0, Inv, Inv', KeepsInv(fs), KeepsInv(fs)', NamesInv(fs), StoreInv(fs),
           FirstEmpty(fs), [Next]_vars
    PROVE  FirstEmpty(fs)'
<1>1. FirstEmpty(fs')
  <2>1. CASE WriterStep
    BY <2>1, WriterFirst
  <2>2. CASE ApplyStep
    BY <2>2, ApplyFirst
  <2>3. CASE BackgroundStep
    BY <2>3, BackgroundFirst
  <2>4. CASE OpenStep
    BY <2>4, OpenFirst
  <2>5. CASE PowerFailure
    <3>1. fs' \in AfterPowerFailure(fs) /\ DiskTyped(fs)
      BY <2>5 DEF PowerFailure, Inv, DiskInv
    <3>2. PICK d : Cuts(fs, fs', d)
      BY <3>1, PowerFailureCuts
    <3>. QED
      BY <3>2, CutFirstEmpty
  <2>6. CASE ReaderBegin \/ ReaderEnd \/ Kill \/ UNCHANGED vars
    BY <2>6 DEF ReaderBegin, ReaderEnd, Kill, vars
  <2>. QED
    BY <2>1, <2>2, <2>3, <2>4, <2>5, <2>6 DEF Next
<1>. QED
  BY <1>1 DEF FirstEmpty

LEMMA ContentsHeld == Contents = Holds(fs) /\ Contents' = Holds(fs)'
<1>1. Contents = Holds(fs)
  BY DEF Contents, Holds, Visible, Shown, Tables
<1>2. Contents' = Holds(fs)'
  BY DEF Contents, Holds, Visible, Shown, Tables
<1>. QED
  BY <1>1, <1>2

LEMMA SameStoreStutters == SameStore => UNCHANGED Store!storeVars
BY ContentsHeld DEF SameStore, Store!storeVars

LEMMA WriterStore ==
    ASSUME FsyncForcesNames, MaxErrors = 0, Inv, Inv', KeepsInv(fs), StoreInv(fs), WriterStep
    PROVE  StoreInv(fs)' /\ [Store!StoreNext]_Store!storeVars
<1>1. ASSUME NEW sync \in SyncOptions, AddRecord(sync)
      PROVE  StoreInv(fs)' /\ Store!StoreNext
  <2>1. /\ StoreInv(fs)'
        /\ phase = "up" /\ phase' = "up" /\ written + 1 \in 1 .. MaxWrites
        /\ written + 1 \notin Holds(fs) \cup limbo
        /\ Holds(fs)' = Holds(fs) /\ limbo' = limbo \cup {written + 1} /\ safe' = safe
    BY <1>1, AddRecordStore
  <2>2. Store!Begin(written + 1)
    BY <2>1, ContentsHeld DEF Store!Begin
  <2>. QED
    BY <2>1, <2>2 DEF Store!StoreNext, Store!Writes
<1>2. CASE SyncLog
  BY <1>2, SyncLogStore, SameStoreStutters
<1>3. CASE InsertInto
  <2>1. /\ StoreInv(fs)'
        /\ phase = "up" /\ phase' = "up" /\ writer.batch.id \in limbo
        /\ writer.batch.id \in 1 .. written
        /\ Holds(fs)' = Holds(fs) \cup {writer.batch.id}
        /\ limbo' = limbo \ {writer.batch.id}
        /\ safe' = IF writer.sync THEN safe \cup {writer.batch.id} ELSE safe
        /\ writer.sync \in BOOLEAN
    BY <1>3, InsertIntoStore
  <2>2. Store!Acknowledge(writer.batch.id, writer.sync)
    BY <2>1, ContentsHeld DEF Store!Acknowledge
  <2>3. writer.batch.id \in 1 .. MaxWrites
    BY <2>1, BoundsAssumption DEF Inv, Typed, TypedHistory
  <2>. QED
    BY <2>1, <2>2, <2>3 DEF Store!StoreNext, Store!Writes
<1>4. ~NewLogFails
  BY NoFail DEF NewLogFails
<1>. QED
  BY <1>1, <1>2, <1>3, <1>4 DEF WriterStep

LEMMA ApplyStore ==
    ASSUME MaxErrors = 0, Inv, Inv', KeepsInv(fs), KeepsInv(fs)', NamesInv(fs), StoreInv(fs),
           ApplyStep
    PROVE  StoreInv(fs)' /\ [Store!StoreNext]_Store!storeVars
<1>1. CASE WriteManifest \/ SyncManifest \/ WriteCurrent
  BY <1>1, WriteManifestStore, SyncManifestStore, WriteCurrentStore, SameStoreStutters
<1>2. CASE Install
  <2>1. /\ StoreInv(fs)' /\ Holds(fs)' = Holds(fs) /\ safe' = safe /\ limbo' = limbo
        /\ phase' = "up"
    BY <1>2, InstallStore
  <2>2. CASE phase = "up"
    BY <2>1, <2>2, SameStoreStutters DEF SameStore
  <2>3. CASE phase # "up"
    <3>1. Store!Open
      BY <2>1, <2>3, ContentsHeld DEF Store!Open
    <3>. QED
      BY <2>1, <3>1 DEF Store!StoreNext
  <2>. QED
    BY <2>2, <2>3
<1>3. CASE SetCurrentFails \/ ApplyFailed
  BY <1>3, NoFail DEF SetCurrentFails, ApplyFailed, StoreInv, ErrorFree
<1>. QED
  BY <1>1, <1>2, <1>3 DEF ApplyStep

LEMMA BackgroundStore ==
    ASSUME MaxErrors = 0, Inv, Inv', KeepsInv(fs), StoreInv(fs), BackgroundStep
    PROVE  StoreInv(fs)' /\ SameStore
<1>1. \A inputs \in SUBSET version : ~CompactionOpenFails(inputs)
  BY NoFail DEF CompactionOpenFails
<1>. QED
  BY <1>1, FlushBeginStore, WriteLevel0TableStore, CompactionBeginStore, CompactionFinishStore,
     InstallCompactionResultsStore DEF BackgroundStep

LEMMA OpenStore ==
    ASSUME MaxErrors = 0, Inv, Inv', KeepsInv(fs), StoreInv(fs), OpenStep
    PROVE  StoreInv(fs)' /\ SameStore
<1>1. ~NewDBFails /\ ~RecoverLogPartly /\ ~OpenFails
  BY NoFail DEF NewDBFails, RecoverLogPartly, OpenFails
<1>. QED
  BY <1>1, NewDBStore, RecoverManifestStore, RecoverLogFileStore, OpenLogStore DEF OpenStep

LEMMA DeathStore ==
    ASSUME Inv, Inv', KeepsInv(fs), NamesInv(fs), StoreInv(fs), FirstEmpty(fs),
           Kill \/ PowerFailure
    PROVE  StoreInv(fs)' /\ Store!StoreNext
<1>1. CASE Kill
  <2>1. /\ StoreInv(fs)' /\ phase' = "down" /\ limbo' = {} /\ safe' = safe
        /\ \E more \in SUBSET limbo : Holds(fs)' = Holds(fs) \cup more
    BY <1>1, KillStore
  <2>2. Store!StoreKill
    BY <2>1, ContentsHeld DEF Store!StoreKill
  <2>. QED
    BY <2>1, <2>2 DEF Store!StoreNext
<1>2. CASE PowerFailure
  <2>1. /\ StoreInv(fs)' /\ phase' = "down" /\ limbo' = {} /\ safe' = safe
        /\ \E kept \in SUBSET (Holds(fs) \cup limbo) : safe \subseteq kept /\ Holds(fs)' = kept
    BY <1>2, PowerFailureStore
  <2>2. Store!StorePowerFailure
    BY <2>1, ContentsHeld DEF Store!StorePowerFailure
  <2>. QED
    BY <2>1, <2>2 DEF Store!StoreNext
<1>. QED
  BY <1>1, <1>2

LEMMA NextStore ==
    ASSUME FsyncForcesNames, MaxErrors = 0, Inv, Inv', KeepsInv(fs), KeepsInv(fs)',
           NamesInv(fs), StoreInv(fs), FirstEmpty(fs), [Next]_vars
    PROVE  StoreInv(fs)' /\ [Store!StoreNext]_Store!storeVars
<1>1. CASE WriterStep
  BY <1>1, WriterStore
<1>2. CASE ApplyStep
  BY <1>2, ApplyStore
<1>3. CASE BackgroundStep
  BY <1>3, BackgroundStore, SameStoreStutters
<1>4. CASE OpenStep
  BY <1>4, OpenStore, SameStoreStutters
<1>5. CASE ReaderBegin \/ ReaderEnd
  BY <1>5, ReaderStore, SameStoreStutters
<1>6. CASE Kill \/ PowerFailure
  BY <1>6, DeathStore
<1>7. CASE UNCHANGED vars
  <2>1. /\ fs' = fs /\ UNCHANGED QuietVars /\ flush' = flush /\ comp' = comp /\ apply' = apply
    BY <1>7 DEF vars, QuietVars, memoryVars, versionVars, recoveryVars, historyVars, boundVars
  <2>2. StoreInv(fs') /\ apply'.step # "failed" /\ Made' = Made
    BY <2>1 DEF StoreInv, ErrorFree, Made, Found, QuietVars
  <2>3. StoreInv(fs)' /\ Holds(fs)' = Holds(fs)
    BY <2>1, <2>2, QuietStore
  <2>. QED
    BY <2>1, <2>3, SameStoreStutters DEF SameStore, QuietVars
<1>. QED
  BY <1>1, <1>2, <1>3, <1>4, <1>5, <1>6, <1>7 DEF Next

LEMMA InitFirst == Init => FirstEmpty(fs)
BY DEF Init, EmptyDisk, FirstEmpty, Files

\* The store that the options promise starts empty and closed.
LEMMA InitHolds == Init => Store!StoreInit
<1>. SUFFICES ASSUME Init
              PROVE  Store!StoreInit
  OBVIOUS
<1>1. phase = "down" /\ safe = {} /\ limbo = {}
  BY DEF Init
<1>2. Dir(fs).current = 0
  <2>. DEFINE d == [names |-> {}, current |-> 0]
  <2>1. fs.dirs = <<d>>
    BY DEF Init, EmptyDisk
  <2>2. d.current = 0
    OBVIOUS
  <2>. HIDE DEF d
  <2>. QED
    BY <2>1, <2>2 DEF Dir
<1>3. Holds(fs) = {}
  BY <1>1, <1>2, IdsOf DEF Holds, Recoverable, Readable
<1>. QED
  BY <1>1, <1>3, ContentsHeld DEF Store!StoreInit

\* Where I/O does not fail, every open reads its logs to their ends.
NothingFailed == errors = 0 /\ ReadWhole

LEMMA NothingFails ==
    ASSUME MaxErrors = 0, NothingFailed, [Next]_vars
    PROVE  NothingFailed'
<1>1. ~Fail /\ errors = 0 /\ skipped = {}
  BY DEF Fail, NothingFailed, ReadWhole
<1>2. errors' = errors /\ skipped' = skipped
  <2>1. CASE WriterStep
    BY <1>1, <2>1 DEF WriterStep, AddRecord, NewLogFails, SyncLog, InsertInto, historyVars, boundVars
  <2>2. CASE ApplyStep
    BY <1>1, <2>2 DEF ApplyStep, WriteManifest, SyncManifest, WriteCurrent, SetCurrentFails, Install,
                      ApplyFailed, historyVars, boundVars
  <2>3. CASE BackgroundStep
    BY <1>1, <2>3 DEF BackgroundStep, FlushBegin, WriteLevel0Table, CompactionBegin,
                      CompactionOpenFails, CompactionFinish, InstallCompactionResults, historyVars,
                      boundVars
  <2>4. CASE OpenStep
    BY <1>1, <2>4 DEF OpenStep, NewDB, NewDBFails, RecoverManifest, RecoverLogFile, RecoverLogPartly,
                      OpenFails, OpenLog, historyVars, boundVars
  <2>5. CASE ReaderBegin \/ ReaderEnd
    BY <2>5 DEF ReaderBegin, ReaderEnd, historyVars, boundVars
  <2>6. CASE Kill \/ PowerFailure
    BY <2>6 DEF Kill, PowerFailure
  <2>7. CASE UNCHANGED vars
    BY <2>7 DEF vars, historyVars, boundVars
  <2>. QED
    BY <2>1, <2>2, <2>3, <2>4, <2>5, <2>6, <2>7 DEF Next
<1>. QED
  BY <1>1, <1>2 DEF NothingFailed, ReadWhole

LEMMA AlwaysReadWhole ==
    ASSUME MaxErrors = 0
    PROVE  Spec => []ReadWhole
<1>1. Init => NothingFailed
  BY DEF Init, NothingFailed, ReadWhole
<1>2. NothingFailed /\ [Next]_vars => NothingFailed'
  BY NothingFails
<1>3. NothingFailed => ReadWhole
  BY DEF NothingFailed
<1>. QED
  BY <1>1, <1>2, <1>3, PTL DEF Spec

\* Where I/O does not fail and fsync of a file forces the names too, what is on
\* the disk keeps the promise at every moment: whatever a death of the machine
\* leaves holds every acknowledged sync write and nothing that was not begun.
THEOREM PromisesAreOnDisk ==
    ASSUME FsyncForcesNames, MaxErrors = 0
    PROVE  Spec => [](StoreInv(fs) /\ FirstEmpty(fs))
<1>. DEFINE All == Inv /\ KeepsInv(fs) /\ (FsyncForcesNames => NamesInv(fs))
            Promise == StoreInv(fs) /\ FirstEmpty(fs)
<1>1. Init => Promise
  BY InitStore, InitFirst
<1>2. Promise /\ All /\ All' /\ [Next]_vars => Promise'
  BY NextStore, NextFirst
<1>3. Spec => []All
  BY AlwaysReadWhole, NamesAreForced, PTL
<1>. HIDE DEF All, Promise
<1>4. Spec => []Promise
  BY <1>1, <1>2, <1>3, PTL DEF Spec
<1>. QED
  BY <1>4 DEF Promise

\* leveldb keeps the promise of WriteOptions::sync, through every step of a
\* flush, a compaction, a recovery and every death between them: the database on
\* its disk is a DurableStore, for any number of writes and deaths, as long as
\* I/O does not fail and fsync of a file forces the names too.
THEOREM StoreIsDurable ==
    ASSUME FsyncForcesNames, MaxErrors = 0
    PROVE  Spec => ImplementsDurableStore
<1>. DEFINE All == Inv /\ KeepsInv(fs) /\ (FsyncForcesNames => NamesInv(fs))
            Promise == StoreInv(fs) /\ FirstEmpty(fs)
<1>1. Init => Store!StoreInit
  BY InitHolds
<1>2. Promise /\ All /\ All' /\ [Next]_vars => [Store!StoreNext]_Store!storeVars
  BY NextStore
<1>3. Spec => []All /\ []Promise
  BY AlwaysReadWhole, NamesAreForced, PromisesAreOnDisk, PTL
<1>. HIDE DEF All, Promise
<1>4. Spec => Store!StoreSpec
  BY <1>1, <1>2, <1>3, PTL DEF Spec, Store!StoreSpec
<1>. QED
  BY <1>4 DEF ImplementsDurableStore
=============================================================================
