------------------------------- MODULE DBImpl -------------------------------
(***************************************************************************)
(* The life of a leveldb database on disk: db_impl.cc's writes, memtable   *)
(* switches, flushes, compactions, recovery and file deletion, with        *)
(* version_set.cc's manifest under them, while the process and the machine *)
(* may die between any two steps and I/O may fail.                         *)
(*                                                                         *)
(* One thread writes (DBWriters has the queue in front of it), one runs    *)
(* background work, one may be reading.  A step is what a thread does      *)
(* between two points where mutex_ is released or the disk is forced.      *)
(***************************************************************************)
EXTENDS PosixFiles

CONSTANTS
    WriteBufferSize,    \* batches a memtable takes before it is full
    SyncOptions,        \* the values of WriteOptions::sync that writers use
    MaxWrites,          \* bound: writes
    MaxKills,           \* bound: deaths of the process
    MaxPowerFailures,   \* bound: deaths of the machine
    MaxErrors           \* bound: I/O errors

ASSUME BoundsAssumption ==
    /\ WriteBufferSize \in Nat \ {0}
    /\ SyncOptions \subseteq BOOLEAN
    /\ MaxWrites \in Nat /\ MaxKills \in Nat /\ MaxPowerFailures \in Nat /\ MaxErrors \in Nat

VARIABLES
    fs,             \* the directory and its files
    phase,          \* "down", "recovering", "opening" (in LogAndApply) or "up"
    mem, imm,       \* mem_ and imm_: batches in order; imm_ is null when hasImm is not
    hasImm,
    logNumber,      \* logfile_number_
    version,        \* tables of versions_->current()
    held,           \* tables of the version a reader holds, or the reader's absence
    nextFile,       \* versions_->next_file_number_
    lastSequence,   \* versions_->last_sequence_
    versionLog,     \* versions_->log_number_
    manifest,       \* versions_->manifest_file_number_
    pending,        \* pending_outputs_
    bgError,        \* bg_error_ is set
    writer,         \* the write at the front of the queue
    flush,          \* CompactMemTable under way
    comp,           \* DoCompactionWork under way
    apply,          \* LogAndApply under way
    toRecover,      \* logs that Recover has not read
    recovered,      \* tables in Recover's edit
    written,        \* writes begun so far, which numbers them
    safe,           \* history: acknowledged writes that asked for sync
    limbo,          \* history: writes of this process that were not acknowledged
    acked,          \* history: acknowledged writes, less what the machine's death took
    hidden,         \* history: writes logged behind part of a record
    skipped,        \* history: writes that an open passed over after a read error
    kills, failures, errors

memoryVars == <<mem, imm, hasImm, logNumber>>
versionVars == <<version, nextFile, lastSequence, versionLog, manifest, pending, bgError>>
recoveryVars == <<toRecover, recovered>>
historyVars == <<written, safe, limbo, acked, hidden, skipped>>
boundVars == <<kills, failures, errors>>
vars == <<fs, phase, memoryVars, versionVars, held, writer, flush, comp, apply, recoveryVars,
          historyVars, boundVars>>

Batch == [seq : Nat, id : Nat]

\* What a failed append leaves of a batch or an edit.
Torn == [seq |-> 0, id |-> 0]
TornEdit == [torn |-> TRUE]

\* A VersionEdit; the snapshot a manifest starts with has no numbers.
Edit(added, deleted, log, next, last) ==
    [added |-> added, deleted |-> deleted, log |-> log, next |-> next, last |-> last,
     numbers |-> TRUE]
Snapshot(tables) ==
    [added |-> tables, deleted |-> {}, log |-> 0, next |-> 0, last |-> 0, numbers |-> FALSE]

NoReader == {0}
NoWrite == [step |-> "idle", batch |-> Torn, sync |-> FALSE]
NoFlush == [step |-> "none", out |-> 0]
NoCompaction == [step |-> "none", inputs |-> {}, base |-> {}, out |-> 0]
NoApply == [step |-> "none", edit |-> Snapshot({}), for |-> "none"]

-----------------------------------------------------------------------------
(* Reading the disk.                                                       *)

Range1(s) == {s[i] : i \in DOMAIN s}

\* The log reader: a broken record hides what follows it in its block.
ReadLog(disk, n) ==
    {Records(disk, LogFile(n))[i] :
        i \in {j \in DOMAIN Records(disk, LogFile(n)) :
                 \A k \in 1 .. j : Records(disk, LogFile(n))[k] # Torn}}

\* An error behind so many records: the reader takes it for the log's end.
ReadLogTo(disk, n, count) ==
    {Records(disk, LogFile(n))[i] :
        i \in {j \in 1 .. count : \A k \in 1 .. j : Records(disk, LogFile(n))[k] # Torn}}

ReadTable(disk, n) == Range1(Records(disk, TableFile(n)))

\* The descriptor's edits; part of one at the end of the file is no edit.
Edits(disk) ==
    LET edits == Records(disk, DescriptorFile(Dir(disk).current))
    IN  IF edits # <<>> /\ Last(edits) = TornEdit THEN Front(edits) ELSE edits

\* The tables that applying the edits in order leaves.
TablesOf(edits) ==
    {t \in UNION {edits[i].added : i \in DOMAIN edits} :
       \E i \in DOMAIN edits :
          /\ t \in edits[i].added
          /\ \A j \in i + 1 .. Len(edits) : t \notin edits[j].deleted}

\* VersionSet::Recover finds what it needs, and DBImpl::Recover the tables.
Readable(disk) ==
    /\ Dir(disk).current # 0
    /\ FileExists(disk, DescriptorFile(Dir(disk).current))
    /\ Edits(disk) # <<>>
    /\ TornEdit \notin Range1(Edits(disk))
    /\ Edits(disk)[Len(Edits(disk))].numbers
    /\ \A t \in TablesOf(Edits(disk)) : FileExists(disk, TableFile(t))

LogsFrom(disk, n) == {f.num : f \in {g \in Dir(disk).names : g.kind = "log" /\ g.num >= n}}

Ids(batches) == {b.id : b \in batches}

\* What opening the database would find.
Recoverable(disk) ==
    IF ~Readable(disk)
    THEN {}
    ELSE LET edits == Edits(disk)
         IN  (UNION {ReadTable(disk, t) : t \in TablesOf(edits)})
               \cup (UNION {ReadLog(disk, n) : n \in LogsFrom(disk, edits[Len(edits)].log)})

Tables == UNION {ReadTable(fs, t) : t \in version}
Visible == Range1(mem) \cup Range1(imm) \cup Tables

-----------------------------------------------------------------------------
\* No process has the database open.
NoProcess ==
    /\ phase' = "down"
    /\ mem' = <<>> /\ imm' = <<>> /\ hasImm' = FALSE /\ logNumber' = 0
    /\ version' = {} /\ held' = NoReader
    /\ nextFile' = 2 /\ lastSequence' = 0 /\ versionLog' = 0 /\ manifest' = 0
    /\ pending' = {} /\ bgError' = FALSE
    /\ writer' = NoWrite /\ flush' = NoFlush /\ comp' = NoCompaction /\ apply' = NoApply
    /\ toRecover' = {} /\ recovered' = {}

Init ==
    /\ fs = EmptyDisk
    /\ phase = "down"
    /\ mem = <<>> /\ imm = <<>> /\ hasImm = FALSE /\ logNumber = 0
    /\ version = {} /\ held = NoReader
    /\ nextFile = 2 /\ lastSequence = 0 /\ versionLog = 0 /\ manifest = 0
    /\ pending = {} /\ bgError = FALSE
    /\ writer = NoWrite /\ flush = NoFlush /\ comp = NoCompaction /\ apply = NoApply
    /\ toRecover = {} /\ recovered = {}
    /\ written = 0 /\ safe = {} /\ limbo = {} /\ acked = {} /\ hidden = {}
    /\ skipped = {}
    /\ kills = 0 /\ failures = 0 /\ errors = 0

Fail == errors < MaxErrors /\ errors' = errors + 1

\* NewFileNumber gives nextFile and leaves this.
AfterNewFileNumber == nextFile + 1

-----------------------------------------------------------------------------
(* Write and MakeRoomForWrite.                                             *)

\* A full memtable becomes imm_ and a new log is started.
Switches == Len(mem) >= WriteBufferSize

\* Up to AddRecord: the write has its sequence number and is in the log.
AddRecord(sync) ==
    LET batch == [seq |-> lastSequence + 1, id |-> written + 1]
        log == IF Switches THEN nextFile ELSE logNumber
        disk == IF Switches THEN NewWritableFile(fs, LogFile(log)) ELSE fs
    IN  /\ phase = "up" /\ writer.step = "idle" /\ written < MaxWrites
        /\ ~bgError
        /\ Switches => ~hasImm
        /\ IF Switches
           THEN /\ imm' = mem /\ hasImm' = TRUE /\ mem' = <<>>
                /\ logNumber' = log /\ nextFile' = AfterNewFileNumber
           ELSE UNCHANGED <<imm, hasImm, mem, logNumber, nextFile>>
        /\ written' = written + 1
        /\ \/ /\ fs' = AddRecords(disk, LogFile(log), <<batch>>)
              /\ writer' = [step |-> "logged", batch |-> batch, sync |-> sync]
              /\ limbo' = limbo \cup {batch.id}
              /\ hidden' = IF Torn \in Range1(Records(disk, LogFile(log)))
                           THEN hidden \cup {batch.id}
                           ELSE hidden
              /\ UNCHANGED <<errors, lastSequence>>
           \/ /\ Fail
              /\ fs' = disk \/ fs' = AddRecords(disk, LogFile(log), <<Torn>>)
              /\ lastSequence' = batch.seq
              /\ UNCHANGED <<writer, limbo, hidden>>
        /\ UNCHANGED <<phase, version, held, versionLog, manifest, pending, bgError, flush,
                       comp, apply, recoveryVars, safe, acked, skipped, kills, failures>>

\* NewWritableFile fails for the new log: ReuseFileNumber, and Write returns.
NewLogFails ==
    /\ phase = "up" /\ writer.step = "idle" /\ written < MaxWrites
    /\ ~bgError /\ Switches /\ ~hasImm
    /\ Fail
    /\ written' = written + 1
    /\ UNCHANGED <<fs, phase, memoryVars, versionVars, held, writer, flush, comp, apply,
                   recoveryVars, safe, limbo, acked, hidden, skipped, kills, failures>>

\* options.sync: a failure makes every later write fail.
SyncLog ==
    /\ writer.step = "logged" /\ writer.sync
    /\ \/ /\ fs' = Sync(fs, LogFile(logNumber))
          /\ writer' = [writer EXCEPT !.step = "synced"]
          /\ UNCHANGED <<bgError, lastSequence, errors>>
       \/ /\ Fail
          /\ bgError' = TRUE
          /\ lastSequence' = writer.batch.seq
          /\ writer' = NoWrite
          /\ UNCHANGED fs
    /\ UNCHANGED <<phase, memoryVars, version, nextFile, versionLog, manifest, pending, held,
                   flush, comp, apply, recoveryVars, historyVars, kills, failures>>

\* InsertInto, SetLastSequence, and the writer returns.
InsertInto ==
    /\ writer.step = (IF writer.sync THEN "synced" ELSE "logged")
    /\ mem' = Append(mem, writer.batch)
    /\ lastSequence' = writer.batch.seq
    /\ writer' = NoWrite
    /\ limbo' = limbo \ {writer.batch.id}
    /\ acked' = acked \cup {writer.batch.id}
    /\ safe' = IF writer.sync THEN safe \cup {writer.batch.id} ELSE safe
    /\ UNCHANGED <<fs, phase, imm, hasImm, logNumber, version, nextFile, versionLog, manifest,
                   pending, bgError, held, flush, comp, apply, recoveryVars, written, hidden,
                   skipped, boundVars>>

-----------------------------------------------------------------------------
(* LogAndApply: the manifest's record, its sync, CURRENT, and the install. *)

BeginApply(edit, for) == apply' = [step |-> "append", edit |-> edit, for |-> for]

Descriptor == DescriptorFile(manifest)

\* Mutant: old files are deleted although it is not known what was committed.
MayDeleteAlways(error) == TRUE

\* DeleteObsoleteFiles gives up after a background error.
MayDelete(error) == ~error

\* Mutants: only the current version's tables are kept; the ones being
\* written are not.
LiveCurrent(current, outputs, base) == current \cup outputs
LiveNotPending(current, outputs, base) ==
    current \cup base \cup (IF held = NoReader THEN {} ELSE held)

\* AddLiveFiles, and pending_outputs_: a reader and a compaction under way,
\* whose version is base, hold the version they started from.
Live(current, outputs, base) ==
    current \cup outputs \cup base \cup (IF held = NoReader THEN {} ELSE held)

DeleteObsoleteFiles(disk, current, outputs, base, log, error) ==
    LET keep(f) == CASE f.kind = "log" -> f.num >= log
                     [] f.kind = "manifest" -> f.num >= manifest
                     [] f.kind = "table" -> f.num \in Live(current, outputs, base)
    IN  IF MayDelete(error)
        THEN DeleteFiles(disk, {f \in Dir(disk).names : ~keep(f)})
        ELSE disk

\* The mutex is released: a new manifest starts with a snapshot.
WriteManifest ==
    /\ apply.step = "append"
    /\ \/ /\ fs' = IF apply.for = "open"
                   THEN AddRecords(NewWritableFile(fs, Descriptor), Descriptor,
                                   <<Snapshot(version), apply.edit>>)
                   ELSE AddRecords(fs, Descriptor, <<apply.edit>>)
          /\ apply' = [apply EXCEPT !.step = "sync"]
          /\ UNCHANGED errors
       \/ /\ Fail
          /\ apply' = [apply EXCEPT !.step = "failed"]
          /\ \/ UNCHANGED fs
             \/ apply.for # "open" /\ fs' = AddRecords(fs, Descriptor, <<TornEdit>>)
    /\ UNCHANGED <<phase, memoryVars, versionVars, held, writer, flush, comp, recoveryVars,
                   historyVars, kills, failures>>

SyncManifest ==
    /\ apply.step = "sync"
    /\ \/ /\ fs' = Sync(fs, Descriptor)
          /\ apply' = [apply EXCEPT !.step = IF apply.for = "open" THEN "current" ELSE "install"]
          /\ UNCHANGED errors
       \/ /\ Fail
          /\ apply' = [apply EXCEPT !.step = "failed"]
          /\ UNCHANGED fs
    /\ UNCHANGED <<phase, memoryVars, versionVars, held, writer, flush, comp, recoveryVars,
                   historyVars, kills, failures>>

WriteCurrent ==
    /\ apply.step = "current"
    /\ fs' = SetCurrentFile(fs, manifest)
    /\ apply' = [apply EXCEPT !.step = "install"]
    /\ UNCHANGED <<phase, memoryVars, versionVars, held, writer, flush, comp, recoveryVars,
                   historyVars, boundVars>>

\* Mutant: the temporary file is renamed before it is known to be written.
SetCurrentFailsLate ==
    /\ apply.step = "current"
    /\ Fail
    /\ fs' = SetCurrentFile(fs, manifest)
    /\ apply' = [apply EXCEPT !.step = "failed"]
    /\ UNCHANGED <<phase, memoryVars, versionVars, held, writer, flush, comp, recoveryVars,
                   historyVars, kills, failures>>

\* SetCurrentFile fails: CURRENT names the old manifest.
SetCurrentFails ==
    /\ apply.step = "current"
    /\ Fail
    /\ apply' = [apply EXCEPT !.step = "failed"]
    /\ UNCHANGED <<fs, phase, memoryVars, versionVars, held, writer, flush, comp, recoveryVars,
                   historyVars, kills, failures>>

\* The new version is current.  The caller commits, a compaction gives up the
\* version it started from, and what is obsolete is deleted.
Install ==
    LET edit == apply.edit
        current == (version \cup edit.added) \ edit.deleted
        outputs == IF apply.for = "compaction" THEN pending \ {comp.out} ELSE pending
        base == IF apply.for = "compaction" THEN {} ELSE comp.base
    IN  /\ apply.step = "install"
        /\ version' = current
        /\ versionLog' = edit.log
        /\ pending' = outputs
        /\ apply' = NoApply
        /\ IF apply.for = "flush"
           THEN imm' = <<>> /\ hasImm' = FALSE /\ flush' = NoFlush
           ELSE UNCHANGED <<imm, hasImm, flush>>
        /\ comp' = IF apply.for = "compaction" THEN NoCompaction ELSE comp
        /\ phase' = "up"
        /\ fs' = DeleteObsoleteFiles(fs, current, outputs, base, edit.log, bgError)
        /\ UNCHANGED <<mem, logNumber, nextFile, lastSequence, manifest, bgError, held, writer,
                       recoveryVars, historyVars, boundVars>>

\* The caller records the error; without a manifest the open fails.
ApplyFailed ==
    /\ apply.step = "failed"
    /\ IF apply.for = "open"
       THEN /\ fs' = DeleteFiles(fs, {Descriptor})
            /\ NoProcess
       ELSE /\ bgError' = TRUE
            /\ apply' = NoApply
            /\ flush' = IF apply.for = "flush" THEN NoFlush ELSE flush
            /\ pending' = IF apply.for = "compaction" THEN pending \ {comp.out} ELSE pending
            /\ comp' = IF apply.for = "compaction" THEN NoCompaction ELSE comp
            /\ fs' = IF apply.for = "compaction"
                     THEN DeleteObsoleteFiles(fs, version, pending', {}, versionLog, TRUE)
                     ELSE fs
            /\ UNCHANGED <<phase, memoryVars, version, nextFile, lastSequence, versionLog,
                           manifest, held, writer, recoveryVars>>
    /\ UNCHANGED <<historyVars, boundVars>>

-----------------------------------------------------------------------------
(* Background work.                                                        *)

\* A table file, written and synced by BuildTable or a compaction.
BuildTable(disk, n, batches) ==
    Sync(AddRecords(NewWritableFile(disk, TableFile(n)), TableFile(n), batches), TableFile(n))

\* CompactMemTable, called by BackgroundCompaction or, whatever bg_error_ is,
\* from the loop of a compaction.
FlushBegin ==
    /\ phase = "up" /\ hasImm /\ flush = NoFlush
    /\ \/ comp.step = "none" /\ ~bgError
       \/ comp.step \in {"running", "written"}
    /\ flush' = [step |-> "build", out |-> nextFile]
    /\ nextFile' = AfterNewFileNumber
    /\ pending' = pending \cup {nextFile}
    /\ UNCHANGED <<fs, phase, memoryVars, version, lastSequence, versionLog, manifest, bgError,
                   held, writer, comp, apply, recoveryVars, historyVars, boundVars>>

\* Mutant: the log in use when the memtable was switched is given up too late
\* or too early: the edit names the next file.
FlushedLogNext == nextFile

\* Earlier logs are no longer needed.
FlushedLog == logNumber

\* WriteLevel0Table, up to LogAndApply.
WriteLevel0Table ==
    /\ flush.step = "build"
    /\ pending' = pending \ {flush.out}
    /\ \/ /\ fs' = BuildTable(fs, flush.out, imm)
          /\ flush' = [flush EXCEPT !.step = "apply"]
          /\ BeginApply(Edit({flush.out}, {}, FlushedLog, nextFile, lastSequence), "flush")
          /\ UNCHANGED <<bgError, errors>>
       \/ /\ Fail
          /\ flush' = NoFlush
          /\ bgError' = TRUE
          /\ UNCHANGED <<fs, apply>>
    /\ UNCHANGED <<phase, memoryVars, version, nextFile, lastSequence, versionLog, manifest,
                   held, writer, comp, recoveryVars, historyVars, kills, failures>>

\* PickCompaction; the mutex is released when the output is opened.
CompactionBegin(inputs) ==
    /\ phase = "up" /\ comp = NoCompaction /\ flush = NoFlush /\ ~hasImm /\ ~bgError
    /\ inputs \subseteq version /\ Cardinality(inputs) = 2
    /\ comp' = [step |-> "running", inputs |-> inputs, base |-> version, out |-> nextFile]
    /\ nextFile' = AfterNewFileNumber
    /\ pending' = pending \cup {nextFile}
    /\ fs' = NewWritableFile(fs, TableFile(nextFile))
    /\ UNCHANGED <<phase, memoryVars, version, lastSequence, versionLog, manifest, bgError,
                   held, writer, flush, apply, recoveryVars, historyVars, boundVars>>

\* The output cannot be opened: the compaction ends with an error.
CompactionOpenFails(inputs) ==
    /\ phase = "up" /\ comp = NoCompaction /\ flush = NoFlush /\ ~hasImm /\ ~bgError
    /\ inputs \subseteq version /\ Cardinality(inputs) = 2
    /\ Fail
    /\ nextFile' = AfterNewFileNumber
    /\ bgError' = TRUE
    /\ UNCHANGED <<fs, phase, memoryVars, version, lastSequence, versionLog, manifest, pending,
                   held, writer, flush, comp, apply, recoveryVars, historyVars, kills, failures>>

\* An error ends the compaction: CleanupCompaction.
CompactionAborts ==
    /\ comp' = NoCompaction
    /\ pending' = pending \ {comp.out}
    /\ bgError' = TRUE
    /\ UNCHANGED <<fs, apply>>

\* FinishCompactionOutputFile: the output is synced and opened once.
CompactionFinish ==
    LET out == TableFile(comp.out)
        batches == SetToSeq(UNION {ReadTable(fs, t) : t \in comp.inputs})
    IN  /\ comp.step = "running" /\ flush = NoFlush
        /\ \/ /\ FileExists(fs, out)
              /\ fs' = Sync(AddRecords(fs, out, batches), out)
              /\ comp' = [comp EXCEPT !.step = "written"]
              /\ UNCHANGED <<pending, bgError, apply, errors>>
           \/ /\ Fail
              /\ CompactionAborts
        /\ UNCHANGED <<phase, memoryVars, version, nextFile, lastSequence, versionLog, manifest,
                       held, writer, flush, recoveryVars, historyVars, kills, failures>>

\* InstallCompactionResults: what was left of the input made no output.
InstallCompactionResults ==
    /\ comp.step = "written" /\ flush = NoFlush
    /\ comp' = [comp EXCEPT !.step = "apply"]
    /\ BeginApply(Edit({comp.out}, comp.inputs, versionLog, nextFile, lastSequence),
                  "compaction")
    /\ UNCHANGED <<fs, phase, memoryVars, version, nextFile, lastSequence, versionLog, manifest,
                   pending, bgError, held, writer, flush, recoveryVars, historyVars, boundVars>>

-----------------------------------------------------------------------------
(* A reader takes and gives up a reference to the current version.         *)

ReaderBegin ==
    /\ phase = "up" /\ held = NoReader /\ version # {}
    /\ held' = version
    /\ UNCHANGED <<fs, phase, memoryVars, versionVars, writer, flush, comp, apply, recoveryVars,
                   historyVars, boundVars>>

ReaderEnd ==
    /\ held # NoReader
    /\ held' = NoReader
    /\ UNCHANGED <<fs, phase, memoryVars, versionVars, writer, flush, comp, apply, recoveryVars,
                   historyVars, boundVars>>

-----------------------------------------------------------------------------
(* Open.                                                                   *)

FirstManifest(disk) ==
    AddRecords(NewWritableFile(disk, DescriptorFile(1)), DescriptorFile(1),
               <<Edit({}, {}, 0, 2, 0)>>)

\* NewDB: the first manifest is closed without a sync.
NewDB ==
    /\ phase = "down" /\ Dir(fs).current = 0
    /\ fs' = SetCurrentFile(FirstManifest(fs), 1)
    /\ UNCHANGED <<phase, memoryVars, versionVars, held, writer, flush, comp, apply,
                   recoveryVars, historyVars, boundVars>>

\* The manifest cannot be written and is deleted, or SetCurrentFile fails.
NewDBFails ==
    /\ phase = "down" /\ Dir(fs).current = 0
    /\ Fail
    /\ \/ fs' = DeleteFiles(FirstManifest(fs), {DescriptorFile(1)})
       \/ fs' = FirstManifest(fs)
    /\ UNCHANGED <<phase, memoryVars, versionVars, held, writer, flush, comp, apply,
                   recoveryVars, historyVars, kills, failures>>

\* VersionSet::Recover, and the list of logs.  (What fails before that ends the
\* open and leaves everything as it is.)
RecoverManifest ==
    LET edits == Edits(fs)
        last == edits[Len(edits)]
    IN  /\ phase = "down" /\ Readable(fs)
        /\ phase' = "recovering"
        /\ version' = TablesOf(edits)
        /\ manifest' = last.next
        /\ nextFile' = last.next + 1
        /\ lastSequence' = last.last
        /\ versionLog' = last.log
        /\ toRecover' = LogsFrom(fs, last.log)
        /\ UNCHANGED <<fs, memoryVars, held, pending, bgError, writer, flush, comp, apply,
                       recovered, historyVars, boundVars>>

MarkFileNumberUsed(next, n) == IF next <= n THEN n + 1 ELSE next

\* The largest sequence number met so far.
MaxSequence(seqs) ==
    CHOOSE m \in seqs \cup {lastSequence} : \A k \in seqs \cup {lastSequence} : m >= k

OldestLog == CHOOSE n \in toRecover : \A m \in toRecover : n <= m

\* The batches read from a log become a table.  (A long log makes several; none
\* is named by an edit before the last.)
RecoverBatches(batches) ==
    LET n == OldestLog
        seqs == {b.seq : b \in batches}
    IN  /\ toRecover' = toRecover \ {n}
        /\ IF batches = {}
           THEN /\ nextFile' = MarkFileNumberUsed(nextFile, n)
                /\ UNCHANGED <<fs, recovered>>
           ELSE /\ fs' = BuildTable(fs, nextFile, SetToSeq(batches))
                /\ recovered' = recovered \cup {nextFile}
                /\ nextFile' = MarkFileNumberUsed(nextFile + 1, n)
        /\ lastSequence' = MaxSequence(seqs)
        /\ UNCHANGED <<phase, memoryVars, version, versionLog, manifest, pending, bgError, held,
                       writer, flush, comp, apply, written, safe, limbo, acked, hidden, kills,
                       failures>>

RecoverLogFile ==
    /\ phase = "recovering" /\ toRecover # {}
    /\ RecoverBatches(ReadLog(fs, OldestLog))
    /\ UNCHANGED <<skipped, errors>>

\* The log cannot be opened, or not be read to its end.  Without paranoid_checks,
\* which nothing here sets, MaybeIgnoreError and the reporter ignore that, and
\* recovery goes on with the batches read.
RecoverLogPartly ==
    /\ phase = "recovering" /\ toRecover # {}
    /\ Fail
    /\ \E count \in 0 .. Len(Records(fs, LogFile(OldestLog))) :
          LET batches == ReadLogTo(fs, OldestLog, count)
              missed == ReadLog(fs, OldestLog) \ batches
          IN  /\ missed # {}
              /\ RecoverBatches(batches)
              /\ skipped' = skipped \cup Ids(missed)

\* DB::Open: a new log and a new manifest.
OpenLog ==
    /\ phase = "recovering" /\ toRecover = {}
    /\ phase' = "opening"
    /\ logNumber' = nextFile
    /\ nextFile' = AfterNewFileNumber
    /\ fs' = NewWritableFile(fs, LogFile(nextFile))
    /\ BeginApply(Edit(recovered, {}, nextFile, nextFile + 1, lastSequence), "open")
    /\ UNCHANGED <<mem, imm, hasImm, version, lastSequence, versionLog, manifest, pending,
                   bgError, held, writer, flush, comp, recoveryVars, historyVars, boundVars>>

\* A table of a recovered log or the new log cannot be written, or the list of
\* files cannot be read: the open fails.
OpenFails ==
    /\ phase = "recovering"
    /\ Fail
    /\ NoProcess
    /\ UNCHANGED <<fs, historyVars, kills, failures>>

-----------------------------------------------------------------------------
(* Deaths.                                                                 *)

Kill ==
    /\ phase # "down" /\ kills < MaxKills
    /\ kills' = kills + 1
    /\ limbo' = {}
    /\ NoProcess
    /\ UNCHANGED <<fs, written, safe, acked, hidden, skipped, failures, errors>>

PowerFailure ==
    /\ failures < MaxPowerFailures
    /\ failures' = failures + 1
    /\ limbo' = {}
    /\ NoProcess
    /\ fs' \in AfterPowerFailure(fs)
    /\ acked' = acked \cap Ids(Recoverable(fs'))
    /\ UNCHANGED <<written, safe, hidden, skipped, kills, errors>>

-----------------------------------------------------------------------------
WriterStep ==
    \/ (\E sync \in SyncOptions : AddRecord(sync)) \/ NewLogFails
    \/ SyncLog \/ InsertInto

ApplyStep ==
    \/ WriteManifest \/ SyncManifest \/ WriteCurrent \/ SetCurrentFails
    \/ Install \/ ApplyFailed

BackgroundStep ==
    \/ FlushBegin \/ WriteLevel0Table
    \/ \E inputs \in SUBSET version : CompactionBegin(inputs) \/ CompactionOpenFails(inputs)
    \/ CompactionFinish \/ InstallCompactionResults

OpenStep ==
    \/ NewDB \/ NewDBFails \/ RecoverManifest
    \/ RecoverLogFile \/ RecoverLogPartly \/ OpenFails \/ OpenLog

Next ==
    \/ WriterStep \/ ApplyStep \/ BackgroundStep \/ OpenStep
    \/ ReaderBegin \/ ReaderEnd
    \/ Kill \/ PowerFailure

Spec == Init /\ [][Next]_vars

-----------------------------------------------------------------------------
(* Properties.                                                             *)

TypeOK ==
    /\ phase \in {"down", "recovering", "opening", "up"}
    /\ mem \in Seq(Batch) /\ imm \in Seq(Batch) /\ hasImm \in BOOLEAN
    /\ version \subseteq 1 .. nextFile - 1 /\ pending \subseteq 1 .. nextFile - 1
    /\ logNumber < nextFile /\ versionLog \in Nat /\ manifest \in Nat
    /\ lastSequence \in Nat /\ bgError \in BOOLEAN
    /\ apply.step \in {"none", "append", "sync", "current", "install", "failed"}
    /\ written \in 0 .. MaxWrites /\ safe \subseteq 1 .. written /\ limbo \subseteq 1 .. written

\* Every open has read its logs to the end.
ReadWhole == skipped = {}

\* What a reader finds, or what the next open will find.
Contents == IF phase = "up" THEN Ids(Visible) ELSE Ids(Recoverable(fs))

Store == INSTANCE DurableStore WITH contents <- Contents, open <- phase = "up"

\* DBImpl keeps the promise of WriteOptions::sync: what a reader finds, and
\* after a death what the next open will find, is what DurableStore allows,
\* through every step of a flush, a compaction and a recovery.
ImplementsDurableStore == Store!StoreSpec

\* The descriptor was written to behind part of an edit, so that no reader gets
\* past it: a flush that failed in LogAndApply does not stop the compaction it
\* interrupted.
DescriptorDamaged == Dir(fs).current # 0 /\ TornEdit \in Range1(Edits(fs))

\* When just the process dies, no acknowledged write is lost, unless an earlier
\* append to its log or to the descriptor failed half-way, or an open could not
\* read it: Write reports a failed append and goes on writing to the same log,
\* and the reader drops the rest of the block; Recover ignores that a log cannot
\* be read, and the log is deleted.
NoWriteLost == DescriptorDamaged \/ acked \ (hidden \cup skipped) \subseteq Contents

\* No table that the current version, a reader or a compaction uses has been
\* deleted, nor the log that takes the writes.
LiveFilesExist ==
    phase = "up" =>
       /\ \A t \in version \cup comp.base \cup (IF held = NoReader THEN {} ELSE held) :
             FileExists(fs, TableFile(t))
       /\ FileExists(fs, LogFile(logNumber))

\* A sequence number is never given to two batches that a reader could meet,
\* however many logs and tables a death left behind; but the numbers of batches
\* that an open passed over are given again, and the machine's death may bring
\* their log back.
SequencesUnique ==
    phase = "up" =>
       \A a, b \in Visible : a.seq = b.seq => a = b \/ {a.id, b.id} \cap skipped # {}

\* Whatever a death leaves, the manifest that CURRENT names can be read and
\* names only tables that are there.  NewDB's own manifest is left out, and one
\* that was appended to after an append that failed half-way.
Reopens == Dir(fs).current > 1 => Readable(fs) \/ DescriptorDamaged

\* Files and numbers stay consistent while flushes interrupt compactions and
\* file operations fail: what is in use exists, and no sequence number is used
\* twice.
FilesConsistent == TypeOK /\ LiveFilesExist /\ SequencesUnique
=============================================================================
