----------------------------- MODULE DBWriters -----------------------------
(***************************************************************************)
(* The threads of DBImpl and how they wait for each other: the queue of    *)
(* writers with its group commit, the stalls of MakeRoomForWrite, the      *)
(* scheduling of background work and the callers of manual compactions.    *)
(*                                                                         *)
(* An action is what a thread does while it holds mutex_.  A thread that   *)
(* waits on a condition variable is woken by a signal or by nothing at     *)
(* all; it then needs the mutex again.                                     *)
(***************************************************************************)
EXTENDS Naturals, Sequences, FiniteSets, SequencesExt

CONSTANTS
    Writers,        \* threads that call Write with a batch, once each
    Flushers,       \* threads that call TEST_CompactMemTable: a write of no batch
    Compactors,     \* threads that call TEST_CompactRange
    BufferSize,     \* batches a memtable takes
    CompactionTrigger, SlowdownTrigger, StopTrigger,    \* files in level 0
    Passes,         \* bound: compactions one TEST_CompactRange needs
    MaxErrors,      \* bound: I/O errors
    NoThread        \* manual_compaction_ is null

ASSUME TriggersAssumption ==
    /\ CompactionTrigger \in Nat \ {0} /\ SlowdownTrigger \in Nat /\ StopTrigger \in Nat
    /\ CompactionTrigger <= SlowdownTrigger /\ SlowdownTrigger <= StopTrigger
    /\ BufferSize \in Nat \ {0} /\ Passes \in Nat /\ MaxErrors \in Nat
ASSUME ThreadsAssumption ==
    /\ NoThread \notin Writers \cup Flushers \cup Compactors
    /\ Writers \cap Flushers = {} /\ Compactors \cap (Writers \cup Flushers) = {}

VARIABLES
    pc,             \* where each thread is
    sync,           \* WriteOptions::sync of each writer
    queue,          \* writers_
    group,          \* the writers whose batches the front one is logging
    finished,       \* Writer::done
    failed,         \* the writers that returned an error
    delay,          \* allow_delay of MakeRoomForWrite
    log,            \* records of the log: the batches each holds
    synced,         \* how many of them are synced
    mem,            \* mem_: the batches in it
    imm,            \* imm_: the set of that memtable, empty when it is null
    before,         \* history: the writes that had returned when a flusher called
    level0,         \* files in level 0
    scheduled,      \* background_compaction_scheduled_
    bg,             \* what the background thread is doing
    manual,         \* manual_compaction_
    left,           \* compactions each compactor still needs
    bgError,        \* bg_error_ is set
    closing,        \* ~DBImpl: "no", "waiting", "closed"
    errors

Queued == Writers \cup Flushers
Threads == Queued \cup Compactors

logVars == <<log, synced, mem>>
bgVars == <<scheduled, bg>>
vars == <<pc, sync, queue, group, finished, failed, delay, logVars, imm, before, level0, bgVars,
          manual, left, bgError, closing, errors>>

\* VersionSet::NeedsCompaction.
NeedsCompaction(files) == files >= CompactionTrigger

\* DB::Open has recovered the files and called MaybeScheduleCompaction.
Init ==
    /\ pc = [t \in Threads |-> "idle"]
    /\ sync \in [Writers -> BOOLEAN]
    /\ queue = <<>> /\ group = <<>>
    /\ finished = {} /\ failed = {}
    /\ delay = [t \in Queued |-> t \in Writers]
    /\ log = <<>> /\ synced = 0 /\ mem = {}
    /\ imm = {} /\ before = [f \in Flushers |-> {}]
    /\ level0 \in 0 .. StopTrigger
    /\ scheduled = NeedsCompaction(level0) /\ bg = "idle"
    /\ manual = NoThread /\ left = [t \in Compactors |-> Passes]
    /\ bgError = FALSE /\ closing = "no" /\ errors = 0

Fail == errors < MaxErrors /\ errors' = errors + 1

\* shutting_down_.
Shutdown == closing # "no"

\* MaybeScheduleCompaction, with the state it sees.
Schedules(already, hasImm, hasManual, files, error) ==
    \/ already
    \/ ~Shutdown /\ ~error /\ (hasImm \/ hasManual \/ NeedsCompaction(files))

\* Signals: of a writer's own condition variable ("waiting") and of
\* background_work_finished_signal_ (the others).
AfterSignal == [waiting |-> "woken", stalled |-> "woken", awaiting |-> "checking"]
Woken(p, signalled) ==
    [t \in DOMAIN p |-> IF t \in signalled /\ p[t] \in DOMAIN AfterSignal
                        THEN AfterSignal[p[t]] ELSE p[t]]
BackgroundWaiters == {t \in Threads : pc[t] \in {"stalled", "awaiting"}}

-----------------------------------------------------------------------------
(* Write.                                                                  *)

\* Mutant: the new head of the queue is not notified.
SignalledOnlyGroup(q, n) == {q[i] : i \in 1 .. n}

\* The writers of the group, and the new head.
Signalled(q, n) == {q[i] : i \in 1 .. (IF n < Len(q) THEN n + 1 ELSE n)}

\* The first n writers of q leave; the others of the group take its status.
Leave(q, n, p, ok) ==
    LET members == {q[i] : i \in 1 .. n}
    IN  /\ queue' = SubSeq(q, n + 1, Len(q))
        /\ finished' = finished \cup (members \ {q[1]})
        /\ failed' = IF ok THEN failed ELSE failed \cup members
        /\ pc' = [Woken(p, Signalled(q, n) \ {q[1]}) EXCEPT ![q[1]] = "returned"]

\* Mutant: a write that wants its batch synced joins any group.
JoinsAny(first, w) == TRUE

\* BuildBatchGroup takes no sync write into the group of one that is not.
Joins(first, w) == w \in Writers /\ sync[w] => sync[first]

\* The sizes a group may have; batches are small or large.
GroupSizes(q) == {n \in 1 .. Len(q) : \A i \in 1 .. n : Joins(q[1], q[i])}

\* The front writer has room.  One without a batch is done.
Proceed(q) ==
    IF q[1] \in Flushers
    THEN /\ Leave(q, 1, pc, TRUE)
         /\ UNCHANGED group
    ELSE /\ \E n \in GroupSizes(q) : group' = SubSeq(q, 1, n)
         /\ queue' = q
         /\ pc' = [pc EXCEPT ![q[1]] = "logging"]
         /\ UNCHANGED <<finished, failed>>

\* The writer releases the mutex and waits.
Wait(q, where) ==
    /\ queue' = q
    /\ pc' = [pc EXCEPT ![q[1]] = where]
    /\ UNCHANGED <<group, finished, failed>>

\* A new memtable has to wait for imm_ or for a compaction of level 0.
MustStall == imm # {} \/ level0 >= StopTrigger

\* MakeRoomForWrite by the writer at the front of q.
MakeRoomForWrite(q) ==
    LET w == q[1]
    IN  \/ /\ bgError
           /\ Leave(q, 1, pc, FALSE)
           /\ UNCHANGED <<group, delay, mem, imm, scheduled, errors>>
        \/ /\ ~bgError /\ delay[w] /\ level0 >= SlowdownTrigger
           /\ Wait(q, "sleeping")
           /\ delay' = [delay EXCEPT ![w] = FALSE]
           /\ UNCHANGED <<mem, imm, scheduled, errors>>
        \/ /\ ~bgError /\ ~(delay[w] /\ level0 >= SlowdownTrigger)
           /\ \/ /\ w \in Writers /\ Cardinality(mem) < BufferSize
                 /\ Proceed(q)
                 /\ UNCHANGED <<mem, imm, scheduled>>
              \/ /\ w \in Flushers \/ Cardinality(mem) >= BufferSize
                 /\ MustStall
                 /\ Wait(q, "stalled")
                 /\ UNCHANGED <<mem, imm, scheduled>>
              \/ /\ w \in Flushers \/ Cardinality(mem) >= BufferSize
                 /\ ~MustStall
                 /\ mem' = {} /\ imm' = imm \cup {mem}
                 /\ scheduled' = Schedules(scheduled, TRUE, manual # NoThread, level0, FALSE)
                 /\ Proceed(q)
           /\ UNCHANGED <<delay, errors>>
        \/ \* the new log file cannot be created
           /\ ~bgError /\ ~(delay[w] /\ level0 >= SlowdownTrigger)
           /\ w \in Flushers \/ Cardinality(mem) >= BufferSize
           /\ ~MustStall
           /\ Fail
           /\ Leave(q, 1, pc, FALSE)
           /\ UNCHANGED <<group, delay, mem, imm, scheduled>>

Returned == {w \in Writers : pc[w] = "returned"}

\* A thread enters Write.
Write(w) ==
    /\ ~Shutdown /\ pc[w] = "idle"
    /\ IF queue = <<>>
       THEN MakeRoomForWrite(<<w>>)
       ELSE /\ queue' = Append(queue, w)
            /\ pc' = [pc EXCEPT ![w] = "waiting"]
            /\ UNCHANGED <<group, finished, failed, delay, mem, imm, scheduled, errors>>
    /\ before' = [f \in Flushers |-> IF f = w THEN Returned \ failed ELSE before[f]]
    /\ UNCHANGED <<sync, log, synced, level0, bg, manual, left, bgError, closing>>

\* A condition variable may wake a thread for no reason.
SpuriousWakeup(t) ==
    /\ pc[t] \in DOMAIN AfterSignal
    /\ pc' = [pc EXCEPT ![t] = AfterSignal[@]]
    /\ UNCHANGED <<sync, queue, group, finished, failed, delay, logVars, imm, before, level0,
                   bgVars, manual, left, bgError, closing, errors>>

\* A writer that was woken, or slept, has the mutex again.
Resume(w) ==
    /\ pc[w] \in {"woken", "sleeping"}
    /\ \/ /\ w \in finished
          /\ pc' = [pc EXCEPT ![w] = "returned"]
          /\ UNCHANGED <<queue, group, finished, failed, delay, mem, imm, scheduled, errors>>
       \/ /\ w \notin finished /\ queue[1] = w
          /\ MakeRoomForWrite(queue)
       \/ /\ w \notin finished /\ queue[1] # w
          /\ pc' = [pc EXCEPT ![w] = "waiting"]
          /\ UNCHANGED <<queue, group, finished, failed, delay, mem, imm, scheduled, errors>>
    /\ UNCHANGED <<sync, log, synced, before, level0, bg, manual, left, bgError, closing>>

\* The log, its sync and the memtable are done, with the mutex released in
\* between; a sync that fails stops all later writes.
FinishWrite(w) ==
    LET batches == ToSet(group) \cap Writers
    IN  /\ pc[w] = "logging"
        /\ \/ /\ log' = Append(log, batches)
              /\ synced' = IF sync[w] THEN Len(log') ELSE synced
              /\ mem' = mem \cup batches
              /\ Leave(queue, Len(group), pc, TRUE)
              /\ UNCHANGED <<bgError, errors>>
           \/ /\ Fail
              /\ \/ UNCHANGED <<log, bgError>> /\ Leave(queue, Len(group), pc, FALSE)
                 \/ /\ sync[w]
                    /\ log' = Append(log, batches)
                    /\ bgError' = TRUE
                    /\ Leave(queue, Len(group), Woken(pc, BackgroundWaiters), FALSE)
              /\ UNCHANGED <<synced, mem>>
        /\ group' = <<>>
        /\ UNCHANGED <<sync, delay, imm, before, level0, bgVars, manual, left, closing>>

-----------------------------------------------------------------------------
(* Background work.                                                        *)

writeVars == <<sync, queue, group, finished, failed, delay, logVars, before>>

\* Background work ends in an error when an operation fails or when the
\* database is being deleted.
BackgroundFails ==
    /\ bgError' = TRUE
    /\ Fail \/ (Shutdown /\ UNCHANGED errors)

\* BackgroundCall ends: it may schedule itself again, and wakes everybody.
EndBackground(hasImm, m, files, error) ==
    /\ bg' = "idle"
    /\ scheduled' = Schedules(FALSE, hasImm, m # NoThread, files, error)
    /\ pc' = Woken(pc, BackgroundWaiters)

\* BackgroundCall takes the mutex and picks the work.
BackgroundCall ==
    /\ scheduled /\ bg = "idle"
    /\ \/ /\ \/ Shutdown \/ bgError
             \/ ~(imm # {} \/ manual # NoThread \/ NeedsCompaction(level0))
          /\ EndBackground(imm # {}, manual, level0, bgError)
          /\ UNCHANGED <<manual, left>>
       \/ /\ ~Shutdown /\ ~bgError /\ imm # {}
          /\ bg' = "flush"
          /\ UNCHANGED <<scheduled, pc, manual, left>>
       \/ /\ ~Shutdown /\ ~bgError /\ imm = {} /\ manual # NoThread
          /\ IF left[manual] = 0
             THEN \* nothing to compact: m->done
                  /\ manual' = NoThread
                  /\ left' = [left EXCEPT ![manual] = Passes + 1]
                  /\ EndBackground(FALSE, NoThread, level0, FALSE)
             ELSE /\ bg' = "manual"
                  /\ UNCHANGED <<scheduled, pc, manual, left>>
       \/ /\ ~Shutdown /\ ~bgError /\ imm = {} /\ manual = NoThread /\ NeedsCompaction(level0)
          /\ bg' = "compaction"
          /\ UNCHANGED <<scheduled, pc, manual, left>>
    /\ UNCHANGED <<writeVars, imm, level0, bgError, closing, errors>>

\* CompactMemTable; its table goes to level 0 or below.
CompactMemTable ==
    \/ /\ imm' = {}
       /\ level0' \in {level0, level0 + 1}
       /\ UNCHANGED <<bgError, errors>>
    \/ /\ BackgroundFails
       /\ UNCHANGED <<imm, level0>>

FlushDone ==
    /\ bg = "flush"
    /\ CompactMemTable
    /\ EndBackground(imm' # {}, manual, level0', bgError')
    /\ UNCHANGED <<writeVars, manual, left, closing>>

\* A compaction finds imm_ set between two keys.
CompactMemTableNested ==
    /\ bg \in {"compaction", "manual"} /\ imm # {}
    /\ CompactMemTable
    /\ pc' = Woken(pc, BackgroundWaiters)
    /\ UNCHANGED <<writeVars, bgVars, manual, left, closing>>

\* DoCompactionWork of level 0 is done, or failed.
CompactionDone ==
    /\ bg = "compaction"
    /\ \/ level0' \in 0 .. level0 - 1 /\ UNCHANGED <<bgError, errors>>
       \/ BackgroundFails /\ UNCHANGED level0
    /\ EndBackground(imm # {}, manual, level0', bgError')
    /\ UNCHANGED <<writeVars, imm, manual, left, closing>>

\* The same for the manual one, which takes part of the range; *m is updated
\* through manual_compaction_.
ManualDone ==
    /\ bg = "manual" /\ manual # NoThread
    /\ \/ /\ level0' \in 0 .. level0
          /\ left' = [left EXCEPT ![manual] = @ - 1]
          /\ UNCHANGED <<bgError, errors>>
       \/ /\ BackgroundFails
          /\ left' = [left EXCEPT ![manual] = Passes + 1]
          /\ UNCHANGED level0
    /\ manual' = NoThread
    /\ EndBackground(imm # {}, NoThread, level0', bgError')
    /\ UNCHANGED <<writeVars, imm, closing>>

-----------------------------------------------------------------------------
(* TEST_CompactMemTable after its write, TEST_CompactRange and ~DBImpl.    *)

\* Mutant: "if" for "while" around the wait.
AwaitImmIf(f) ==
    /\ pc[f] \in {"returned", "checking"}
    /\ pc' = [pc EXCEPT ![f] = IF @ = "returned" /\ imm # {} /\ ~bgError /\ f \notin failed
                               THEN "awaiting" ELSE "done"]
    /\ failed' = IF imm # {} /\ bgError THEN failed \cup {f} ELSE failed
    /\ UNCHANGED <<sync, queue, group, finished, delay, logVars, before, imm, level0, bgVars,
                   manual, left, bgError, closing, errors>>

\* The caller of a write of no batch then waits for imm_.
AwaitImm(f) ==
    /\ pc[f] \in {"returned", "checking"}
    /\ pc' = [pc EXCEPT ![f] = IF imm # {} /\ ~bgError /\ f \notin failed
                               THEN "awaiting" ELSE "done"]
    /\ failed' = IF imm # {} /\ bgError THEN failed \cup {f} ELSE failed
    /\ UNCHANGED <<sync, queue, group, finished, delay, logVars, before, imm, level0, bgVars,
                   manual, left, bgError, closing, errors>>

\* Mutant: a caller that leaves cancels whatever runs.
AfterCancelAny(t) == NoThread

\* A caller that leaves cancels its own manual compaction.
AfterCancel(t) == IF manual = t THEN NoThread ELSE manual

\* The loop of TEST_CompactRange, from the top to where it waits or ends.
CompactRange(t) ==
    /\ ~Shutdown \/ pc[t] # "idle"
    /\ pc[t] \in {"idle", "checking"}
    /\ IF left[t] > Passes \/ bgError
       THEN /\ pc' = [pc EXCEPT ![t] = "done"]
            /\ manual' = AfterCancel(t)
            /\ UNCHANGED scheduled
       ELSE \* an idle manual_compaction_ is taken first; then it waits
            /\ pc' = [pc EXCEPT ![t] = "awaiting"]
            /\ manual' = IF manual = NoThread THEN t ELSE manual
            /\ scheduled' = IF manual = NoThread
                            THEN Schedules(scheduled, imm # {}, TRUE, level0, bgError)
                            ELSE scheduled
    /\ UNCHANGED <<writeVars, imm, level0, bg, left, bgError, closing, errors>>

\* The destructor waits while background work is scheduled.
MayDestroy == ~scheduled

\* ~DBImpl; no thread uses the database any more.
Destroy ==
    /\ \A t \in Threads : pc[t] \in {"idle", "returned", "done"}
    /\ \A f \in Flushers : pc[f] # "returned"
    /\ closing # "closed"
    /\ closing' = IF MayDestroy THEN "closed" ELSE "waiting"
    /\ closing' # closing
    /\ UNCHANGED <<pc, writeVars, imm, level0, bgVars, manual, left, bgError, errors>>

-----------------------------------------------------------------------------
\* Everything a thread does of its own accord.
Step(t) ==
    \/ t \in Queued /\ (Write(t) \/ Resume(t) \/ FinishWrite(t))
    \/ t \in Flushers /\ AwaitImm(t)
    \/ t \in Compactors /\ CompactRange(t)

BackgroundWork ==
    BackgroundCall \/ FlushDone \/ CompactMemTableNested \/ CompactionDone \/ ManualDone

\* The background thread will find manual_compaction_ null in a manual
\* compaction, which is not defined.
Crashing == bg = "manual" /\ manual = NoThread

\* The program ends once the database is deleted.
Terminated == ((closing = "closed" /\ ~scheduled) \/ Crashing) /\ UNCHANGED vars

Next ==
    \/ \E t \in Threads : Step(t) \/ SpuriousWakeup(t)
    \/ BackgroundWork
    \/ Destroy
    \/ Terminated

Spec == Init /\ [][Next]_vars

\* A thread that can run does (the mutex is fair enough for each to get it),
\* and so does the background thread; nobody has to call the database, and a
\* compaction need not find imm_ set before its last key.
Runs(t) == pc[t] # "idle" /\ Step(t)
Fairness ==
    /\ \A t \in Threads : WF_vars(Runs(t))
    /\ WF_vars(BackgroundCall \/ FlushDone \/ CompactionDone \/ ManualDone)

FairSpec == Spec /\ Fairness

-----------------------------------------------------------------------------
ThreadStates == {"idle", "waiting", "woken", "sleeping", "stalled", "logging", "returned",
                 "awaiting", "checking", "done"}

\* Types; the batches of the group being logged are the head of the queue, and
\* only the thread at its head works.
TypeOK ==
    /\ pc \in [Threads -> ThreadStates]
    /\ sync \in [Writers -> BOOLEAN]
    /\ queue \in Seq(Queued) /\ group \in Seq(Queued)
    /\ finished \subseteq Queued /\ failed \subseteq Queued
    /\ delay \in [Queued -> BOOLEAN]
    /\ log \in Seq(SUBSET Writers) /\ synced \in 0 .. Len(log)
    /\ mem \subseteq Writers /\ imm \subseteq SUBSET Writers /\ Cardinality(imm) <= 1
    /\ before \in [Flushers -> SUBSET Writers]
    /\ level0 \in Nat /\ scheduled \in BOOLEAN
    /\ bg \in {"idle", "flush", "compaction", "manual"}
    /\ manual \in Compactors \cup {NoThread}
    /\ left \in [Compactors -> 0 .. Passes + 1]
    /\ bgError \in BOOLEAN /\ closing \in {"no", "waiting", "closed"}
    /\ errors \in 0 .. MaxErrors
    /\ IsPrefix(group, queue)
    /\ \A t \in Queued : pc[t] \in {"sleeping", "stalled", "logging"} => queue[1] = t

\* A write that asked for sync and returned without an error is in the part of
\* the log that was synced, whoever logged it for it (BuildBatchGroup).
SyncedWhenReturned ==
    \A w \in Writers : (pc[w] = "returned" /\ w \notin failed /\ sync[w])
                          => \E i \in 1 .. synced : w \in log[i]

\* A batch is logged at most once, and exactly once when its write returned
\* without an error: no member of a group is left in the queue or logged again.
LoggedOnce ==
    \A w \in Writers :
        LET copies == {i \in DOMAIN log : w \in log[i]}
        IN  /\ Cardinality(copies) <= 1
            /\ (pc[w] = "returned" /\ w \notin failed) => copies # {}

\* BackgroundCompaction updates *m through manual_compaction_ when its work is
\* done, and its caller withdraws the pointer when it stops waiting: it is null
\* then only if a flush inside the compaction, or a write, recorded an error
\* meanwhile, in which case the process dereferences null.
ManualNotNull == Crashing => bgError

\* After ~DBImpl has waited, no background work is left that would use it.
NothingAfterDestroy == closing = "closed" => ~scheduled /\ bg = "idle"

\* TEST_CompactMemTable ("Force current memtable contents to be compacted"):
\* when it returns without an error, what was written before it was called is
\* in tables, unless its null batch joined the group of another writer, which
\* then returned for it without making any room.
MemTableCompacted ==
    \A f \in Flushers : (pc[f] = "done" /\ f \notin failed \cup finished)
                           => before[f] \cap (mem \cup UNION imm) = {}

\* Every call of the database returns, unless the process ends: no signal is
\* missed in the queue, in the stalls of MakeRoomForWrite, behind a background
\* error or between two manual compactions, and the destructor returns.
CallsReturn ==
    /\ \A t \in Threads :
          pc[t] # "idle" ~>
             \/ pc[t] = IF t \in Writers THEN "returned" ELSE "done"
             \/ Crashing
    /\ closing = "waiting" ~> (~scheduled /\ bg = "idle") \/ Crashing

\* A write that returned without an error is in the log once, whoever logged it
\* for it, and in its synced part if it asked for that.
WritesLogged == LoggedOnce /\ SyncedWhenReturned

\* The background thread and those who wait for it agree: it never finds the
\* manual compaction withdrawn, unless an error was recorded meanwhile, and it
\* uses nothing after the destructor has returned.
BackgroundConsistent == TypeOK /\ ManualNotNull /\ NothingAfterDestroy
=============================================================================
