-------------------------- MODULE DBWritersProofs --------------------------
(***************************************************************************)
(* Proofs about the threads of DBImpl, for any threads, triggers and       *)
(* errors: the queue of writers, what a write that returned has left in    *)
(* the log, what TEST_CompactMemTable promises, and what the background    *)
(* thread finds when it takes the mutex.                                   *)
(***************************************************************************)
EXTENDS DBWriters, SequenceTheorems, FiniteSetTheorems, TLAPS

-----------------------------------------------------------------------------
(* The inductive invariant.                                                *)

InQueue(t) == \E i \in 1 .. Len(queue) : queue[i] = t

\* Types, but for what the queue and the group have to do with each other.
ThreadTypes ==
    /\ pc \in [Threads -> ThreadStates]
    /\ sync \in [Writers -> BOOLEAN]
    /\ finished \subseteq Queued /\ failed \subseteq Queued
    /\ delay \in [Queued -> BOOLEAN]
    /\ before \in [Flushers -> SUBSET Writers]

QueueTypes == queue \in Seq(Queued) /\ group \in Seq(Queued)

LogTypes ==
    /\ log \in Seq(SUBSET Writers) /\ synced \in 0 .. Len(log)
    /\ mem \subseteq Writers /\ imm \subseteq SUBSET Writers
    /\ imm = {} \/ \E m : imm = {m}

WorkTypes ==
    /\ level0 \in Nat /\ scheduled \in BOOLEAN
    /\ bg \in {"idle", "flush", "compaction", "manual"}
    /\ manual \in Compactors \cup {NoThread}
    /\ left \in [Compactors -> 0 .. Passes + 1]
    /\ bgError \in BOOLEAN /\ closing \in {"no", "waiting", "closed"}
    /\ errors \in 0 .. MaxErrors

\* Who may be where: only the front of the queue is beyond waiting.
FrontStates == {"waiting", "woken", "sleeping", "stalled", "logging"}
QueueStates(i) == IF i = 1 THEN FrontStates ELSE {"waiting", "woken"}

\* The queue holds every thread in the middle of Write, once, unless somebody
\* has done its work for it.
QueueInv ==
    /\ \A i, j \in 1 .. Len(queue) : queue[i] = queue[j] => i = j
    /\ \A i \in 1 .. Len(queue) : queue[i] \notin finished /\ pc[queue[i]] \in QueueStates(i)
    /\ \A t \in Queued : pc[t] \in FrontStates => t \in finished \/ InQueue(t)
    /\ \A t \in finished : pc[t] \in {"woken", "returned", "awaiting", "checking", "done"}

\* A group is being logged just when the front of the queue is at it; it is led
\* by a writer and takes a write with sync only behind one.
GroupInv ==
    /\ Len(group) <= Len(queue)
    /\ \A i \in 1 .. Len(group) : group[i] = queue[i] /\ Joins(group[1], group[i])
    /\ Len(group) > 0 => pc[queue[1]] = "logging"
    /\ \A t \in Queued : pc[t] = "logging" => Len(group) > 0 /\ t \in Writers

\* A batch has at most one record, and none before its write is over; a write
\* that is over without an error has one, in the synced part if it wanted sync.
Over(w) == pc[w] = "returned" \/ w \in finished
LogInv ==
    /\ \A i, j \in 1 .. Len(log) : \A w \in log[i] \cap log[j] : i = j
    /\ \A i \in 1 .. Len(log) : \A w \in log[i] : Over(w)
    /\ \A w \in Writers : Over(w) /\ w \notin failed =>
          \E i \in 1 .. Len(log) : w \in log[i] /\ (sync[w] => i <= synced)

\* What was written before a flusher called has left the memtable when its
\* write is over, and imm_ too when it returns.
FlushInv ==
    \A f \in Flushers :
        /\ \A w \in before[f] : pc[w] = "returned"
        /\ f \notin failed \cup finished =>
              /\ pc[f] \in {"returned", "awaiting", "checking", "done"} => before[f] \cap mem = {}
              /\ pc[f] = "done" => before[f] \cap UNION imm = {}

\* A manual compaction that is waited for has passes left, and one that runs has
\* at least one; it is withdrawn only behind an error.  Work that runs has been
\* scheduled, and none is after the destructor.
WorkInv ==
    /\ manual # NoThread => left[manual] <= Passes
    /\ bg = "manual" => IF manual = NoThread THEN bgError ELSE left[manual] > 0
    /\ bg # "idle" => scheduled
    /\ closing = "closed" => ~scheduled

Inv ==
    /\ ThreadTypes /\ QueueTypes /\ LogTypes /\ WorkTypes
    /\ QueueInv /\ GroupInv /\ LogInv /\ FlushInv /\ WorkInv

-----------------------------------------------------------------------------
(* Lemmas: signals, and the ways a step can touch the queue.               *)

\* What a signal does to a thread.
Wake(x) == IF x \in {"waiting", "stalled"} THEN "woken"
           ELSE IF x = "awaiting" THEN "checking" ELSE x

LEMMA ThreadSets ==
    /\ Queued \subseteq Threads /\ Writers \subseteq Queued /\ Flushers \subseteq Queued
    /\ Compactors \subseteq Threads
    /\ \A t \in Queued : t \in Writers \/ t \in Flushers
    /\ \A t \in Threads : t \in Queued \/ t \in Compactors
    /\ \A t \in Writers : t \notin Flushers /\ t \notin Compactors
    /\ \A t \in Flushers : t \notin Compactors
    /\ NoThread \notin Threads
BY ThreadsAssumption DEF Queued, Threads

LEMMA WokenIs ==
    ASSUME NEW p \in [Threads -> ThreadStates], NEW S
    PROVE  /\ Woken(p, S) \in [Threads -> ThreadStates]
           /\ \A t \in Threads : Woken(p, S)[t] = IF t \in S THEN Wake(p[t]) ELSE p[t]
<1>1. DOMAIN AfterSignal = {"waiting", "stalled", "awaiting"}
  BY DEF AfterSignal
<1>2. /\ AfterSignal["waiting"] = "woken" /\ AfterSignal["stalled"] = "woken"
      /\ AfterSignal["awaiting"] = "checking"
  BY DEF AfterSignal
<1>3. ASSUME NEW t \in Threads
      PROVE  /\ Woken(p, S)[t] = IF t \in S THEN Wake(p[t]) ELSE p[t]
             /\ Woken(p, S)[t] \in ThreadStates
  <2>1. p[t] \in ThreadStates /\ DOMAIN p = Threads
    OBVIOUS
  <2>2. Woken(p, S)[t] = IF t \in S /\ p[t] \in DOMAIN AfterSignal THEN AfterSignal[p[t]] ELSE p[t]
    BY <2>1 DEF Woken
  <2>3. PICK x \in ThreadStates : x = p[t]
    BY <2>1
  <2>4. (IF t \in S /\ x \in DOMAIN AfterSignal THEN AfterSignal[x] ELSE x)
           = IF t \in S THEN Wake(x) ELSE x
    BY <1>1, <1>2 DEF Wake, ThreadStates
  <2>5. Wake(x) \in ThreadStates
    BY DEF Wake, ThreadStates
  <2> QED BY <2>2, <2>3, <2>4, <2>5
<1>4. DOMAIN Woken(p, S) = Threads
  BY DEF Woken
<1>5. Woken(p, S) \in [Threads -> ThreadStates]
  BY <1>3, <1>4 DEF Woken
<1> QED BY <1>3, <1>5

\* What a thread of the queue may do that leaves the queue alone.
Harmless(t) ==
    \/ pc'[t] = pc[t]
    \/ pc[t] \in {"waiting", "stalled"} /\ pc'[t] = "woken"
    \/ pc[t] = "woken" /\ t \in finished /\ pc'[t] = "returned"
    \/ pc[t] = "woken" /\ t \notin finished /\ pc'[t] = "waiting"
    \/ pc[t] = "awaiting" /\ pc'[t] = "checking"
    \/ /\ t \in Flushers
       /\ pc[t] \in {"returned", "checking"} /\ pc'[t] \in {"awaiting", "done"}
       /\ pc'[t] = "done" => imm' = {} \/ t \in failed'

CalmStep ==
    /\ UNCHANGED <<sync, queue, group, finished, delay, log, synced, mem, before>>
    /\ imm' \subseteq imm
    /\ failed \subseteq failed' /\ failed' \subseteq Queued
    /\ \A w \in Writers : w \in failed' => w \in failed
    /\ pc' \in [Threads -> ThreadStates]
    /\ \A t \in Queued : Harmless(t)

LEMMA CalmKeepsQueue ==
    ASSUME Inv, CalmStep
    PROVE  QueueInv' /\ GroupInv'
<1> USE ThreadSets
<1>1. QueueTypes /\ QueueInv /\ GroupInv
  BY DEF Inv
<1>2. queue' = queue /\ group' = group /\ finished' = finished /\ sync' = sync
  BY DEF CalmStep
<1>3. ASSUME NEW i \in 1 .. Len(queue)
      PROVE  queue[i] \in Queued /\ pc'[queue[i]] \in QueueStates(i)
             /\ (pc[queue[i]] = "logging" => pc'[queue[i]] = "logging")
             /\ (pc'[queue[i]] = "logging" => pc[queue[i]] = "logging")
  <2>1. queue[i] \in Queued
    BY <1>1 DEF QueueTypes
  <2>2. PICK t \in Queued : t = queue[i]
    BY <2>1
  <2>3. pc[t] \in QueueStates(i) /\ t \notin finished /\ Harmless(t)
    BY <1>1, <2>2 DEF QueueInv, CalmStep
  <2> QED BY <2>2, <2>3 DEF QueueStates, FrontStates, Harmless
<1>4. QueueInv'
  <2>1. ASSUME NEW t \in Queued, pc'[t] \in FrontStates PROVE t \in finished \/ InQueue(t)
    <3>1. Harmless(t)
      BY DEF CalmStep
    <3>2. pc[t] \in FrontStates
      BY <2>1, <3>1 DEF Harmless, FrontStates
    <3> QED BY <3>2, <1>1 DEF QueueInv
  <2>2. ASSUME NEW t \in finished
        PROVE  pc'[t] \in {"woken", "returned", "awaiting", "checking", "done"}
    <3>1. t \in Queued
      BY DEF Inv, ThreadTypes
    <3>2. Harmless(t) /\ pc[t] \in {"woken", "returned", "awaiting", "checking", "done"}
      BY <3>1, <1>1 DEF CalmStep, QueueInv
    <3> QED BY <3>2 DEF Harmless
  <2> QED BY <2>1, <2>2, <1>1, <1>2, <1>3 DEF QueueInv, InQueue
<1>5. GroupInv'
  <2>1. ASSUME NEW t \in Queued, pc'[t] = "logging" PROVE pc[t] = "logging"
    BY <2>1 DEF CalmStep, Harmless
  <2>2. Len(group) > 0 => pc'[queue[1]] = "logging"
    <3> SUFFICES ASSUME Len(group) > 0 PROVE pc'[queue[1]] = "logging"
      OBVIOUS
    <3>1. 1 \in 1 .. Len(queue) /\ pc[queue[1]] = "logging"
      BY <1>1 DEF GroupInv, QueueTypes
    <3> QED BY <3>1, <1>3
  <2> QED BY <2>1, <2>2, <1>1, <1>2 DEF GroupInv, Joins
<1> QED BY <1>4, <1>5

LEMMA CalmKeepsLog ==
    ASSUME Inv, CalmStep
    PROVE  LogInv' /\ FlushInv'
<1> USE ThreadSets
<1>1. LogInv /\ FlushInv /\ ThreadTypes /\ QueueInv
  BY DEF Inv
<1>2. /\ finished' = finished /\ sync' = sync /\ log' = log /\ synced' = synced
      /\ mem' = mem /\ before' = before
  BY DEF CalmStep
<1>3. ASSUME NEW w \in Writers
      PROVE  (Over(w)' <=> Over(w)) /\ (w \in failed' <=> w \in failed)
             /\ (pc[w] = "returned" => pc'[w] = "returned")
  <2>1. Harmless(w) /\ (w \in failed' <=> w \in failed)
    BY DEF CalmStep
  <2> QED BY <2>1, <1>2 DEF Over, Harmless
<1>4. LogInv'
  <2>1. ASSUME NEW i \in 1 .. Len(log), NEW w \in log[i] PROVE Over(w)'
    <3>1. w \in Writers
      BY DEF Inv, LogTypes
    <3> QED BY <3>1, <1>1, <1>3 DEF LogInv
  <2>2. ASSUME NEW w \in Writers, Over(w)', w \notin failed'
        PROVE  \E i \in 1 .. Len(log) : w \in log[i] /\ (sync[w] => i <= synced)
    BY <2>2, <1>1, <1>3 DEF LogInv
  <2> QED BY <2>1, <2>2, <1>1, <1>2 DEF LogInv
<1>5. FlushInv'
  <2> SUFFICES ASSUME NEW f \in Flushers
               PROVE  /\ \A w \in before[f] : pc'[w] = "returned"
                      /\ f \notin failed' \cup finished =>
                            /\ pc'[f] \in {"returned", "awaiting", "checking", "done"}
                                 => before[f] \cap mem = {}
                            /\ pc'[f] = "done" => before[f] \cap UNION imm' = {}
    BY <1>2 DEF FlushInv
  <2>1. before[f] \subseteq Writers
    BY <1>1 DEF ThreadTypes
  <2>2. \A w \in before[f] : pc'[w] = "returned"
    BY <2>1, <1>1, <1>3 DEF FlushInv
  <2>3. ASSUME f \notin failed', f \notin finished
        PROVE  /\ pc'[f] \in {"returned", "awaiting", "checking", "done"}
                    => before[f] \cap mem = {}
               /\ pc'[f] = "done" => before[f] \cap UNION imm' = {}
    <3>1. f \notin failed /\ Harmless(f) /\ imm' \subseteq imm
      BY <2>3 DEF CalmStep
    <3>2. /\ pc[f] \in {"returned", "awaiting", "checking", "done"} => before[f] \cap mem = {}
          /\ pc[f] = "done" => before[f] \cap UNION imm = {}
      BY <3>1, <2>3, <1>1 DEF FlushInv
    <3>3. pc'[f] \in {"returned", "awaiting", "checking", "done"} => before[f] \cap mem = {}
      BY <3>1, <3>2, <2>3 DEF Harmless
    <3>4. pc'[f] = "done" => imm' = {} \/ pc[f] = "done"
      BY <3>1, <2>3 DEF Harmless
    <3>5. UNION imm' \subseteq UNION imm
      BY <3>1
    <3> QED BY <3>2, <3>3, <3>4, <3>5
  <2> QED BY <2>2, <2>3
<1> QED BY <1>4, <1>5

LEMMA CalmKeepsTypes ==
    ASSUME Inv, CalmStep
    PROVE  ThreadTypes' /\ QueueTypes' /\ LogTypes'
<1>1. ThreadTypes'
  BY DEF Inv, CalmStep, ThreadTypes
<1>2. QueueTypes'
  BY DEF Inv, CalmStep, QueueTypes
<1>3. imm' = {} \/ \E m : imm' = {m}
  BY DEF Inv, CalmStep, LogTypes
<1>4. LogTypes'
  BY <1>3 DEF Inv, CalmStep, LogTypes
<1> QED BY <1>1, <1>2, <1>4

-----------------------------------------------------------------------------
(* The steps that leave the queue alone.                                   *)

LEMMA WakeIsHarmless ==
    ASSUME Inv, NEW t \in Queued, pc'[t] = pc[t] \/ pc'[t] = Wake(pc[t])
    PROVE  Harmless(t)
BY DEF Wake, Harmless

\* Those who wait for the background thread are woken, or nobody is.
LEMMA SignalIsCalm ==
    ASSUME Inv, UNCHANGED writeVars, imm' \subseteq imm,
           pc' = pc \/ pc' = Woken(pc, BackgroundWaiters)
    PROVE  CalmStep
<1> USE ThreadSets
<1>1. pc \in [Threads -> ThreadStates] /\ failed \subseteq Queued
  BY DEF Inv, ThreadTypes
<1>2. pc' \in [Threads -> ThreadStates]
  BY <1>1, WokenIs
<1>3. ASSUME NEW t \in Queued PROVE Harmless(t)
  <2>1. pc'[t] = pc[t] \/ pc'[t] = Wake(pc[t])
    BY <1>1, WokenIs
  <2> QED BY <2>1, WakeIsHarmless
<1> QED BY <1>1, <1>2, <1>3 DEF CalmStep, writeVars, logVars

\* One thread moves.
LEMMA MoveIsCalm ==
    ASSUME Inv, NEW t \in Threads, NEW x \in ThreadStates, pc' = [pc EXCEPT ![t] = x],
           UNCHANGED <<sync, queue, group, finished, delay, log, synced, mem, before, imm>>,
           failed \subseteq failed', failed' \subseteq Queued,
           \A w \in Writers : w \in failed' => w \in failed,
           t \in Queued => Harmless(t)
    PROVE  CalmStep
<1>1. pc \in [Threads -> ThreadStates]
  BY DEF Inv, ThreadTypes
<1>2. pc' \in [Threads -> ThreadStates]
  BY <1>1
<1>3. ASSUME NEW s \in Queued PROVE Harmless(s)
  <2>1. CASE s = t
    BY <2>1
  <2>2. CASE s # t
    BY <2>2, <1>1, ThreadSets DEF Harmless
  <2> QED BY <2>1, <2>2
<1> QED BY <1>2, <1>3 DEF CalmStep

LEMMA SpuriousIsCalm ==
    ASSUME Inv, NEW t \in Threads, SpuriousWakeup(t)
    PROVE  CalmStep
<1>1. DOMAIN AfterSignal = {"waiting", "stalled", "awaiting"}
  BY DEF AfterSignal
<1>2. /\ AfterSignal["waiting"] = "woken" /\ AfterSignal["stalled"] = "woken"
      /\ AfterSignal["awaiting"] = "checking"
  BY DEF AfterSignal
<1>3. pc \in [Threads -> ThreadStates] /\ failed \subseteq Queued
  BY DEF Inv, ThreadTypes
<1>4. PICK x : x = pc[t]
  OBVIOUS
<1>5. x \in {"waiting", "stalled", "awaiting"} /\ pc' = [pc EXCEPT ![t] = AfterSignal[x]]
  BY <1>1, <1>4 DEF SpuriousWakeup
<1>6. AfterSignal[x] = Wake(x) /\ Wake(x) \in ThreadStates
  BY <1>2, <1>5 DEF Wake, ThreadStates
<1>7. pc' = [pc EXCEPT ![t] = Wake(x)] /\ pc'[t] = Wake(pc[t])
  BY <1>3, <1>4, <1>5, <1>6
<1>8. t \in Queued => Harmless(t)
  BY <1>7, WakeIsHarmless
<1>9. UNCHANGED <<sync, queue, group, finished, failed, delay, log, synced, mem, before, imm>>
  BY DEF SpuriousWakeup, logVars
<1> QED BY <1>3, <1>6, <1>7, <1>8, <1>9, MoveIsCalm

\* A writer that somebody has written for returns; one that is not at the front
\* goes back to waiting.
LEMMA ResumeIsCalm ==
    ASSUME Inv, NEW w \in Queued, Resume(w), w \in finished \/ queue[1] # w
    PROVE  CalmStep /\ imm' = imm /\ scheduled' = scheduled /\ errors' = errors
<1> USE ThreadSets
<1>1. pc \in [Threads -> ThreadStates] /\ QueueInv /\ failed \subseteq Queued /\ QueueTypes
  BY DEF Inv, ThreadTypes
<1>2. PICK x \in {"returned", "waiting"} :
        /\ pc' = [pc EXCEPT ![w] = x]
        /\ x = "returned" => w \in finished
        /\ x = "waiting" => w \notin finished /\ queue[1] # w
        /\ UNCHANGED <<queue, group, finished, failed, delay, mem, imm, scheduled, errors>>
  BY DEF Resume
<1>3. pc[w] \in {"woken", "sleeping"} /\ UNCHANGED <<sync, log, synced, before>>
  BY DEF Resume
<1>4. pc[w] = "woken"
  <2>1. CASE w \in finished
    BY <2>1, <1>1, <1>3 DEF QueueInv
  <2>2. CASE w \notin finished
    <3>1. PICK i \in 1 .. Len(queue) : queue[i] = w
      BY <2>2, <1>1, <1>3 DEF QueueInv, InQueue, FrontStates
    <3>2. i # 1
      BY <3>1, <2>2
    <3> QED BY <3>1, <3>2, <1>1, <1>3 DEF QueueInv, QueueStates
  <2> QED BY <2>1, <2>2
<1>5. Harmless(w)
  <2>1. pc'[w] = x
    BY <1>1, <1>2
  <2> QED BY <2>1, <1>2, <1>4 DEF Harmless
<1>6. x \in ThreadStates
  BY DEF ThreadStates
<1> QED BY <1>1, <1>2, <1>3, <1>5, <1>6, MoveIsCalm

LEMMA AwaitIsCalm ==
    ASSUME Inv, NEW f \in Flushers, AwaitImm(f)
    PROVE  CalmStep
<1> USE ThreadSets
<1>1. pc \in [Threads -> ThreadStates] /\ failed \subseteq Queued
  BY DEF Inv, ThreadTypes
<1>2. PICK x : x = IF imm # {} /\ ~bgError /\ f \notin failed THEN "awaiting" ELSE "done"
  OBVIOUS
<1>3. pc' = [pc EXCEPT ![f] = x] /\ x \in {"awaiting", "done"} /\ x \in ThreadStates
  BY <1>2 DEF AwaitImm, ThreadStates
<1>4. failed' = IF imm # {} /\ bgError THEN failed \cup {f} ELSE failed
  BY DEF AwaitImm
<1>5. x = "done" => imm = {} \/ f \in failed'
  BY <1>2, <1>4
<1>6. UNCHANGED <<sync, queue, group, finished, delay, log, synced, mem, before, imm>>
  BY DEF AwaitImm, logVars
<1>7. pc[f] \in {"returned", "checking"} /\ pc'[f] = x
  BY <1>1, <1>3 DEF AwaitImm
<1>8. Harmless(f)
  BY <1>3, <1>5, <1>6, <1>7 DEF Harmless
<1> QED BY <1>1, <1>3, <1>4, <1>6, <1>8, MoveIsCalm

LEMMA CompactRangeIsCalm ==
    ASSUME Inv, NEW t \in Compactors, CompactRange(t)
    PROVE  CalmStep
<1> USE ThreadSets
<1>1. PICK x \in {"done", "awaiting"} : pc' = [pc EXCEPT ![t] = x]
  BY DEF CompactRange
<1>2. x \in ThreadStates /\ failed \subseteq Queued
  BY DEF ThreadStates, Inv, ThreadTypes
<1>3. UNCHANGED <<sync, queue, group, finished, failed, delay, log, synced, mem, before, imm>>
  BY DEF CompactRange, writeVars, logVars
<1> QED BY <1>1, <1>2, <1>3, MoveIsCalm

LEMMA BackgroundIsCalm ==
    ASSUME Inv, BackgroundWork
    PROVE  CalmStep
<1>1. CASE BackgroundCall
  BY <1>1, SignalIsCalm DEF BackgroundCall, EndBackground
<1>2. CASE FlushDone
  BY <1>2, SignalIsCalm DEF FlushDone, CompactMemTable, EndBackground
<1>3. CASE CompactMemTableNested
  BY <1>3, SignalIsCalm DEF CompactMemTableNested, CompactMemTable
<1>4. CASE CompactionDone
  BY <1>4, SignalIsCalm DEF CompactionDone, EndBackground
<1>5. CASE ManualDone
  BY <1>5, SignalIsCalm DEF ManualDone, EndBackground
<1> QED BY <1>1, <1>2, <1>3, <1>4, <1>5 DEF BackgroundWork

LEMMA DestroyIsCalm ==
    ASSUME Inv, Destroy \/ UNCHANGED vars
    PROVE  CalmStep
BY SignalIsCalm DEF Destroy, vars, writeVars, logVars

-----------------------------------------------------------------------------
(* The background work.                                                    *)

\* MaybeScheduleCompaction withdraws nothing, and adds nothing once the
\* destructor has begun.
LEMMA SchedulesIs ==
    ASSUME WorkTypes, NEW already \in BOOLEAN, NEW hasImm \in BOOLEAN, NEW hasManual \in BOOLEAN,
           NEW files \in Nat, NEW error \in BOOLEAN
    PROVE  /\ Schedules(already, hasImm, hasManual, files, error) \in BOOLEAN
           /\ already => Schedules(already, hasImm, hasManual, files, error)
           /\ closing # "no" /\ ~already => ~Schedules(already, hasImm, hasManual, files, error)
BY DEF Schedules, Shutdown, NeedsCompaction

\* What a writer can do to it.
WriterWork ==
    /\ UNCHANGED <<level0, bg, manual, left, closing>>
    /\ bgError' \in BOOLEAN /\ (bgError => bgError')
    /\ scheduled' \in BOOLEAN /\ (scheduled => scheduled')
    /\ closing # "no" /\ ~scheduled => ~scheduled'
    /\ errors' \in 0 .. MaxErrors

LEMMA WriterWorkKeeps ==
    ASSUME Inv, WriterWork
    PROVE  WorkTypes' /\ WorkInv'
<1>1. WorkTypes /\ WorkInv
  BY DEF Inv
<1>2. WorkTypes'
  BY <1>1 DEF WorkTypes, WriterWork
<1>3. WorkInv'
  BY <1>1 DEF WorkInv, WriterWork
<1> QED BY <1>2, <1>3

LEMMA FailCounts ==
    ASSUME WorkTypes, Fail
    PROVE  errors' \in 0 .. MaxErrors
BY TriggersAssumption DEF WorkTypes, Fail

LEMMA RoomIsWriterWork ==
    ASSUME Inv, NEW q, MakeRoomForWrite(q), UNCHANGED <<level0, bg, manual, left, bgError, closing>>
    PROVE  WriterWork
<1>1. WorkTypes
  BY DEF Inv
<1>2. errors' \in 0 .. MaxErrors
  <2>1. UNCHANGED errors \/ Fail
    BY DEF MakeRoomForWrite
  <2> QED BY <2>1, <1>1, FailCounts DEF WorkTypes
<1>3. /\ scheduled' \in BOOLEAN /\ (scheduled => scheduled')
      /\ closing # "no" /\ ~scheduled => ~scheduled'
  <2>1. scheduled' = scheduled \/ scheduled' = Schedules(scheduled, TRUE, manual # NoThread, level0, FALSE)
    BY DEF MakeRoomForWrite
  <2>2. CASE scheduled' = scheduled
    BY <2>2, <1>1 DEF WorkTypes
  <2>3. CASE scheduled' = Schedules(scheduled, TRUE, manual # NoThread, level0, FALSE)
    <3>1. scheduled \in BOOLEAN /\ level0 \in Nat
      BY <1>1 DEF WorkTypes
    <3> QED BY <2>3, <3>1, <1>1, SchedulesIs
  <2> QED BY <2>1, <2>2, <2>3
<1> QED BY <1>1, <1>2, <1>3 DEF WriterWork, WorkTypes

LEMMA WritersWork ==
    ASSUME Inv, NEW w \in Queued, Write(w) \/ Resume(w) \/ FinishWrite(w)
    PROVE  WorkTypes' /\ WorkInv'
<1>0. WorkTypes
  BY DEF Inv
<1>1. CASE Write(w)
  <2>1. CASE queue = <<>>
    BY <1>1, <2>1, RoomIsWriterWork, WriterWorkKeeps DEF Write
  <2>2. CASE queue # <<>>
    <3>1. WriterWork
      BY <1>1, <2>2, <1>0 DEF Write, WriterWork, WorkTypes
    <3> QED BY <3>1, WriterWorkKeeps
  <2> QED BY <2>1, <2>2
<1>2. CASE Resume(w)
  <2>1. CASE MakeRoomForWrite(queue)
    BY <1>2, <2>1, RoomIsWriterWork, WriterWorkKeeps DEF Resume
  <2>2. CASE UNCHANGED <<scheduled, errors>>
    <3>1. WriterWork
      BY <1>2, <2>2, <1>0 DEF Resume, WriterWork, WorkTypes
    <3> QED BY <3>1, WriterWorkKeeps
  <2> QED BY <1>2, <2>1, <2>2 DEF Resume
<1>3. CASE FinishWrite(w)
  <2>1. errors' \in 0 .. MaxErrors
    <3>1. UNCHANGED errors \/ Fail
      BY <1>3 DEF FinishWrite
    <3> QED BY <3>1, <1>0, FailCounts DEF WorkTypes
  <2>2. bgError' \in BOOLEAN /\ (bgError => bgError')
    BY <1>3, <1>0 DEF FinishWrite, WorkTypes
  <2>3. UNCHANGED <<level0, bg, manual, left, closing, scheduled>>
    BY <1>3 DEF FinishWrite, bgVars
  <2>4. WriterWork
    BY <2>1, <2>2, <2>3, <1>0 DEF WriterWork, WorkTypes
  <2> QED BY <2>4, WriterWorkKeeps
<1> QED BY <1>1, <1>2, <1>3

\* The end of a background call.
LEMMA EndBackgroundIs ==
    ASSUME WorkTypes, NEW hasImm \in BOOLEAN, NEW m, NEW files \in Nat, NEW error \in BOOLEAN,
           EndBackground(hasImm, m, files, error)
    PROVE  bg' = "idle" /\ scheduled' \in BOOLEAN /\ (closing # "no" => ~scheduled')
<1>1. scheduled' = Schedules(FALSE, hasImm, m # NoThread, files, error) /\ bg' = "idle"
  BY DEF EndBackground
<1> QED BY <1>1, SchedulesIs

LEMMA BackgroundError ==
    ASSUME WorkTypes, BackgroundFails
    PROVE  bgError' = TRUE /\ errors' \in 0 .. MaxErrors
BY FailCounts DEF BackgroundFails, WorkTypes

LEMMA WorkOutcome ==
    ASSUME WorkTypes,
           \/ BackgroundFails /\ level0' = level0
           \/ level0' \in Nat /\ UNCHANGED <<bgError, errors>>
    PROVE  level0' \in Nat /\ bgError' \in BOOLEAN /\ (bgError => bgError') /\ errors' \in 0 .. MaxErrors
<1>1. CASE BackgroundFails /\ level0' = level0
  <2>1. bgError' = TRUE /\ errors' \in 0 .. MaxErrors
    BY <1>1, BackgroundError
  <2> QED BY <1>1, <2>1 DEF WorkTypes
<1>2. CASE level0' \in Nat /\ UNCHANGED <<bgError, errors>>
  BY <1>2 DEF WorkTypes
<1> QED BY <1>1, <1>2

LEMMA ThreadsWork ==
    ASSUME Inv, BackgroundWork
    PROVE  WorkTypes' /\ WorkInv'
<1> USE TriggersAssumption, ThreadSets
<1>0. WorkTypes /\ WorkInv
  BY DEF Inv
<1>1. CASE BackgroundCall
  <2>1. UNCHANGED <<level0, bgError, closing, errors>> /\ scheduled /\ bg = "idle"
    BY <1>1 DEF BackgroundCall
  <2>2. level0 \in Nat /\ bgError \in BOOLEAN
    BY <1>0 DEF WorkTypes
  <2>3. CASE /\ EndBackground(imm # {}, manual, level0, bgError)
             /\ UNCHANGED <<manual, left>>
    <3>1. bg' = "idle" /\ scheduled' \in BOOLEAN /\ (closing # "no" => ~scheduled')
      BY <2>2, <2>3, <1>0, EndBackgroundIs
    <3> QED BY <2>1, <2>3, <3>1, <1>0 DEF WorkTypes, WorkInv
  <2>4. CASE /\ ~Shutdown /\ bg' = "flush" /\ UNCHANGED <<scheduled, pc, manual, left>>
    BY <2>1, <2>4, <1>0 DEF WorkTypes, WorkInv, Shutdown
  <2>5. CASE /\ manual # NoThread /\ left[manual] = 0
             /\ manual' = NoThread /\ left' = [left EXCEPT ![manual] = Passes + 1]
             /\ EndBackground(FALSE, NoThread, level0, FALSE)
    <3>1. bg' = "idle" /\ scheduled' \in BOOLEAN /\ (closing # "no" => ~scheduled')
      BY <2>2, <2>5, <1>0, EndBackgroundIs
    <3>2. left' \in [Compactors -> 0 .. Passes + 1]
      <4>1. Passes + 1 \in 0 .. Passes + 1
        OBVIOUS
      <4> QED BY <4>1, <2>5, <1>0 DEF WorkTypes
    <3> QED BY <2>1, <2>5, <3>1, <3>2, <1>0 DEF WorkTypes, WorkInv
  <2>6. CASE /\ manual # NoThread /\ left[manual] # 0
             /\ ~Shutdown /\ bg' = "manual" /\ UNCHANGED <<scheduled, pc, manual, left>>
    <3>1. left[manual] > 0
      BY <2>6, <1>0 DEF WorkTypes
    <3> QED BY <2>1, <2>6, <3>1, <1>0 DEF WorkTypes, WorkInv, Shutdown
  <2>7. CASE ~Shutdown /\ bg' = "compaction" /\ UNCHANGED <<scheduled, pc, manual, left>>
    BY <2>1, <2>7, <1>0 DEF WorkTypes, WorkInv, Shutdown
  <2> QED BY <1>1, <2>3, <2>4, <2>5, <2>6, <2>7 DEF BackgroundCall
<1>2. CASE FlushDone
  <2>1. UNCHANGED <<manual, left, closing>>
    BY <1>2 DEF FlushDone
  <2>2. level0' \in Nat /\ bgError' \in BOOLEAN /\ (bgError => bgError') /\ errors' \in 0 .. MaxErrors
    <3>1. \/ BackgroundFails /\ level0' = level0
          \/ level0' \in Nat /\ UNCHANGED <<bgError, errors>>
      BY <1>2, <1>0 DEF FlushDone, CompactMemTable, WorkTypes
    <3> QED BY <3>1, <1>0, WorkOutcome
  <2>3. bg' = "idle" /\ scheduled' \in BOOLEAN /\ (closing # "no" => ~scheduled')
    BY <1>2, <2>2, <1>0, EndBackgroundIs DEF FlushDone
  <2> QED BY <2>1, <2>2, <2>3, <1>0 DEF WorkTypes, WorkInv
<1>3. CASE CompactMemTableNested
  <2>1. UNCHANGED <<manual, left, closing, scheduled, bg>>
    BY <1>3 DEF CompactMemTableNested, bgVars
  <2>2. level0' \in Nat /\ bgError' \in BOOLEAN /\ (bgError => bgError') /\ errors' \in 0 .. MaxErrors
    <3>1. \/ BackgroundFails /\ level0' = level0
          \/ level0' \in Nat /\ UNCHANGED <<bgError, errors>>
      BY <1>3, <1>0 DEF CompactMemTableNested, CompactMemTable, WorkTypes
    <3> QED BY <3>1, <1>0, WorkOutcome
  <2> QED BY <2>1, <2>2, <1>0 DEF WorkTypes, WorkInv
<1>4. CASE CompactionDone
  <2>1. UNCHANGED <<manual, left, closing>>
    BY <1>4 DEF CompactionDone
  <2>2. level0' \in Nat /\ bgError' \in BOOLEAN /\ (bgError => bgError') /\ errors' \in 0 .. MaxErrors
    <3>1. \/ BackgroundFails /\ level0' = level0
          \/ level0' \in Nat /\ UNCHANGED <<bgError, errors>>
      BY <1>4, <1>0 DEF CompactionDone, WorkTypes
    <3> QED BY <3>1, <1>0, WorkOutcome
  <2>3. bg' = "idle" /\ scheduled' \in BOOLEAN /\ (closing # "no" => ~scheduled')
    BY <1>4, <2>2, <1>0, EndBackgroundIs DEF CompactionDone
  <2> QED BY <2>1, <2>2, <2>3, <1>0 DEF WorkTypes, WorkInv
<1>5. CASE ManualDone
  <2>1. closing' = closing /\ manual' = NoThread /\ manual # NoThread /\ manual \in Compactors
        /\ bg = "manual"
    BY <1>5, <1>0 DEF ManualDone, WorkTypes
  <2>2. level0' \in Nat /\ bgError' \in BOOLEAN /\ errors' \in 0 .. MaxErrors
    <3>1. \/ BackgroundFails /\ level0' = level0
          \/ level0' \in Nat /\ UNCHANGED <<bgError, errors>>
      BY <1>5, <1>0 DEF ManualDone, WorkTypes
    <3> QED BY <3>1, <1>0, WorkOutcome
  <2>3. bg' = "idle" /\ scheduled' \in BOOLEAN /\ (closing # "no" => ~scheduled')
    BY <1>5, <2>2, <1>0, EndBackgroundIs DEF ManualDone
  <2>4. left' \in [Compactors -> 0 .. Passes + 1]
    <3>1. left[manual] \in 0 .. Passes + 1 /\ left[manual] > 0
      BY <2>1, <1>0 DEF WorkTypes, WorkInv
    <3>2. left[manual] - 1 \in 0 .. Passes + 1 /\ Passes + 1 \in 0 .. Passes + 1
      BY <3>1
    <3>3. left' = [left EXCEPT ![manual] = left[manual] - 1] \/ left' = [left EXCEPT ![manual] = Passes + 1]
      BY <1>5 DEF ManualDone
    <3> QED BY <3>2, <3>3, <1>0 DEF WorkTypes
  <2> QED BY <2>1, <2>2, <2>3, <2>4, <1>0 DEF WorkTypes, WorkInv
<1> QED BY <1>1, <1>2, <1>3, <1>4, <1>5 DEF BackgroundWork

LEMMA CompactorsWork ==
    ASSUME Inv, NEW t \in Compactors, CompactRange(t)
    PROVE  WorkTypes' /\ WorkInv'
<1> USE TriggersAssumption, ThreadSets
<1>0. WorkTypes /\ WorkInv
  BY DEF Inv
<1>1. UNCHANGED <<level0, bg, left, bgError, closing, errors>>
  BY DEF CompactRange
<1>2. CASE left[t] > Passes \/ bgError
  <2>1. manual' = (IF manual = t THEN NoThread ELSE manual) /\ scheduled' = scheduled
    BY <1>2 DEF CompactRange, AfterCancel
  <2>2. manual = t => bgError
    <3>1. ASSUME manual = t PROVE left[t] <= Passes /\ left[t] \in 0 .. Passes + 1
      BY <3>1, <1>0 DEF WorkInv, WorkTypes
    <3> QED BY <3>1, <1>2
  <2> QED BY <2>1, <2>2, <1>0, <1>1 DEF WorkTypes, WorkInv
<1>3. CASE ~(left[t] > Passes \/ bgError)
  <2>1. left[t] <= Passes
    BY <1>3, <1>0 DEF WorkTypes
  <2>2. CASE manual = NoThread
    <3>1. manual' = t /\ scheduled' = Schedules(scheduled, imm # {}, TRUE, level0, bgError)
      BY <1>3, <2>2 DEF CompactRange
    <3>2. scheduled \in BOOLEAN /\ level0 \in Nat /\ bgError \in BOOLEAN
      BY <1>0 DEF WorkTypes
    <3>3. /\ scheduled' \in BOOLEAN /\ (scheduled => scheduled')
          /\ closing # "no" /\ ~scheduled => ~scheduled'
      BY <3>1, <3>2, <1>0, SchedulesIs
    <3>4. bg # "manual"
      BY <1>0, <1>3, <2>2 DEF WorkInv
    <3> QED BY <2>1, <3>1, <3>3, <3>4, <1>0, <1>1 DEF WorkTypes, WorkInv
  <2>3. CASE manual # NoThread
    <3>1. manual' = manual /\ scheduled' = scheduled
      BY <1>3, <2>3 DEF CompactRange
    <3> QED BY <3>1, <1>0, <1>1 DEF WorkTypes, WorkInv
  <2> QED BY <2>2, <2>3
<1> QED BY <1>2, <1>3

\* Everything else leaves it alone; the destructor waits for it.
LEMMA OthersWork ==
    ASSUME Inv,
           \/ \E t \in Threads : SpuriousWakeup(t)
           \/ \E f \in Flushers : AwaitImm(f)
           \/ Destroy
           \/ UNCHANGED vars
    PROVE  WorkTypes' /\ WorkInv'
<1>0. WorkTypes /\ WorkInv
  BY DEF Inv
<1>1. CASE Destroy
  <2>1. UNCHANGED <<level0, scheduled, bg, manual, left, bgError, errors>>
    BY <1>1 DEF Destroy, bgVars
  <2>2. closing' \in {"closed", "waiting"} /\ (closing' = "closed" => ~scheduled)
    BY <1>1 DEF Destroy, MayDestroy
  <2> QED BY <2>1, <2>2, <1>0 DEF WorkTypes, WorkInv
<1>2. CASE UNCHANGED <<level0, scheduled, bg, manual, left, bgError, closing, errors>>
  BY <1>0, <1>2 DEF WorkTypes, WorkInv
<1> QED BY <1>1, <1>2 DEF SpuriousWakeup, AwaitImm, vars, bgVars

\* What is left of a sequence after its first n elements.
LEMMA RestOf ==
    ASSUME NEW S, NEW q \in Seq(S), NEW n \in 0 .. Len(q), NEW s, s = SubSeq(q, n + 1, Len(q))
    PROVE  /\ s \in Seq(S) /\ Len(s) = Len(q) - n
           /\ \A i \in 1 .. Len(s) : s[i] = q[n + i] /\ n + i \in n + 1 .. Len(q)
<1>1. Len(q) \in Nat /\ n + 1 \in 1 .. Len(q) + 1 /\ Len(q) \in (n + 1) - 1 .. Len(q)
  OBVIOUS
<1>2. /\ s \in Seq(S)
      /\ Len(s) = IF n + 1 <= Len(q) THEN Len(q) - (n + 1) + 1 ELSE 0
      /\ \A i \in 1 .. Len(q) - (n + 1) + 1 : s[i] = q[(n + 1) + i - 1]
  BY <1>1, SubSeqProperties
<1>3. Len(s) = Len(q) - n
  BY <1>1, <1>2
<1>4. ASSUME NEW i \in 1 .. Len(s) PROVE s[i] = q[n + i] /\ n + i \in n + 1 .. Len(q)
  <2>1. i \in 1 .. Len(q) - (n + 1) + 1 /\ (n + 1) + i - 1 = n + i
    BY <1>1, <1>3
  <2>2. s[i] = q[n + i]
    BY <2>1, <1>2
  <2> QED BY <2>2, <1>1, <1>3
<1> QED BY <1>2, <1>3, <1>4

-----------------------------------------------------------------------------
(* A thread enters the queue.                                              *)

\* What Write notes of the time of the call.
Noted(w) ==
    /\ before' \in [Flushers -> SUBSET Writers]
    /\ \A f \in Flushers : f # w => before'[f] = before[f]
    /\ \A f \in Flushers : \A x \in before'[f] : pc[x] = "returned"

LEMMA WriteNotes ==
    ASSUME Inv, NEW w, before' = [f \in Flushers |-> IF f = w THEN Returned \ failed ELSE before[f]]
    PROVE  Noted(w)
<1>1. before \in [Flushers -> SUBSET Writers] /\ FlushInv
  BY DEF Inv, ThreadTypes
<1> QED BY <1>1 DEF Noted, Returned, FlushInv

LEMMA JoinKeeps ==
    ASSUME Inv, NEW w \in Queued, pc[w] = "idle", Len(queue) > 0,
           queue' = Append(queue, w), pc' = [pc EXCEPT ![w] = "waiting"], Noted(w),
           UNCHANGED <<sync, group, finished, failed, delay, log, synced, mem, imm>>
    PROVE  /\ ThreadTypes' /\ QueueTypes' /\ LogTypes'
           /\ QueueInv' /\ GroupInv' /\ LogInv' /\ FlushInv'
<1> USE ThreadSets
<1>1. ThreadTypes /\ QueueTypes /\ LogTypes /\ QueueInv /\ GroupInv /\ LogInv /\ FlushInv
  BY DEF Inv
<1>2. pc \in [Threads -> ThreadStates] /\ queue \in Seq(Queued) /\ group \in Seq(Queued)
  BY <1>1 DEF ThreadTypes, QueueTypes
<1>3. /\ pc' \in [Threads -> ThreadStates] /\ pc'[w] = "waiting"
      /\ \A t \in Threads : t # w => pc'[t] = pc[t]
  BY <1>2 DEF ThreadStates
<1>4. /\ queue' \in Seq(Queued) /\ Len(queue') = Len(queue) + 1 /\ queue'[Len(queue) + 1] = w
      /\ \A i \in 1 .. Len(queue) : queue'[i] = queue[i]
  BY <1>2, AppendProperties
<1>5. Len(queue) \in Nat /\ Len(group) \in Nat
  BY <1>2
<1>6. \A i \in 1 .. Len(queue) : queue[i] # w /\ queue[i] \in Queued
  BY <1>1, <1>2 DEF QueueInv, QueueStates, FrontStates
<1>7. w \notin finished
  BY <1>1 DEF QueueInv
<1>8. ThreadTypes' /\ QueueTypes' /\ LogTypes'
  BY <1>1, <1>3, <1>4 DEF ThreadTypes, QueueTypes, LogTypes, Noted
<1>9. QueueInv'
  <2>1. ASSUME NEW i \in 1 .. Len(queue'), NEW j \in 1 .. Len(queue'), queue'[i] = queue'[j]
        PROVE  i = j
    <3>1. i \in 1 .. Len(queue) \/ i = Len(queue) + 1
      BY <1>4, <1>5
    <3>2. j \in 1 .. Len(queue) \/ j = Len(queue) + 1
      BY <1>4, <1>5
    <3> QED BY <2>1, <3>1, <3>2, <1>1, <1>4, <1>6 DEF QueueInv
  <2>2. ASSUME NEW i \in 1 .. Len(queue')
        PROVE  queue'[i] \notin finished /\ pc'[queue'[i]] \in QueueStates(i)
    <3>1. CASE i \in 1 .. Len(queue)
      BY <3>1, <1>1, <1>3, <1>4, <1>6 DEF QueueInv
    <3>2. CASE i = Len(queue) + 1
      BY <3>2, <1>3, <1>4, <1>5, <1>7 DEF QueueStates
    <3> QED BY <3>1, <3>2, <1>4, <1>5
  <2>3. ASSUME NEW t \in Queued, pc'[t] \in FrontStates PROVE t \in finished \/ InQueue(t)'
    <3>1. CASE t = w
      <4>1. Len(queue) + 1 \in 1 .. Len(queue')
        BY <1>4, <1>5
      <4> QED BY <3>1, <4>1, <1>4 DEF InQueue
    <3>2. CASE t # w
      <4>1. t \in finished \/ InQueue(t)
        BY <2>3, <3>2, <1>1, <1>3 DEF QueueInv
      <4>2. ASSUME NEW i \in 1 .. Len(queue), queue[i] = t PROVE InQueue(t)'
        <5>1. i \in 1 .. Len(queue') /\ queue'[i] = t
          BY <4>2, <1>4, <1>5
        <5> QED BY <5>1 DEF InQueue
      <4> QED BY <4>1, <4>2 DEF InQueue
    <3> QED BY <3>1, <3>2
  <2>4. ASSUME NEW t \in finished
        PROVE  pc'[t] \in {"woken", "returned", "awaiting", "checking", "done"}
    BY <1>1, <1>3, <1>7 DEF QueueInv, ThreadTypes
  <2> QED BY <2>1, <2>2, <2>3, <2>4 DEF QueueInv
<1>10. GroupInv'
  <2>1. Len(group) <= Len(queue') /\ \A i \in 1 .. Len(group) : group[i] = queue'[i] /\ Joins(group[1], group[i])
    BY <1>1, <1>4, <1>5 DEF GroupInv
  <2>2. 1 \in 1 .. Len(queue)
    BY <1>5
  <2>3. Len(group) > 0 => pc'[queue'[1]] = "logging"
    BY <2>2, <1>1, <1>3, <1>4, <1>6 DEF GroupInv
  <2>4. ASSUME NEW t \in Queued, pc'[t] = "logging" PROVE Len(group) > 0 /\ t \in Writers
    BY <2>4, <1>1, <1>3 DEF GroupInv
  <2> QED BY <2>1, <2>3, <2>4 DEF GroupInv, Joins
<1>11. \A t \in Writers : (Over(t)' <=> Over(t)) /\ (pc[t] = "returned" => pc'[t] = "returned")
  BY <1>3, <1>7 DEF Over
<1>12. LogInv'
  <2>1. \A i \in 1 .. Len(log) : \A x \in log[i] : x \in Writers
    BY <1>1 DEF LogTypes
  <2> QED BY <2>1, <1>1, <1>11 DEF LogInv
<1>13. FlushInv'
  <2> SUFFICES ASSUME NEW f \in Flushers
               PROVE  /\ \A x \in before'[f] : pc'[x] = "returned"
                      /\ f \notin failed \cup finished =>
                            /\ pc'[f] \in {"returned", "awaiting", "checking", "done"}
                                 => before'[f] \cap mem = {}
                            /\ pc'[f] = "done" => before'[f] \cap UNION imm = {}
    BY DEF FlushInv
  <2>1. before'[f] \subseteq Writers
    BY DEF Noted
  <2>2. \A x \in before'[f] : pc'[x] = "returned"
    BY <2>1, <1>11 DEF Noted
  <2>3. CASE f = w
    BY <2>2, <2>3, <1>3
  <2>4. CASE f # w
    BY <2>2, <2>4, <1>1, <1>3 DEF FlushInv, Noted
  <2> QED BY <2>3, <2>4
<1> QED BY <1>8, <1>9, <1>10, <1>12, <1>13

-----------------------------------------------------------------------------
(* The front of the queue makes room.                                      *)

\* q is the queue with w at its front, which has just entered or resumes.
FrontOf(q, w) ==
    /\ q \in Seq(Queued) /\ Len(q) >= 1 /\ q[1] = w /\ w \in Queued
    /\ \A i, j \in 1 .. Len(q) : q[i] = q[j] => i = j
    /\ \A i \in 2 .. Len(q) : q[i] \notin finished /\ pc[q[i]] \in {"waiting", "woken"}
    /\ w \notin finished /\ pc[w] \in {"idle", "woken", "sleeping"}
    /\ \A t \in Queued : pc[t] \in FrontStates => t \in finished \/ \E i \in 1 .. Len(q) : q[i] = t
    /\ group = <<>>

\* The memtable stays as it is, or becomes imm_.
MemStays == mem' = mem /\ imm' = imm
MemSwitches == imm = {} /\ mem' = {} /\ imm' = {mem}

FrontLeaves(q, w) ==
    /\ queue' = SubSeq(q, 2, Len(q)) /\ group' = <<>> /\ pc'[w] = "returned"
    /\ \/ failed' = failed \cup {w} /\ MemStays
       \/ failed' = failed /\ w \in Flushers /\ MemSwitches
FrontStays(q, w) ==
    /\ queue' = q /\ group' = <<>> /\ pc'[w] \in {"sleeping", "stalled"}
    /\ failed' = failed /\ MemStays
FrontLeads(q, w) ==
    /\ queue' = q /\ w \in Writers /\ pc'[w] = "logging"
    /\ \E n \in 1 .. Len(q) : group' = SubSeq(q, 1, n) /\ \A i \in 1 .. n : Joins(w, q[i])
    /\ failed' = failed
    /\ MemStays \/ MemSwitches

FrontStep(q, w) ==
    /\ FrontOf(q, w) /\ Noted(w)
    /\ UNCHANGED <<sync, finished, log, synced>>
    /\ pc' \in [Threads -> ThreadStates] /\ delay' \in [Queued -> BOOLEAN]
    /\ \A t \in Threads : t # w => pc'[t] = pc[t] \/ (pc[t] = "waiting" /\ pc'[t] = "woken")
    /\ FrontLeaves(q, w) \/ FrontStays(q, w) \/ FrontLeads(q, w)

\* The writer alone leaves: at most the next one is woken.
LEMMA LeaveAlone ==
    ASSUME Inv, NEW q, NEW w, FrontOf(q, w), NEW ok \in BOOLEAN, Leave(q, 1, pc, ok)
    PROVE  /\ queue' = SubSeq(q, 2, Len(q)) /\ finished' = finished
           /\ failed' = IF ok THEN failed ELSE failed \cup {w}
           /\ pc' \in [Threads -> ThreadStates] /\ pc'[w] = "returned"
           /\ \A t \in Threads : t # w => pc'[t] = pc[t] \/ (pc[t] = "waiting" /\ pc'[t] = "woken")
<1> USE ThreadSets
<1>1. pc \in [Threads -> ThreadStates]
  BY DEF Inv, ThreadTypes
<1>2. w \in Queued /\ w \in Threads /\ q[1] = w /\ Len(q) \in Nat /\ Len(q) >= 1
  BY DEF FrontOf
<1>3. {q[i] : i \in 1 .. 1} = {w}
  BY <1>2
<1>4. queue' = SubSeq(q, 2, Len(q)) /\ finished' = finished
      /\ failed' = IF ok THEN failed ELSE failed \cup {w}
  <2>1. queue' = SubSeq(q, 1 + 1, Len(q)) /\ 1 + 1 = 2
    BY DEF Leave
  <2>2. finished' = finished \cup ({q[i] : i \in 1 .. 1} \ {q[1]})
    BY DEF Leave
  <2>3. failed' = IF ok THEN failed ELSE failed \cup {q[i] : i \in 1 .. 1}
    BY DEF Leave
  <2>4. finished' = finished
    BY <2>2, <1>2, <1>3
  <2>5. failed' = IF ok THEN failed ELSE failed \cup {w}
    BY <2>3, <1>3
  <2> QED BY <2>1, <2>4, <2>5
<1> DEFINE S == Signalled(q, 1) \ {q[1]}
<1>5. pc' = [Woken(pc, S) EXCEPT ![w] = "returned"]
  BY <1>2 DEF Leave
<1>6. Woken(pc, S) \in [Threads -> ThreadStates]
      /\ \A t \in Threads : Woken(pc, S)[t] = IF t \in S THEN Wake(pc[t]) ELSE pc[t]
  BY <1>1, WokenIs
<1>7. \A t \in S : pc[t] \in {"waiting", "woken"}
  <2> SUFFICES ASSUME NEW t \in S PROVE pc[t] \in {"waiting", "woken"}
    OBVIOUS
  <2>1. PICK i \in 1 .. (IF 1 < Len(q) THEN 1 + 1 ELSE 1) : t = q[i]
    BY DEF Signalled
  <2>2. i = 2 /\ 2 \in 2 .. Len(q)
    BY <2>1, <1>2
  <2> QED BY <2>1, <2>2 DEF FrontOf
<1> HIDE DEF S
<1>8. "returned" \in ThreadStates
  BY DEF ThreadStates
<1>9. pc' \in [Threads -> ThreadStates] /\ pc'[w] = "returned"
  BY <1>2, <1>5, <1>6, <1>8
<1>10. ASSUME NEW t \in Threads, t # w
       PROVE  pc'[t] = pc[t] \/ (pc[t] = "waiting" /\ pc'[t] = "woken")
  <2>1. pc'[t] = IF t \in S THEN Wake(pc[t]) ELSE pc[t]
    BY <1>5, <1>6, <1>10
  <2> QED BY <2>1, <1>7 DEF Wake
<1> QED BY <1>4, <1>9, <1>10

LEMMA RoomIsFrontStep ==
    ASSUME Inv, NEW q, NEW w, FrontOf(q, w), MakeRoomForWrite(q), Noted(w),
           UNCHANGED <<sync, log, synced>>
    PROVE  FrontStep(q, w)
<1> USE ThreadSets
<1>1. /\ pc \in [Threads -> ThreadStates] /\ delay \in [Queued -> BOOLEAN]
      /\ w \in Queued /\ w \in Threads /\ q[1] = w /\ group = <<>>
  BY DEF Inv, ThreadTypes, FrontOf
<1>2. delay' \in [Queued -> BOOLEAN]
  <2>1. delay' = delay \/ delay' = [delay EXCEPT ![q[1]] = FALSE]
    BY DEF MakeRoomForWrite
  <2> QED BY <2>1, <1>1
<1>3. ASSUME Leave(q, 1, pc, FALSE), UNCHANGED <<group, mem, imm>> PROVE FrontStep(q, w)
  <2>1. /\ queue' = SubSeq(q, 2, Len(q)) /\ finished' = finished /\ failed' = failed \cup {w}
        /\ pc' \in [Threads -> ThreadStates] /\ pc'[w] = "returned"
        /\ \A t \in Threads : t # w => pc'[t] = pc[t] \/ (pc[t] = "waiting" /\ pc'[t] = "woken")
    BY <1>3, LeaveAlone
  <2>2. FrontLeaves(q, w)
    BY <2>1, <1>1, <1>3 DEF FrontLeaves, MemStays
  <2> QED BY <2>1, <2>2, <1>2 DEF FrontStep
<1>4. ASSUME NEW where \in {"sleeping", "stalled"}, Wait(q, where), UNCHANGED <<mem, imm>>
      PROVE  FrontStep(q, w)
  <2>1. /\ queue' = q /\ pc' = [pc EXCEPT ![w] = where]
        /\ UNCHANGED <<group, finished, failed>>
    BY <1>1, <1>4 DEF Wait
  <2>2. where \in ThreadStates
    BY DEF ThreadStates
  <2>3. /\ pc' \in [Threads -> ThreadStates] /\ pc'[w] = where
        /\ \A t \in Threads : t # w => pc'[t] = pc[t]
    BY <2>1, <2>2, <1>1
  <2>4. FrontStays(q, w)
    BY <2>1, <2>3, <1>1, <1>4 DEF FrontStays, MemStays
  <2> QED BY <2>1, <2>3, <2>4, <1>2 DEF FrontStep
<1>5. ASSUME Proceed(q), w \in Flushers => MemSwitches, MemStays \/ MemSwitches
      PROVE  FrontStep(q, w)
  <2>1. CASE w \in Flushers
    <3>1. Leave(q, 1, pc, TRUE) /\ group' = group
      BY <2>1, <1>1, <1>5 DEF Proceed
    <3>2. /\ queue' = SubSeq(q, 2, Len(q)) /\ finished' = finished /\ failed' = failed
          /\ pc' \in [Threads -> ThreadStates] /\ pc'[w] = "returned"
          /\ \A t \in Threads : t # w => pc'[t] = pc[t] \/ (pc[t] = "waiting" /\ pc'[t] = "woken")
      BY <3>1, LeaveAlone
    <3>3. FrontLeaves(q, w)
      BY <2>1, <3>1, <3>2, <1>1, <1>5 DEF FrontLeaves
    <3> QED BY <3>2, <3>3, <1>2 DEF FrontStep
  <2>2. CASE w \notin Flushers
    <3>1. /\ \E n \in GroupSizes(q) : group' = SubSeq(q, 1, n)
          /\ queue' = q /\ pc' = [pc EXCEPT ![w] = "logging"]
          /\ UNCHANGED <<finished, failed>>
      BY <2>2, <1>1, <1>5 DEF Proceed
    <3>2. /\ pc' \in [Threads -> ThreadStates] /\ pc'[w] = "logging"
          /\ \A t \in Threads : t # w => pc'[t] = pc[t]
      BY <3>1, <1>1 DEF ThreadStates
    <3>3. \E n \in 1 .. Len(q) : group' = SubSeq(q, 1, n) /\ \A i \in 1 .. n : Joins(w, q[i])
      BY <3>1, <1>1 DEF GroupSizes
    <3>4. FrontLeads(q, w)
      BY <2>2, <3>1, <3>2, <3>3, <1>1, <1>5 DEF FrontLeads
    <3> QED BY <3>1, <3>2, <3>4, <1>2 DEF FrontStep
  <2> QED BY <2>1, <2>2
<1>6. CASE Leave(q, 1, pc, FALSE) /\ UNCHANGED <<group, mem, imm>>
  BY <1>3, <1>6
<1>7. CASE Wait(q, "sleeping") /\ UNCHANGED <<mem, imm>>
  BY <1>4, <1>7
<1>8. CASE Wait(q, "stalled") /\ UNCHANGED <<mem, imm>>
  BY <1>4, <1>8
<1>9. CASE w \in Writers /\ Proceed(q) /\ UNCHANGED <<mem, imm>>
  BY <1>5, <1>9 DEF MemStays
<1>10. CASE ~MustStall /\ mem' = {} /\ imm' = imm \cup {mem} /\ Proceed(q)
  <2>1. MemSwitches
    BY <1>10 DEF MemSwitches, MustStall
  <2> QED BY <2>1, <1>5, <1>10
<1> QED BY <1>1, <1>6, <1>7, <1>8, <1>9, <1>10 DEF MakeRoomForWrite

LEMMA FrontStepTypes ==
    ASSUME Inv, NEW q, NEW w, FrontStep(q, w)
    PROVE  ThreadTypes' /\ QueueTypes' /\ LogTypes'
<1>1. ThreadTypes /\ LogTypes /\ w \in Queued /\ q \in Seq(Queued) /\ Len(q) >= 1
  BY DEF Inv, FrontStep, FrontOf
<1>2. failed' \subseteq Queued
  <2>1. failed' = failed \/ failed' = failed \cup {w}
    BY DEF FrontStep, FrontLeaves, FrontStays, FrontLeads
  <2> QED BY <2>1, <1>1 DEF ThreadTypes
<1>3. ThreadTypes'
  BY <1>1, <1>2 DEF ThreadTypes, FrontStep, Noted
<1>4. queue' \in Seq(Queued)
  <2>1. queue' = q \/ queue' = SubSeq(q, 2, Len(q))
    BY DEF FrontStep, FrontLeaves, FrontStays, FrontLeads
  <2>2. SubSeq(q, 2, Len(q)) \in Seq(Queued)
    BY <1>1, SubSeqProperties
  <2> QED BY <2>1, <2>2, <1>1
<1>5. group' \in Seq(Queued)
  <2>1. group' = <<>> \/ \E n \in 1 .. Len(q) : group' = SubSeq(q, 1, n)
    BY DEF FrontStep, FrontLeaves, FrontStays, FrontLeads
  <2>2. ASSUME NEW n \in 1 .. Len(q) PROVE SubSeq(q, 1, n) \in Seq(Queued)
    BY <1>1, SubSeqProperties
  <2>3. <<>> \in Seq(Queued)
    OBVIOUS
  <2>4. CASE group' = <<>>
    BY <2>3, <2>4
  <2>5. CASE \E n \in 1 .. Len(q) : group' = SubSeq(q, 1, n)
    BY <2>2, <2>5
  <2> QED BY <2>1, <2>4, <2>5
<1>6. MemStays \/ MemSwitches
  BY DEF FrontStep, FrontLeaves, FrontStays, FrontLeads
<1>7. LogTypes'
  <2>1. log' = log /\ synced' = synced
    BY DEF FrontStep
  <2>2. CASE MemStays
    BY <2>1, <2>2, <1>1 DEF MemStays, LogTypes
  <2>3. CASE MemSwitches
    <3>1. mem \subseteq Writers
      BY <1>1 DEF LogTypes
    <3>2. mem' \subseteq Writers /\ imm' \subseteq SUBSET Writers /\ \E m : imm' = {m}
      BY <3>1, <2>3 DEF MemSwitches
    <3> QED BY <2>1, <3>2, <1>1 DEF LogTypes
  <2> QED BY <1>6, <2>2, <2>3
<1> QED BY <1>3, <1>4, <1>5, <1>7 DEF QueueTypes

LEMMA FrontStepQueue ==
    ASSUME Inv, NEW q, NEW w, FrontStep(q, w)
    PROVE  QueueInv' /\ GroupInv'
<1> USE ThreadSets
<1>1. FrontOf(q, w) /\ ThreadTypes /\ QueueInv /\ finished' = finished /\ sync' = sync
  BY DEF Inv, FrontStep
<1>2. /\ q \in Seq(Queued) /\ Len(q) \in Nat /\ Len(q) >= 1 /\ q[1] = w /\ w \in Queued
      /\ w \in Threads /\ w \notin finished
  BY <1>1 DEF FrontOf
<1>3. \A t \in Threads : t # w => pc'[t] = pc[t] \/ (pc[t] = "waiting" /\ pc'[t] = "woken")
  BY DEF FrontStep
<1>4. \A i \in 2 .. Len(q) : q[i] \in Queued /\ q[i] # w /\ q[i] \notin finished
                            /\ pc'[q[i]] \in {"waiting", "woken"}
  <2> SUFFICES ASSUME NEW i \in 2 .. Len(q)
               PROVE  q[i] \in Queued /\ q[i] # w /\ q[i] \notin finished
                      /\ pc'[q[i]] \in {"waiting", "woken"}
    OBVIOUS
  <2>1. i \in 1 .. Len(q) /\ 1 \in 1 .. Len(q) /\ i # 1
    BY <1>2
  <2>2. q[i] \in Queued /\ q[i] # w
    BY <2>1, <1>1, <1>2 DEF FrontOf
  <2> QED BY <2>2, <1>1, <1>3 DEF FrontOf
<1>5. ASSUME NEW t \in Queued, t # w, pc'[t] \in FrontStates
      PROVE  t \in finished \/ \E i \in 2 .. Len(q) : q[i] = t
  <2>1. pc[t] \in FrontStates
    BY <1>3, <1>5 DEF FrontStates
  <2>2. t \in finished \/ \E i \in 1 .. Len(q) : q[i] = t
    BY <2>1, <1>1 DEF FrontOf
  <2>3. \A i \in 1 .. Len(q) : i = 1 \/ i \in 2 .. Len(q)
    BY <1>2
  <2> QED BY <2>2, <2>3, <1>2, <1>5
<1>6. ASSUME NEW t \in finished
      PROVE  pc'[t] \in {"woken", "returned", "awaiting", "checking", "done"}
  <2>1. t \in Threads /\ t # w
    BY <1>1, <1>2 DEF ThreadTypes
  <2>2. pc[t] \in {"woken", "returned", "awaiting", "checking", "done"}
    BY <1>1 DEF QueueInv
  <2> QED BY <2>1, <2>2, <1>3
<1>7. ASSUME NEW t \in Queued, t # w PROVE pc'[t] # "logging"
  <2>1. ASSUME pc'[t] = "logging" PROVE FALSE
    <3>1. t \in finished \/ \E i \in 2 .. Len(q) : q[i] = t
      BY <1>5, <1>7, <2>1 DEF FrontStates
    <3> QED BY <3>1, <2>1, <1>4, <1>6
  <2> QED BY <2>1
<1>8. CASE FrontLeaves(q, w)
  <2>1. queue' = SubSeq(q, 2, Len(q)) /\ group' = <<>> /\ pc'[w] = "returned"
    BY <1>8 DEF FrontLeaves
  <2>2. /\ Len(queue') = Len(q) - 1 /\ Len(queue') \in Nat
        /\ \A i \in 1 .. Len(queue') : queue'[i] = q[i + 1] /\ i + 1 \in 2 .. Len(q)
    <3>1. PICK n \in 0 .. Len(q) : n = 1
      BY <1>2
    <3>2. PICK s : s = queue'
      OBVIOUS
    <3>3. s = SubSeq(q, n + 1, Len(q))
      BY <2>1, <3>1, <3>2
    <3>4. /\ Len(s) = Len(q) - n
          /\ \A i \in 1 .. Len(s) : s[i] = q[n + i] /\ n + i \in n + 1 .. Len(q)
      BY <3>3, <1>2, RestOf
    <3>5. ASSUME NEW i \in 1 .. Len(queue') PROVE queue'[i] = q[i + 1] /\ i + 1 \in 2 .. Len(q)
      <4>1. n + i = i + 1 /\ n + 1 = 2
        BY <3>1, <3>2, <3>4, <1>2
      <4> QED BY <4>1, <3>1, <3>2, <3>4, <3>5
    <3> QED BY <3>1, <3>2, <3>4, <3>5, <1>2
  <2>3. ASSUME NEW i \in 1 .. Len(queue'), NEW j \in 1 .. Len(queue'), queue'[i] = queue'[j]
        PROVE  i = j
    <3>1. q[i + 1] = q[j + 1] /\ i + 1 \in 1 .. Len(q) /\ j + 1 \in 1 .. Len(q)
      BY <2>2, <2>3, <1>2
    <3>2. i + 1 = j + 1
      BY <3>1, <1>1 DEF FrontOf
    <3> QED BY <3>2
  <2>4. ASSUME NEW i \in 1 .. Len(queue')
        PROVE  queue'[i] \notin finished /\ pc'[queue'[i]] \in QueueStates(i)
    <3>1. queue'[i] = q[i + 1] /\ i + 1 \in 2 .. Len(q)
      BY <2>2
    <3>2. q[i + 1] \notin finished /\ pc'[q[i + 1]] \in {"waiting", "woken"}
      BY <3>1, <1>4
    <3> QED BY <3>1, <3>2 DEF QueueStates, FrontStates
  <2>5. ASSUME NEW t \in Queued, pc'[t] \in FrontStates PROVE t \in finished \/ InQueue(t)'
    <3>1. t # w
      BY <2>1, <2>5 DEF FrontStates
    <3>2. ASSUME NEW i \in 2 .. Len(q), q[i] = t PROVE InQueue(t)'
      <4>1. i - 1 \in 1 .. Len(queue') /\ (i - 1) + 1 = i
        BY <2>2, <1>2
      <4>2. queue'[i - 1] = t
        BY <4>1, <2>2, <3>2
      <4> QED BY <4>1, <4>2 DEF InQueue
    <3> QED BY <2>5, <3>1, <3>2, <1>5
  <2>6. QueueInv'
    BY <2>3, <2>4, <2>5, <1>1, <1>6 DEF QueueInv
  <2>7. GroupInv'
    <3>1. Len(group') = 0
      BY <2>1
    <3>2. \A t \in Queued : pc'[t] # "logging"
      BY <2>1, <1>7
    <3> QED BY <3>1, <3>2, <2>2 DEF GroupInv
  <2> QED BY <2>6, <2>7
<1>9. CASE FrontStays(q, w) \/ FrontLeads(q, w)
  <2>1. queue' = q /\ pc'[w] \in {"sleeping", "stalled", "logging"}
    BY <1>9 DEF FrontStays, FrontLeads
  <2>2. ASSUME NEW i \in 1 .. Len(q)
        PROVE  q[i] \notin finished /\ pc'[q[i]] \in QueueStates(i)
    <3>1. CASE i = 1
      BY <3>1, <2>1, <1>2 DEF QueueStates, FrontStates
    <3>2. CASE i # 1
      <4>1. i \in 2 .. Len(q)
        BY <3>2, <1>2
      <4> QED BY <3>2, <4>1, <1>4 DEF QueueStates
    <3> QED BY <3>1, <3>2
  <2>3. ASSUME NEW t \in Queued, pc'[t] \in FrontStates PROVE t \in finished \/ InQueue(t)'
    <3>1. CASE t = w
      <4>1. 1 \in 1 .. Len(queue') /\ queue'[1] = t
        BY <2>1, <3>1, <1>2
      <4> QED BY <4>1 DEF InQueue
    <3>2. CASE t # w
      <4>1. t \in finished \/ \E i \in 2 .. Len(q) : q[i] = t
        BY <3>2, <2>3, <1>5
      <4>2. \A i \in 2 .. Len(q) : i \in 1 .. Len(q)
        BY <1>2
      <4> QED BY <4>1, <4>2, <2>1 DEF InQueue
    <3> QED BY <3>1, <3>2
  <2>4. QueueInv'
    <3>1. \A i, j \in 1 .. Len(q) : q[i] = q[j] => i = j
      BY <1>1 DEF FrontOf
    <3> QED BY <3>1, <2>1, <2>2, <2>3, <1>1, <1>6 DEF QueueInv
  <2>5. GroupInv'
    <3>1. CASE FrontStays(q, w)
      <4>1. Len(group') = 0 /\ pc'[w] # "logging"
        BY <3>1 DEF FrontStays
      <4>2. \A t \in Queued : pc'[t] # "logging"
        BY <4>1, <1>7
      <4> QED BY <4>1, <4>2, <2>1, <1>2 DEF GroupInv
    <3>2. CASE FrontLeads(q, w)
      <4>1. PICK n \in 1 .. Len(q) : group' = SubSeq(q, 1, n) /\ \A i \in 1 .. n : Joins(w, q[i])
        BY <3>2 DEF FrontLeads
      <4>2. w \in Writers /\ pc'[w] = "logging"
        BY <3>2 DEF FrontLeads
      <4>3. 1 \in 1 .. Len(q) + 1 /\ n \in (1 - 1) .. Len(q) /\ n - 1 + 1 = n
        BY <1>2
      <4>4. Len(group') = n /\ \A i \in 1 .. n : group'[i] = q[i]
        <5>1. /\ Len(SubSeq(q, 1, n)) = n - 1 + 1
              /\ \A i \in 1 .. n - 1 + 1 : SubSeq(q, 1, n)[i] = q[1 + i - 1]
          BY <4>3, <1>2, SubSeqProperties
        <5>2. \A i \in 1 .. n : 1 + i - 1 = i
          OBVIOUS
        <5> QED BY <4>1, <4>3, <5>1, <5>2
      <4>5. 1 \in 1 .. n /\ group'[1] = w
        BY <4>4, <1>2
      <4>6. \A i \in 1 .. Len(group') : group'[i] = queue'[i] /\ Joins(group'[1], group'[i])
        BY <4>1, <4>4, <4>5, <2>1
      <4>7. \A x, y : Joins(x, y)' <=> Joins(x, y)
        BY <1>1 DEF Joins
      <4>8. \A t \in Queued : pc'[t] = "logging" => Len(group') > 0 /\ t \in Writers
        BY <4>2, <4>4, <1>7
      <4>9. \A i \in 1 .. Len(group') : Joins(group[1], group[i])'
        BY <4>6, <1>1 DEF Joins
      <4>10. Len(group') <= Len(queue') /\ pc'[queue'[1]] = "logging"
        BY <4>2, <4>4, <2>1, <1>2
      <4> QED BY <4>6, <4>8, <4>9, <4>10 DEF GroupInv
    <3> QED BY <1>9, <3>1, <3>2
  <2> QED BY <2>4, <2>5
<1> QED BY <1>8, <1>9 DEF FrontStep

LEMMA FrontStepLog ==
    ASSUME Inv, NEW q, NEW w, FrontStep(q, w)
    PROVE  LogInv' /\ FlushInv'
<1> USE ThreadSets
<1>1. FrontOf(q, w) /\ ThreadTypes /\ LogTypes /\ LogInv /\ FlushInv
  BY DEF Inv, FrontStep
<1>2. w \in Queued /\ w \notin finished /\ pc[w] # "returned"
  BY <1>1 DEF FrontOf
<1>3. \A t \in Threads : t # w => pc'[t] = pc[t] \/ (pc[t] = "waiting" /\ pc'[t] = "woken")
  BY DEF FrontStep
<1>4. finished' = finished /\ sync' = sync /\ log' = log /\ synced' = synced
  BY DEF FrontStep
<1>5. failed' = failed \/ failed' = failed \cup {w}
  BY DEF FrontStep, FrontLeaves, FrontStays, FrontLeads
<1>6. \A t \in Writers : t # w => (Over(t)' <=> Over(t)) /\ (t \in failed' <=> t \in failed)
  BY <1>3, <1>4, <1>5 DEF Over
<1>7. w \in Writers => ~Over(w) /\ (Over(w)' => w \in failed')
  <2>1. w \in Writers => (pc'[w] = "returned" => w \in failed')
    BY DEF FrontStep, FrontLeaves, FrontStays, FrontLeads
  <2> QED BY <2>1, <1>2, <1>4 DEF Over
<1>8. LogInv'
  <2>1. ASSUME NEW i \in 1 .. Len(log), NEW x \in log[i] PROVE Over(x)'
    <3>1. x \in Writers /\ Over(x)
      BY <1>1 DEF LogInv, LogTypes
    <3> QED BY <3>1, <1>6, <1>7
  <2>2. ASSUME NEW x \in Writers, Over(x)', x \notin failed'
        PROVE  \E i \in 1 .. Len(log) : x \in log[i] /\ (sync[x] => i <= synced)
    BY <2>2, <1>1, <1>6, <1>7 DEF LogInv
  <2> QED BY <2>1, <2>2, <1>1, <1>4 DEF LogInv
<1>9. FlushInv'
  <2> SUFFICES ASSUME NEW f \in Flushers
               PROVE  /\ \A x \in before'[f] : pc'[x] = "returned"
                      /\ f \notin failed' \cup finished =>
                            /\ pc'[f] \in {"returned", "awaiting", "checking", "done"}
                                 => before'[f] \cap mem' = {}
                            /\ pc'[f] = "done" => before'[f] \cap UNION imm' = {}
    BY <1>4 DEF FlushInv
  <2>1. before'[f] \subseteq Writers /\ Noted(w)
    BY DEF Noted, FrontStep
  <2>2. \A x \in before'[f] : pc'[x] = "returned"
    BY <2>1, <1>2, <1>3 DEF Noted
  <2>3. CASE f = w
    <3>1. pc'[w] # "done" /\ (pc'[w] \in {"returned", "awaiting", "checking"} => w \in failed' \/ mem' = {})
      BY DEF FrontStep, FrontLeaves, FrontStays, FrontLeads, MemSwitches
    <3> QED BY <2>2, <2>3, <3>1
  <2>4. CASE f # w
    <3>1. before'[f] = before[f] /\ (f \in failed' <=> f \in failed)
      BY <2>1, <2>4, <1>5 DEF Noted
    <3>2. pc'[f] \in {"returned", "awaiting", "checking", "done"} => pc'[f] = pc[f]
      BY <2>4, <1>3
    <3>3. MemStays \/ MemSwitches
      BY DEF FrontStep, FrontLeaves, FrontStays, FrontLeads
    <3>4. ASSUME f \notin failed', f \notin finished,
                 pc'[f] \in {"returned", "awaiting", "checking", "done"}
          PROVE  before'[f] \cap mem' = {} /\ (pc'[f] = "done" => before'[f] \cap UNION imm' = {})
      <4>1. before[f] \cap mem = {} /\ (pc[f] = "done" => before[f] \cap UNION imm = {})
        BY <3>1, <3>2, <3>4, <1>1 DEF FlushInv
      <4>2. CASE MemStays
        BY <4>1, <4>2, <3>1, <3>2, <3>4 DEF MemStays
      <4>3. CASE MemSwitches
        <5>1. UNION imm' = mem /\ mem' = {}
          BY <4>3 DEF MemSwitches
        <5> QED BY <4>1, <5>1, <3>1
      <4> QED BY <3>3, <4>2, <4>3
    <3> QED BY <2>2, <3>4
  <2> QED BY <2>3, <2>4
<1> QED BY <1>8, <1>9

-----------------------------------------------------------------------------
(* A group has been logged.                                                *)

Members == {queue[i] : i \in 1 .. Len(group)}

\* The group leaves: those it wrote for are told so.
LEMMA LeaveGroup ==
    ASSUME Inv, NEW w \in Queued, pc[w] = "logging", NEW p \in [Threads -> ThreadStates],
           \A t \in Threads : p[t] = pc[t] \/ p[t] = Wake(pc[t]),
           NEW ok \in BOOLEAN, Leave(queue, Len(group), p, ok)
    PROVE  /\ w = queue[1] /\ w \in Writers /\ w \in Members /\ Len(group) \in 1 .. Len(queue)
           /\ queue' = SubSeq(queue, Len(group) + 1, Len(queue))
           /\ finished' = finished \cup (Members \ {w})
           /\ failed' = IF ok THEN failed ELSE failed \cup Members
           /\ pc' \in [Threads -> ThreadStates] /\ pc'[w] = "returned"
           /\ \A t \in Members : t # w => pc'[t] = "woken"
           /\ \A t \in Threads : t # w => pc'[t] = pc[t] \/ pc'[t] = Wake(pc[t])
<1> USE ThreadSets
<1>1. QueueTypes /\ QueueInv /\ GroupInv /\ pc \in [Threads -> ThreadStates]
  BY DEF Inv, ThreadTypes
<1>2. Len(group) \in 1 .. Len(queue) /\ w \in Writers
  BY <1>1 DEF GroupInv, QueueTypes
<1>3. w = queue[1]
  <2>1. w \notin finished
    BY <1>1 DEF QueueInv
  <2>2. PICK i \in 1 .. Len(queue) : queue[i] = w
    BY <2>1, <1>1 DEF QueueInv, InQueue, FrontStates
  <2>3. i = 1
    BY <2>2, <1>1 DEF QueueInv, QueueStates
  <2> QED BY <2>2, <2>3
<1>4. w \in Members
  <2>1. 1 \in 1 .. Len(group)
    BY <1>2
  <2> QED BY <2>1, <1>3 DEF Members
<1>5. /\ queue' = SubSeq(queue, Len(group) + 1, Len(queue))
      /\ finished' = finished \cup (Members \ {w})
      /\ failed' = IF ok THEN failed ELSE failed \cup Members
  BY <1>3 DEF Leave, Members
<1> DEFINE S == Signalled(queue, Len(group)) \ {queue[1]}
<1>6. pc' = [Woken(p, S) EXCEPT ![w] = "returned"]
  BY <1>3 DEF Leave
<1>7. Members \ {w} \subseteq S
  <2> SUFFICES ASSUME NEW t \in Members, t # w PROVE t \in S
    OBVIOUS
  <2>1. PICK i \in 1 .. Len(group) : t = queue[i]
    BY DEF Members
  <2>2. i \in 1 .. (IF Len(group) < Len(queue) THEN Len(group) + 1 ELSE Len(group))
    BY <1>2
  <2> QED BY <2>1, <2>2, <1>3 DEF Signalled
<1> HIDE DEF S
<1>8. /\ Woken(p, S) \in [Threads -> ThreadStates]
      /\ \A t \in Threads : Woken(p, S)[t] = IF t \in S THEN Wake(p[t]) ELSE p[t]
  BY WokenIs
<1>9. pc' \in [Threads -> ThreadStates] /\ pc'[w] = "returned"
  BY <1>6, <1>8 DEF ThreadStates
<1>10. \A t \in Threads : t # w => pc'[t] = IF t \in S THEN Wake(p[t]) ELSE p[t]
  BY <1>6, <1>8
<1>11. ASSUME NEW t \in Threads, t # w PROVE pc'[t] = pc[t] \/ pc'[t] = Wake(pc[t])
  <2>1. \A x : Wake(Wake(x)) = Wake(x)
    BY DEF Wake
  <2> QED BY <2>1, <1>10, <1>11
<1>12. ASSUME NEW t \in Members, t # w PROVE pc'[t] = "woken"
  <2>1. PICK i \in 1 .. Len(group) : t = queue[i]
    BY DEF Members
  <2>2. i \in 1 .. Len(queue) /\ i # 1
    BY <2>1, <1>2, <1>3, <1>12
  <2>3. pc[t] \in {"waiting", "woken"} /\ t \in Queued
    BY <2>1, <2>2, <1>1 DEF QueueInv, QueueStates, QueueTypes
  <2>4. p[t] \in {"waiting", "woken"}
    BY <2>3 DEF Wake
  <2>5. pc'[t] = Wake(p[t])
    BY <2>3, <1>7, <1>10, <1>12
  <2> QED BY <2>4, <2>5 DEF Wake
<1> QED BY <1>2, <1>3, <1>4, <1>5, <1>9, <1>11, <1>12

\* What the log and the memtable have of the group.
GroupLogged(w) ==
    LET batches == Members \cap Writers
    IN  \/ /\ failed' = failed /\ log' = Append(log, batches)
           /\ synced' = IF sync[w] THEN Len(log') ELSE synced
           /\ mem' = mem \cup batches
        \/ /\ failed' = failed \cup Members
           /\ log' = log \/ log' = Append(log, batches)
           /\ synced' = synced /\ mem' = mem

FinishStep(w) ==
    /\ w = queue[1] /\ w \in Writers /\ w \in Members /\ Len(group) \in 1 .. Len(queue)
    /\ queue' = SubSeq(queue, Len(group) + 1, Len(queue))
    /\ finished' = finished \cup (Members \ {w})
    /\ pc' \in [Threads -> ThreadStates] /\ pc'[w] = "returned"
    /\ \A t \in Members : t # w => pc'[t] = "woken"
    /\ \A t \in Threads : t # w => pc'[t] = pc[t] \/ pc'[t] = Wake(pc[t])
    /\ GroupLogged(w)
    /\ group' = <<>> /\ UNCHANGED <<sync, delay, imm, before>>

LEMMA FinishMoves ==
    ASSUME Inv, NEW w \in Queued, FinishWrite(w)
    PROVE  FinishStep(w)
<1> USE ThreadSets
<1> DEFINE batches == ToSet(group) \cap Writers
<1>1. /\ pc[w] = "logging" /\ group' = <<>> /\ UNCHANGED <<sync, delay, imm, before>>
  BY DEF FinishWrite
<1>2. pc \in [Threads -> ThreadStates] /\ QueueTypes /\ GroupInv
  BY DEF Inv, ThreadTypes
<1>3. batches = Members \cap Writers
  <2>1. DOMAIN group = 1 .. Len(group)
    BY <1>2 DEF QueueTypes
  <2>2. ToSet(group) = Members
    BY <2>1, <1>2 DEF ToSet, Members, GroupInv
  <2> QED BY <2>2
<1>4. CASE /\ log' = Append(log, batches) /\ synced' = IF sync[w] THEN Len(log') ELSE synced
           /\ mem' = mem \cup batches /\ Leave(queue, Len(group), pc, TRUE)
  <2>1. /\ w = queue[1] /\ w \in Writers /\ w \in Members /\ Len(group) \in 1 .. Len(queue)
        /\ queue' = SubSeq(queue, Len(group) + 1, Len(queue))
        /\ finished' = finished \cup (Members \ {w})
        /\ failed' = failed
        /\ pc' \in [Threads -> ThreadStates] /\ pc'[w] = "returned"
        /\ \A t \in Members : t # w => pc'[t] = "woken"
        /\ \A t \in Threads : t # w => pc'[t] = pc[t] \/ pc'[t] = Wake(pc[t])
    BY <1>1, <1>2, <1>4, LeaveGroup
  <2>2. GroupLogged(w)
    BY <2>1, <1>3, <1>4 DEF GroupLogged
  <2> QED BY <2>1, <2>2, <1>1 DEF FinishStep
<1>5. ASSUME NEW p \in [Threads -> ThreadStates],
             \A t \in Threads : p[t] = pc[t] \/ p[t] = Wake(pc[t]),
             Leave(queue, Len(group), p, FALSE), UNCHANGED <<synced, mem>>,
             log' = log \/ log' = Append(log, batches)
      PROVE  FinishStep(w)
  <2>1. /\ w = queue[1] /\ w \in Writers /\ w \in Members /\ Len(group) \in 1 .. Len(queue)
        /\ queue' = SubSeq(queue, Len(group) + 1, Len(queue))
        /\ finished' = finished \cup (Members \ {w})
        /\ failed' = failed \cup Members
        /\ pc' \in [Threads -> ThreadStates] /\ pc'[w] = "returned"
        /\ \A t \in Members : t # w => pc'[t] = "woken"
        /\ \A t \in Threads : t # w => pc'[t] = pc[t] \/ pc'[t] = Wake(pc[t])
    BY <1>1, <1>2, <1>5, LeaveGroup
  <2>2. GroupLogged(w)
    BY <2>1, <1>3, <1>5 DEF GroupLogged
  <2> QED BY <2>1, <2>2, <1>1 DEF FinishStep
<1>6. CASE log' = log /\ Leave(queue, Len(group), pc, FALSE) /\ UNCHANGED <<synced, mem>>
  BY <1>2, <1>5, <1>6
<1>7. CASE /\ log' = Append(log, batches) /\ UNCHANGED <<synced, mem>>
           /\ Leave(queue, Len(group), Woken(pc, BackgroundWaiters), FALSE)
  <2>1. PICK p : p = Woken(pc, BackgroundWaiters)
    OBVIOUS
  <2>2. p \in [Threads -> ThreadStates] /\ \A t \in Threads : p[t] = pc[t] \/ p[t] = Wake(pc[t])
    BY <2>1, <1>2, WokenIs
  <2>3. Leave(queue, Len(group), p, FALSE)
    BY <2>1, <1>7
  <2> QED BY <2>2, <2>3, <1>5, <1>7
<1> QED BY <1>4, <1>6, <1>7 DEF FinishWrite

\* Where the members of the group stand before it leaves.
LEMMA MembersStand ==
    ASSUME Inv, NEW w, FinishStep(w)
    PROVE  /\ Members \subseteq Queued
           /\ \A t \in Members : t \notin finished /\ pc[t] # "returned"
           /\ w \in Writers /\ w \in Threads /\ w \notin finished /\ w \in Members
           /\ \A i \in Len(group) + 1 .. Len(queue) :
                 /\ queue[i] \in Queued /\ queue[i] # w /\ queue[i] \notin Members
                 /\ queue[i] \notin finished /\ pc[queue[i]] \in {"waiting", "woken"}
<1> USE ThreadSets
<1>1. QueueTypes /\ QueueInv /\ GroupInv
  BY DEF Inv
<1>2. /\ w = queue[1] /\ w \in Writers /\ w \in Members /\ Len(group) \in 1 .. Len(queue)
      /\ Len(queue) \in Nat
  BY <1>1 DEF FinishStep, QueueTypes
<1>3. ASSUME NEW t \in Members PROVE t \in Queued /\ t \notin finished /\ pc[t] # "returned"
  <2>1. PICK i \in 1 .. Len(group) : t = queue[i]
    BY DEF Members
  <2>2. i \in 1 .. Len(queue)
    BY <1>2
  <2>3. t \in Queued
    BY <2>1, <2>2, <1>1 DEF QueueTypes
  <2> QED BY <2>1, <2>2, <2>3, <1>1 DEF QueueInv, QueueStates, FrontStates
<1>4. ASSUME NEW i \in Len(group) + 1 .. Len(queue)
      PROVE  /\ queue[i] \in Queued /\ queue[i] # w /\ queue[i] \notin Members
             /\ queue[i] \notin finished /\ pc[queue[i]] \in {"waiting", "woken"}
  <2>1. i \in 1 .. Len(queue) /\ i # 1
    BY <1>2
  <2>2. queue[i] \in Queued
    BY <2>1, <1>1 DEF QueueTypes
  <2>3. queue[i] \notin Members
    <3>1. ASSUME NEW j \in 1 .. Len(group), queue[i] = queue[j] PROVE FALSE
      <4>1. j \in 1 .. Len(queue) /\ i # j
        BY <1>2
      <4> QED BY <4>1, <2>1, <3>1, <1>1 DEF QueueInv
    <3> QED BY <3>1 DEF Members
  <2>4. queue[i] # w
    BY <2>3, <1>2
  <2>5. queue[i] \notin finished /\ pc[queue[i]] \in {"waiting", "woken"}
    BY <2>1, <1>1 DEF QueueInv, QueueStates
  <2> QED BY <2>2, <2>3, <2>4, <2>5
<1> QED BY <1>2, <1>3, <1>4

LEMMA FinishTypes ==
    ASSUME Inv, NEW w, FinishStep(w)
    PROVE  ThreadTypes' /\ QueueTypes' /\ LogTypes'
<1> USE ThreadSets
<1>1. ThreadTypes /\ QueueTypes /\ LogTypes /\ Members \subseteq Queued
  BY MembersStand DEF Inv
<1>2. ThreadTypes'
  BY <1>1 DEF ThreadTypes, FinishStep, GroupLogged
<1>3. QueueTypes'
  <2>1. queue \in Seq(Queued) /\ Len(group) \in 0 .. Len(queue)
    BY <1>1 DEF QueueTypes, FinishStep
  <2>2. queue' \in Seq(Queued)
    BY <2>1, RestOf DEF FinishStep
  <2>3. group' \in Seq(Queued)
    BY DEF FinishStep
  <2> QED BY <2>2, <2>3 DEF QueueTypes
<1>4. LogTypes'
  <2>1. PICK batches \in SUBSET Writers : batches = Members \cap Writers
    OBVIOUS
  <2>2. log \in Seq(SUBSET Writers) /\ synced \in 0 .. Len(log) /\ Len(log) \in Nat
    BY <1>1 DEF LogTypes
  <2>3. Append(log, batches) \in Seq(SUBSET Writers) /\ Len(Append(log, batches)) = Len(log) + 1
    BY <2>2, AppendProperties
  <2>4. CASE log' = Append(log, batches)
    <3>1. log' \in Seq(SUBSET Writers) /\ Len(log') = Len(log) + 1
      BY <2>3, <2>4
    <3>2. synced' = synced \/ synced' = Len(log')
      BY DEF FinishStep, GroupLogged
    <3>3. synced' \in 0 .. Len(log')
      BY <3>1, <3>2, <2>2
    <3> QED BY <3>1, <3>3, <1>1, <2>1 DEF LogTypes, FinishStep, GroupLogged
  <2>5. CASE log' = log /\ synced' = synced /\ mem' = mem
    BY <2>5, <1>1 DEF LogTypes, FinishStep
  <2> QED BY <2>1, <2>4, <2>5 DEF FinishStep, GroupLogged
<1> QED BY <1>2, <1>3, <1>4

LEMMA FinishQueue ==
    ASSUME Inv, NEW w, FinishStep(w)
    PROVE  QueueInv' /\ GroupInv'
<1> USE ThreadSets
<1>1. QueueTypes /\ QueueInv /\ GroupInv /\ ThreadTypes
  BY DEF Inv
<1>2. PICK n \in 1 .. Len(queue) : n = Len(group)
  BY DEF FinishStep
<1>3. Len(queue) \in Nat /\ n \in 0 .. Len(queue) /\ queue \in Seq(Queued)
  BY <1>1, <1>2 DEF QueueTypes
<1>4. /\ Members \subseteq Queued
      /\ \A t \in Members : t \notin finished /\ pc[t] # "returned"
      /\ w \in Writers /\ w \in Threads /\ w \notin finished /\ w \in Members
      /\ \A i \in n + 1 .. Len(queue) :
            /\ queue[i] \in Queued /\ queue[i] # w /\ queue[i] \notin Members
            /\ queue[i] \notin finished /\ pc[queue[i]] \in {"waiting", "woken"}
  BY <1>2, MembersStand
<1>5. PICK q : q = queue'
  OBVIOUS
<1>6. /\ q \in Seq(Queued) /\ Len(q) = Len(queue) - n
      /\ \A i \in 1 .. Len(q) : q[i] = queue[n + i] /\ n + i \in n + 1 .. Len(queue)
  <2>1. q = SubSeq(queue, n + 1, Len(queue))
    BY <1>2, <1>5 DEF FinishStep
  <2> QED BY <2>1, <1>3, RestOf
<1>7. /\ finished' = finished \cup (Members \ {w}) /\ pc'[w] = "returned" /\ group' = <<>>
      /\ \A t \in Members : t # w => pc'[t] = "woken"
      /\ \A t \in Threads : t # w => pc'[t] = pc[t] \/ pc'[t] = Wake(pc[t])
  BY DEF FinishStep
<1>8. ASSUME NEW i \in 1 .. Len(q), NEW j \in 1 .. Len(q), q[i] = q[j] PROVE i = j
  <2>1. queue[n + i] = queue[n + j] /\ n + i \in n + 1 .. Len(queue) /\ n + j \in n + 1 .. Len(queue)
    BY <1>6, <1>8
  <2>2. n + i \in 1 .. Len(queue) /\ n + j \in 1 .. Len(queue)
    BY <2>1, <1>3
  <2>3. n + i = n + j
    BY <2>1, <2>2, <1>1 DEF QueueInv
  <2> QED BY <2>3, <1>3
<1>9. ASSUME NEW i \in 1 .. Len(q) PROVE q[i] \notin finished' /\ pc'[q[i]] \in QueueStates(i)
  <2>1. PICK t : t = q[i]
    OBVIOUS
  <2>2. t = queue[n + i] /\ n + i \in n + 1 .. Len(queue)
    BY <2>1, <1>6
  <2>3. t \in Queued /\ t # w /\ t \notin Members /\ t \notin finished /\ pc[t] \in {"waiting", "woken"}
    BY <2>2, <1>4
  <2>4. pc'[t] \in {"waiting", "woken"}
    BY <2>3, <1>7 DEF Wake
  <2> QED BY <2>1, <2>3, <2>4, <1>7 DEF QueueStates, FrontStates
<1>10. ASSUME NEW t \in Queued, pc'[t] \in FrontStates, t \notin Members
       PROVE  t \in finished \/ \E i \in n + 1 .. Len(queue) : queue[i] = t
  <2>1. t # w /\ t \in Threads
    BY <1>4, <1>10
  <2>2. pc[t] \in FrontStates
    BY <2>1, <1>7, <1>10 DEF Wake, FrontStates
  <2>3. t \in finished \/ \E i \in 1 .. Len(queue) : queue[i] = t
    BY <2>2, <1>1 DEF QueueInv, InQueue
  <2>4. ASSUME NEW i \in 1 .. Len(queue), queue[i] = t PROVE i \in n + 1 .. Len(queue)
    <3>1. ~(i \in 1 .. Len(group))
      BY <2>4, <1>10 DEF Members
    <3> QED BY <3>1, <1>2, <1>3
  <2> QED BY <2>3, <2>4
<1>11. ASSUME NEW t \in Queued, pc'[t] \in FrontStates PROVE t \in finished' \/ InQueue(t)'
  <2>1. t # w
    BY <1>7, <1>11 DEF FrontStates
  <2>2. CASE t \in Members
    BY <2>1, <2>2, <1>7
  <2>3. CASE t \notin Members
    <3>1. CASE t \in finished
      BY <3>1, <1>7
    <3>2. ASSUME NEW i \in n + 1 .. Len(queue), queue[i] = t PROVE InQueue(t)'
      <4>1. i - n \in 1 .. Len(q) /\ n + (i - n) = i
        BY <1>3, <1>6
      <4>2. q[i - n] = t
        BY <4>1, <3>2, <1>6
      <4> QED BY <4>1, <4>2, <1>5 DEF InQueue
    <3> QED BY <2>3, <3>1, <3>2, <1>10, <1>11
  <2> QED BY <2>2, <2>3
<1>12. ASSUME NEW t \in finished'
       PROVE  pc'[t] \in {"woken", "returned", "awaiting", "checking", "done"}
  <2>1. CASE t \in Members \ {w}
    BY <2>1, <1>7
  <2>2. CASE t \in finished
    <3>1. t # w /\ t \in Threads
      BY <2>2, <1>1, <1>4 DEF ThreadTypes
    <3>2. pc[t] \in {"woken", "returned", "awaiting", "checking", "done"}
      BY <2>2, <1>1 DEF QueueInv
    <3> QED BY <3>1, <3>2, <1>7 DEF Wake
  <2> QED BY <2>1, <2>2, <1>7
<1>13. QueueInv'
  BY <1>5, <1>8, <1>9, <1>11, <1>12 DEF QueueInv
<1>14. ASSUME NEW t \in Queued PROVE pc'[t] # "logging"
  <2>1. ASSUME pc'[t] = "logging" PROVE FALSE
    <3>1. t \notin Members
      BY <2>1, <1>7
    <3>2. t # w /\ t \in Threads /\ (t \in finished \/ \E i \in n + 1 .. Len(queue) : queue[i] = t)
      BY <2>1, <3>1, <1>4, <1>10 DEF FrontStates
    <3>3. CASE t \in finished
      BY <3>3, <2>1, <1>7, <1>12
    <3>4. ASSUME NEW i \in n + 1 .. Len(queue), queue[i] = t PROVE FALSE
      <4>1. pc[t] \in {"waiting", "woken"} /\ t # w
        BY <3>4, <1>4
      <4> QED BY <4>1, <2>1, <1>7 DEF Wake
    <3> QED BY <3>2, <3>3, <3>4
  <2> QED BY <2>1
<1>15. GroupInv'
  <2>1. Len(group') = 0
    BY <1>7
  <2> QED BY <2>1, <1>5, <1>6, <1>14, <1>3 DEF GroupInv
<1> QED BY <1>13, <1>15

LEMMA FinishLog ==
    ASSUME Inv, NEW w, FinishStep(w)
    PROVE  LogInv'
<1> USE ThreadSets
<1>1. LogTypes /\ LogInv /\ GroupInv /\ QueueTypes
  BY DEF Inv
<1>2. /\ \A t \in Members : t \notin finished /\ pc[t] # "returned"
      /\ w \in Writers /\ w \in Members
  BY MembersStand
<1>3. /\ finished' = finished \cup (Members \ {w}) /\ pc'[w] = "returned" /\ sync' = sync
      /\ \A t \in Members : t # w => pc'[t] = "woken"
      /\ \A t \in Threads : t # w => pc'[t] = pc[t] \/ pc'[t] = Wake(pc[t])
  BY DEF FinishStep
<1>4. PICK batches \in SUBSET Writers : batches = Members \cap Writers
  OBVIOUS
<1>5. \A x \in Writers : (Over(x)' <=> Over(x) \/ x \in Members)
  <2> SUFFICES ASSUME NEW x \in Writers PROVE Over(x)' <=> Over(x) \/ x \in Members
    OBVIOUS
  <2>1. CASE x = w
    BY <2>1, <1>2, <1>3 DEF Over
  <2>2. CASE x # w
    <3>1. pc'[x] = "returned" <=> pc[x] = "returned"
      BY <2>2, <1>3 DEF Wake
    <3> QED BY <2>2, <3>1, <1>3 DEF Over
  <2> QED BY <2>1, <2>2
<1>6. \A x \in Members : ~Over(x)
  BY <1>2 DEF Over
<1>7. \A x \in batches : sync[x] => sync[w]
  <2> SUFFICES ASSUME NEW x \in batches, sync[x] PROVE sync[w]
    OBVIOUS
  <2>1. PICK i \in 1 .. Len(group) : x = queue[i]
    BY <1>4 DEF Members
  <2>2. group[i] = x /\ group[1] = w
    <3>1. 1 \in 1 .. Len(group)
      BY DEF FinishStep
    <3> QED BY <2>1, <3>1, <1>1 DEF GroupInv, FinishStep
  <2> QED BY <2>2, <1>1, <1>4 DEF GroupInv, Joins
<1>8. /\ log \in Seq(SUBSET Writers) /\ synced \in 0 .. Len(log) /\ Len(log) \in Nat
      /\ \A i \in 1 .. Len(log) : \A x \in log[i] : x \in Writers /\ Over(x)
  BY <1>1 DEF LogTypes, LogInv
<1>9. CASE log' = log /\ failed' = failed \cup Members /\ synced' = synced
  <2>1. ASSUME NEW x \in Writers, Over(x)', x \notin failed'
        PROVE  \E i \in 1 .. Len(log) : x \in log[i] /\ (sync[x] => i <= synced)
    BY <2>1, <1>1, <1>5, <1>9 DEF LogInv
  <2>2. \A i \in 1 .. Len(log) : \A x \in log[i] : Over(x)'
    BY <1>5, <1>8
  <2> QED BY <2>1, <2>2, <1>1, <1>3, <1>9 DEF LogInv
<1>10. CASE log' = Append(log, batches)
  <2>1. PICK k : k = Len(log) + 1
    OBVIOUS
  <2>2. /\ Len(log') = k /\ log'[k] = batches /\ k \in 1 .. k /\ k \in Nat
        /\ \A i \in 1 .. Len(log) : log'[i] = log[i] /\ i \in 1 .. k
    BY <2>1, <1>8, <1>10, AppendProperties
  <2>3. \A i \in 1 .. k : i = k \/ i \in 1 .. Len(log)
    BY <2>1, <1>8
  <2>4. \A i \in 1 .. Len(log) : \A x \in batches : x \notin log[i]
    BY <1>4, <1>6, <1>8
  <2>5. ASSUME NEW i \in 1 .. k, NEW j \in 1 .. k, NEW x \in log'[i] \cap log'[j] PROVE i = j
    <3>1. CASE i \in 1 .. Len(log) /\ j \in 1 .. Len(log)
      BY <3>1, <2>2, <2>5, <1>1 DEF LogInv
    <3>2. CASE i = k /\ j \in 1 .. Len(log)
      BY <3>2, <2>2, <2>4, <2>5
    <3>3. CASE j = k /\ i \in 1 .. Len(log)
      BY <3>3, <2>2, <2>4, <2>5
    <3>4. CASE i = k /\ j = k
      BY <3>4
    <3> QED BY <3>1, <3>2, <3>3, <3>4, <2>3
  <2>6. ASSUME NEW i \in 1 .. k, NEW x \in log'[i] PROVE Over(x)'
    <3>1. CASE i = k
      BY <3>1, <2>2, <1>4, <1>5
    <3>2. CASE i \in 1 .. Len(log)
      BY <3>2, <2>2, <1>5, <1>8
    <3> QED BY <3>1, <3>2, <2>3
  <2>7. synced' = synced \/ synced' = k
    BY <2>2 DEF FinishStep, GroupLogged
  <2>8. ASSUME NEW x \in Writers, Over(x)', x \notin failed'
        PROVE  \E i \in 1 .. k : x \in log'[i] /\ (sync[x] => i <= synced')
    <3>1. x \notin failed
      BY <2>8 DEF FinishStep, GroupLogged
    <3>2. CASE Over(x)
      <4>1. PICK i \in 1 .. Len(log) : x \in log[i] /\ (sync[x] => i <= synced)
        BY <3>1, <3>2, <1>1 DEF LogInv
      <4>2. i \in 1 .. k /\ x \in log'[i]
        BY <4>1, <2>2
      <4>3. sync[x] => i <= synced'
        BY <4>1, <4>2, <2>1, <2>7, <1>8
      <4> QED BY <4>2, <4>3
    <3>3. CASE x \in Members
      <4>1. x \in batches
        BY <3>3, <1>4
      <4>2. synced' = IF sync[w] THEN k ELSE synced
        BY <2>2, <2>8, <3>3 DEF FinishStep, GroupLogged
      <4>3. sync[x] => k <= synced'
        BY <4>1, <4>2, <1>7, <2>2
      <4> QED BY <4>1, <4>3, <2>2
    <3> QED BY <2>8, <3>2, <3>3, <1>5
  <2> QED BY <2>2, <2>5, <2>6, <2>8, <1>3 DEF LogInv
<1> QED BY <1>4, <1>9, <1>10 DEF FinishStep, GroupLogged

LEMMA FinishFlush ==
    ASSUME Inv, NEW w, FinishStep(w)
    PROVE  FlushInv'
<1> USE ThreadSets
<1>1. FlushInv /\ ThreadTypes
  BY DEF Inv
<1>2. /\ \A t \in Members : t \notin finished /\ pc[t] # "returned"
      /\ w \in Writers /\ w \in Members
  BY MembersStand
<1>3. /\ finished' = finished \cup (Members \ {w}) /\ pc'[w] = "returned"
      /\ \A t \in Threads : t # w => pc'[t] = pc[t] \/ pc'[t] = Wake(pc[t])
      /\ imm' = imm /\ before' = before
  BY DEF FinishStep
<1>4. failed \subseteq failed' /\ mem' \subseteq mem \cup Members
  BY DEF FinishStep, GroupLogged
<1> SUFFICES ASSUME NEW f \in Flushers
             PROVE  /\ \A x \in before[f] : pc'[x] = "returned"
                    /\ f \notin failed' \cup finished' =>
                          /\ pc'[f] \in {"returned", "awaiting", "checking", "done"}
                               => before[f] \cap mem' = {}
                          /\ pc'[f] = "done" => before[f] \cap UNION imm = {}
  BY <1>3 DEF FlushInv
<1>5. before[f] \subseteq Writers /\ \A x \in before[f] : pc[x] = "returned"
  BY <1>1 DEF ThreadTypes, FlushInv
<1>6. \A x \in before[f] : pc'[x] = "returned"
  BY <1>3, <1>5 DEF Wake
<1>7. before[f] \cap Members = {}
  BY <1>2, <1>5
<1>8. ASSUME f \notin failed', f \notin finished'
      PROVE  /\ pc'[f] \in {"returned", "awaiting", "checking", "done"} => before[f] \cap mem' = {}
             /\ pc'[f] = "done" => before[f] \cap UNION imm = {}
  <2>1. f # w /\ f \in Threads /\ f \notin failed /\ f \notin finished
    BY <1>2, <1>3, <1>4, <1>8
  <2>2. /\ pc'[f] \in {"returned", "awaiting", "checking", "done"}
             => pc[f] \in {"returned", "awaiting", "checking", "done"}
        /\ pc'[f] = "done" => pc[f] = "done"
    BY <2>1, <1>3 DEF Wake
  <2>3. /\ pc[f] \in {"returned", "awaiting", "checking", "done"} => before[f] \cap mem = {}
        /\ pc[f] = "done" => before[f] \cap UNION imm = {}
    BY <2>1, <1>1 DEF FlushInv
  <2> QED BY <2>2, <2>3, <1>4, <1>7
<1> QED BY <1>6, <1>8

-----------------------------------------------------------------------------
(* The invariant holds at first and is kept by every step.                 *)

LEMMA InitInv == Init => Inv
<1> SUFFICES ASSUME Init PROVE Inv
  OBVIOUS
<1> USE ThreadSets, TriggersAssumption
<1>1. ThreadTypes
  <2>1. "idle" \in ThreadStates
    BY DEF ThreadStates
  <2> QED BY <2>1 DEF Init, ThreadTypes
<1>2. QueueTypes
  BY DEF Init, QueueTypes
<1>3. LogTypes
  BY DEF Init, LogTypes
<1>4. WorkTypes /\ WorkInv
  <2>1. left \in [Compactors -> 0 .. Passes + 1]
    BY DEF Init
  <2>2. level0 \in Nat /\ scheduled \in BOOLEAN
    BY DEF Init, NeedsCompaction
  <2>3. errors \in 0 .. MaxErrors
    BY DEF Init
  <2>4. /\ bg = "idle" /\ manual = NoThread /\ bgError = FALSE /\ closing = "no"
    BY DEF Init
  <2> QED BY <2>1, <2>2, <2>3, <2>4 DEF WorkTypes, WorkInv
<1>5. Len(queue) = 0 /\ Len(group) = 0 /\ Len(log) = 0 /\ finished = {}
  BY DEF Init
<1>6. \A t \in Threads : pc[t] = "idle"
  BY DEF Init
<1>7. QueueInv /\ GroupInv
  BY <1>5, <1>6 DEF QueueInv, GroupInv, FrontStates
<1>8. LogInv
  <2>1. \A w \in Writers : ~Over(w)
    BY <1>5, <1>6 DEF Over
  <2> QED BY <2>1, <1>5 DEF LogInv
<1>9. FlushInv
  <2>1. ASSUME NEW f \in Flushers PROVE before[f] = {} /\ pc[f] = "idle"
    BY <1>6 DEF Init
  <2> QED BY <2>1 DEF FlushInv
<1> QED BY <1>1, <1>2, <1>3, <1>4, <1>7, <1>8, <1>9 DEF Inv

\* A step that leaves the queue alone keeps the invariant with its own work.
LEMMA CalmKeeps ==
    ASSUME Inv, CalmStep, WorkTypes' /\ WorkInv'
    PROVE  Inv'
BY CalmKeepsTypes, CalmKeepsQueue, CalmKeepsLog DEF Inv

\* MakeRoomForWrite by the front of the queue.
LEMMA RoomKeeps ==
    ASSUME Inv, NEW q, NEW w, FrontOf(q, w), MakeRoomForWrite(q), Noted(w),
           UNCHANGED <<sync, log, synced>>, WorkTypes' /\ WorkInv'
    PROVE  Inv'
<1>1. FrontStep(q, w)
  BY RoomIsFrontStep
<1> QED BY <1>1, FrontStepTypes, FrontStepQueue, FrontStepLog DEF Inv

LEMMA WriteKeeps ==
    ASSUME Inv, NEW w \in Queued, Write(w)
    PROVE  Inv'
<1> USE ThreadSets
<1>1. WorkTypes' /\ WorkInv'
  BY WritersWork
<1>2. Noted(w)
  BY WriteNotes DEF Write
<1>3. pc[w] = "idle" /\ UNCHANGED <<sync, log, synced>>
  BY DEF Write
<1>4. QueueTypes /\ QueueInv /\ GroupInv /\ ThreadTypes
  BY DEF Inv
<1>5. CASE queue = <<>>
  <2>1. Len(queue) = 0 /\ Len(group) = 0 /\ group = <<>>
    <3>1. Len(queue) = 0
      BY <1>5
    <3>2. Len(group) \in Nat /\ Len(group) <= Len(queue)
      BY <1>4 DEF QueueTypes, GroupInv
    <3> QED BY <3>1, <3>2, <1>4, EmptySeq DEF QueueTypes
  <2>2. PICK q : q = <<w>>
    OBVIOUS
  <2>3. q \in Seq(Queued) /\ Len(q) = 1 /\ q[1] = w
    BY <2>2
  <2>4. \A t \in Queued : pc[t] \in FrontStates => t \in finished
    BY <2>1, <1>4 DEF QueueInv, InQueue
  <2>5. w \notin finished
    BY <1>3, <1>4 DEF QueueInv
  <2>6. FrontOf(q, w)
    BY <2>1, <2>3, <2>4, <2>5, <1>3 DEF FrontOf
  <2>7. MakeRoomForWrite(q)
    BY <2>2, <1>5 DEF Write
  <2> QED BY <2>6, <2>7, <1>1, <1>2, <1>3, RoomKeeps
<1>6. CASE queue # <<>>
  <2>1. Len(queue) > 0
    BY <1>4, <1>6, EmptySeq, LenProperties DEF QueueTypes
  <2>2. /\ queue' = Append(queue, w) /\ pc' = [pc EXCEPT ![w] = "waiting"]
        /\ UNCHANGED <<sync, group, finished, failed, delay, log, synced, mem, imm>>
    BY <1>6 DEF Write
  <2> QED BY <2>1, <2>2, <1>1, <1>2, <1>3, JoinKeeps DEF Inv
<1> QED BY <1>5, <1>6

LEMMA ResumeKeeps ==
    ASSUME Inv, NEW w \in Queued, Resume(w)
    PROVE  Inv'
<1> USE ThreadSets
<1>1. WorkTypes' /\ WorkInv'
  BY WritersWork
<1>2. CASE w \in finished \/ queue[1] # w
  BY <1>1, <1>2, ResumeIsCalm, CalmKeeps
<1>3. CASE w \notin finished /\ queue[1] = w
  <2>1. pc[w] \in {"woken", "sleeping"} /\ UNCHANGED <<sync, log, synced>> /\ before' = before
    BY DEF Resume
  <2>2. MakeRoomForWrite(queue)
    BY <1>3 DEF Resume
  <2>3. QueueTypes /\ QueueInv /\ GroupInv /\ ThreadTypes /\ FlushInv
    BY DEF Inv
  <2>4. Noted(w)
    BY <2>1, <2>3 DEF Noted, ThreadTypes, FlushInv
  <2>5. InQueue(w) /\ Len(queue) \in Nat /\ Len(group) \in Nat
    BY <2>1, <2>3, <1>3 DEF QueueInv, FrontStates, QueueTypes
  <2>6. Len(queue) >= 1
    BY <2>5 DEF InQueue
  <2>7. group = <<>>
    <3>1. ~(Len(group) > 0)
      BY <2>1, <2>3, <1>3 DEF GroupInv
    <3> QED BY <3>1, <2>5, <2>3, EmptySeq DEF QueueTypes
  <2>8. ASSUME NEW i \in 2 .. Len(queue)
        PROVE  queue[i] \notin finished /\ pc[queue[i]] \in {"waiting", "woken"}
    <3>1. i \in 1 .. Len(queue) /\ i # 1
      BY <2>5
    <3> QED BY <3>1, <2>3 DEF QueueInv, QueueStates
  <2>9. FrontOf(queue, w)
    BY <2>1, <2>3, <2>6, <2>7, <2>8, <1>3 DEF FrontOf, QueueTypes, QueueInv, InQueue
  <2> QED BY <2>1, <2>2, <2>4, <2>9, <1>1, RoomKeeps
<1> QED BY <1>2, <1>3

LEMMA FinishKeeps ==
    ASSUME Inv, NEW w \in Queued, FinishWrite(w)
    PROVE  Inv'
<1>1. WorkTypes' /\ WorkInv'
  BY WritersWork
<1>2. FinishStep(w)
  BY FinishMoves
<1> QED BY <1>1, <1>2, FinishTypes, FinishQueue, FinishLog, FinishFlush DEF Inv

LEMMA NextInv == Inv /\ [Next]_vars => Inv'
<1> SUFFICES ASSUME Inv, [Next]_vars PROVE Inv'
  OBVIOUS
<1> USE ThreadSets
<1>1. ASSUME NEW t \in Threads, Step(t) PROVE Inv'
  <2>1. CASE t \in Queued /\ (Write(t) \/ Resume(t) \/ FinishWrite(t))
    BY <2>1, WriteKeeps, ResumeKeeps, FinishKeeps
  <2>2. CASE t \in Flushers /\ AwaitImm(t)
    BY <2>2, AwaitIsCalm, OthersWork, CalmKeeps
  <2>3. CASE t \in Compactors /\ CompactRange(t)
    BY <2>3, CompactRangeIsCalm, CompactorsWork, CalmKeeps
  <2> QED BY <1>1, <2>1, <2>2, <2>3 DEF Step
<1>2. ASSUME NEW t \in Threads, SpuriousWakeup(t) PROVE Inv'
  BY <1>2, SpuriousIsCalm, OthersWork, CalmKeeps
<1>3. CASE BackgroundWork
  BY <1>3, BackgroundIsCalm, ThreadsWork, CalmKeeps
<1>4. CASE Destroy \/ UNCHANGED vars
  BY <1>4, DestroyIsCalm, OthersWork, CalmKeeps
<1> QED BY <1>1, <1>2, <1>3, <1>4 DEF Next, Terminated

\* The inductive invariant of the threads of DBImpl holds in every reachable
\* state, for any number of writers, flushers and compactors.
THEOREM InvHolds == Spec => []Inv
BY InitInv, NextInv, PTL DEF Spec

-----------------------------------------------------------------------------
(* What the invariant says of the properties.                              *)

\* A set with no two different elements has at most one.
LEMMA AtMostOne ==
    ASSUME NEW S, \A x, y \in S : x = y
    PROVE  Cardinality(S) <= 1
<1>1. CASE S = {}
  BY <1>1, FS_EmptySet
<1>2. CASE S # {}
  <2>1. PICK x : x \in S
    BY <1>2
  <2>2. S = {x}
    BY <2>1
  <2> QED BY <2>2, FS_Singleton
<1> QED BY <1>1, <1>2

LEMMA InvTypes == Inv => TypeOK
<1> SUFFICES ASSUME Inv PROVE TypeOK
  OBVIOUS
<1> USE ThreadSets
<1>1. ThreadTypes /\ QueueTypes /\ LogTypes /\ WorkTypes /\ QueueInv /\ GroupInv
  BY DEF Inv
<1>2. Cardinality(imm) <= 1
  BY <1>1, AtMostOne DEF LogTypes
<1>3. IsPrefix(group, queue)
  <2>1. Len(group) \in Nat /\ Len(queue) \in Nat /\ Len(group) <= Len(queue)
    BY <1>1 DEF QueueTypes, GroupInv
  <2>2. PICK n : n = Len(group)
    OBVIOUS
  <2>3. SubSeq(queue, 1, n) \in Seq(Queued) /\ Len(SubSeq(queue, 1, n)) = n
        /\ \A i \in 1 .. n : SubSeq(queue, 1, n)[i] = queue[i]
    BY <2>1, <2>2, <1>1, SubSeqProperties DEF QueueTypes
  <2>4. \A i \in 1 .. n : group[i] = queue[i]
    BY <2>2, <1>1 DEF GroupInv
  <2>5. group = SubSeq(queue, 1, n)
    BY <2>2, <2>3, <2>4, <1>1, SeqEqual DEF QueueTypes
  <2> QED BY <2>1, <2>2, <2>5 DEF IsPrefix
<1>4. ASSUME NEW t \in Queued, pc[t] \in {"sleeping", "stalled", "logging"}
      PROVE  queue[1] = t
  <2>1. t \notin finished
    BY <1>4, <1>1 DEF QueueInv
  <2>2. PICK i \in 1 .. Len(queue) : queue[i] = t
    BY <2>1, <1>4, <1>1 DEF QueueInv, FrontStates, InQueue
  <2>3. i = 1
    BY <2>2, <1>4, <1>1 DEF QueueInv, QueueStates
  <2> QED BY <2>2, <2>3
<1> QED BY <1>1, <1>2, <1>3, <1>4 DEF TypeOK, ThreadTypes, QueueTypes, LogTypes, WorkTypes

LEMMA InvBackground == Inv => BackgroundConsistent
<1> SUFFICES ASSUME Inv PROVE BackgroundConsistent
  OBVIOUS
<1>1. ManualNotNull
  BY DEF Inv, WorkInv, ManualNotNull, Crashing
<1>2. NothingAfterDestroy
  BY DEF Inv, WorkInv, WorkTypes, NothingAfterDestroy
<1> QED BY <1>1, <1>2, InvTypes DEF BackgroundConsistent

LEMMA InvLogged == Inv => WritesLogged
<1> SUFFICES ASSUME Inv PROVE WritesLogged
  OBVIOUS
<1>1. LogInv /\ LogTypes
  BY DEF Inv
<1>2. DOMAIN log = 1 .. Len(log) /\ Len(log) \in Nat /\ synced \in 0 .. Len(log)
  BY <1>1 DEF LogTypes
<1>3. ASSUME NEW w \in Writers, pc[w] = "returned", w \notin failed
      PROVE  \E i \in 1 .. Len(log) : w \in log[i] /\ (sync[w] => i <= synced)
  BY <1>1, <1>3 DEF LogInv, Over
<1>4. SyncedWhenReturned
  <2> SUFFICES ASSUME NEW w \in Writers, pc[w] = "returned", w \notin failed, sync[w]
               PROVE  \E i \in 1 .. synced : w \in log[i]
    BY DEF SyncedWhenReturned
  <2>1. PICK i \in 1 .. Len(log) : w \in log[i] /\ i <= synced
    BY <1>3
  <2>2. i \in 1 .. synced
    BY <2>1, <1>2
  <2> QED BY <2>1, <2>2
<1>5. LoggedOnce
  <2> SUFFICES ASSUME NEW w \in Writers
               PROVE  LET copies == {i \in DOMAIN log : w \in log[i]}
                      IN  /\ Cardinality(copies) <= 1
                          /\ (pc[w] = "returned" /\ w \notin failed) => copies # {}
    BY DEF LoggedOnce
  <2> DEFINE copies == {i \in DOMAIN log : w \in log[i]}
  <2>1. \A i, j \in copies : i = j
    BY <1>1, <1>2 DEF LogInv
  <2>2. (pc[w] = "returned" /\ w \notin failed) => copies # {}
    BY <1>2, <1>3
  <2>3. Cardinality(copies) <= 1
    BY <2>1, AtMostOne
  <2> QED BY <2>2, <2>3
<1> QED BY <1>4, <1>5 DEF WritesLogged

LEMMA InvCompacted == Inv => MemTableCompacted
BY DEF Inv, FlushInv, MemTableCompacted

\* The background thread and those who wait for it agree: only the front of the
\* queue works, BackgroundCompaction finds manual_compaction_ null only behind
\* an error, and the destructor leaves no background work behind.
THEOREM BackgroundStaysConsistent == Spec => []BackgroundConsistent
BY InvHolds, InvBackground, PTL

\* Write: a batch is logged at most once whoever leads its group, and a write
\* that returned without an error is in the log, in its synced part when it
\* asked for sync.
THEOREM WritesStayLogged == Spec => []WritesLogged
BY InvHolds, InvLogged, PTL

\* TEST_CompactMemTable: when it returns without an error and made room itself,
\* nothing written before the call is left in mem_ or imm_.
THEOREM MemTablesCompacted == Spec => []MemTableCompacted
BY InvHolds, InvCompacted, PTL
=============================================================================
