----------------------------- MODULE FileLocks -----------------------------
(***************************************************************************)
(* PosixEnv::LockFile and UnlockFile (util/env_posix.cc), which DBImpl     *)
(* holds from Recover to its destructor and DestroyDB while it deletes the *)
(* files of a database.  The file has a lock of the kernel, which excludes *)
(* other processes, and an entry in the table locks_, which excludes other *)
(* threads.  The kernel gives up the locks that a process has on a file    *)
(* when it closes ANY descriptor of the file.                              *)
(***************************************************************************)
EXTENDS Integers, FiniteSets

CONSTANTS
    Processes, NoProcess,
    Callers,        \* threads that open, close and destroy the database
    ProcessOf,      \* the process of each of them
    MaxNodes        \* bound: times the lock file is created

ASSUME LocksAssumption ==
    /\ ProcessOf \in [Callers -> Processes] /\ NoProcess \notin Processes
    /\ MaxNodes \in Nat

VARIABLES
    node,           \* the file that the name LOCK refers to, 0 for none
    nodes,          \* lock files created so far
    owner,          \* the process with the kernel's lock on each file
    locks,          \* processes whose locks_ has the name
    call,           \* per caller: where it is, its descriptor's file, DestroyDB or not
    overlapped      \* history: calls have overlapped, see Overlaps

locksVars == <<node, nodes, owner, locks, call, overlapped>>

NoCall == [at |-> "idle", file |-> 0, destroys |-> FALSE]

LocksInit ==
    /\ node = 0 /\ nodes = 0
    /\ owner = [f \in 1..MaxNodes |-> NoProcess]
    /\ locks = {}
    /\ call = [t \in Callers |-> NoCall]
    /\ overlapped = FALSE

-----------------------------------------------------------------------------
Opening == {"opened", "inserted", "failing", "held", "leaking", "leaked"}
Closing == {"unlocked", "removed"}

\* A call overlaps with another: in the same process another thread holds the
\* lock or asks for it, or gives it up; or one of them is DestroyDB, anywhere.
Overlaps(t, destroys) ==
    \E u \in Callers \ {t} :
        \/ ProcessOf[u] = ProcessOf[t] /\ call[u].at \in Opening \cup Closing
        \/ call[u].at # "idle" /\ (call[u].destroys \/ destroys)

GotoStep(t, at) == call' = [call EXCEPT ![t].at = at]

Return(t) == call' = [call EXCEPT ![t] = NoCall]

\* close(fd): the process loses its lock on the file, whoever took it.
OwnerAfterClose(t) ==
    [owner EXCEPT ![call[t].file] = IF @ = ProcessOf[t] THEN NoProcess ELSE @]

\* LockFile: open with O_CREAT.
OpenLockFile(t, destroys) ==
    /\ call[t].at = "idle"
    /\ node # 0 \/ nodes < MaxNodes
    /\ nodes' = IF node = 0 THEN nodes + 1 ELSE nodes
    /\ node' = IF node = 0 THEN nodes + 1 ELSE node
    /\ call' = [call EXCEPT ![t] = [at |-> "opened", file |-> node', destroys |-> destroys]]
    /\ overlapped' = (overlapped \/ Overlaps(t, destroys))
    /\ UNCHANGED <<owner, locks>>

\* Mutant: the table is not asked.
MayInsertAlways(t) == TRUE

\* locks_.Insert succeeds.
MayInsert(t) == ProcessOf[t] \notin locks

InsertLock(t) ==
    /\ call[t].at = "opened" /\ MayInsert(t)
    /\ locks' = locks \cup {ProcessOf[t]}
    /\ GotoStep(t, "inserted")
    /\ UNCHANGED <<node, nodes, owner, overlapped>>

\* "already held by process".
AlreadyHeld(t) ==
    /\ call[t].at = "opened" /\ ~MayInsert(t)
    /\ owner' = OwnerAfterClose(t)
    /\ Return(t)
    /\ UNCHANGED <<node, nodes, locks, overlapped>>

\* fcntl(F_SETLK): refused only if another process has the lock.
KernelGrants(t) == owner[call[t].file] \in {NoProcess, ProcessOf[t]}

Lock(t) ==
    /\ call[t].at = "inserted" /\ KernelGrants(t)
    /\ owner' = [owner EXCEPT ![call[t].file] = ProcessOf[t]]
    /\ GotoStep(t, "held")
    /\ UNCHANGED <<node, nodes, locks, overlapped>>

\* The kernel refuses: the descriptor is closed, then the entry removed.
Refused(t) ==
    /\ call[t].at = "inserted" /\ ~KernelGrants(t)
    /\ owner' = OwnerAfterClose(t)
    /\ GotoStep(t, "failing")
    /\ UNCHANGED <<node, nodes, locks, overlapped>>

EntriesLeft(t) == locks \ {ProcessOf[t]}

RemoveRefused(t) ==
    /\ call[t].at = "failing"
    /\ locks' = EntriesLeft(t)
    /\ Return(t)
    /\ UNCHANGED <<node, nodes, owner, overlapped>>

\* UnlockFile, from ~DBImpl or from DestroyDB once it has deleted the files.
Unlock(t) ==
    /\ call[t].at = "held"
    /\ owner' = OwnerAfterClose(t)
    /\ GotoStep(t, "unlocked")
    /\ UNCHANGED <<node, nodes, locks, overlapped>>

\* fcntl fails: UnlockFile returns at once, both callers ignore its status.
UnlockFails(t) ==
    /\ call[t].at = "held"
    /\ GotoStep(t, IF call[t].destroys THEN "leaking" ELSE "leaked")
    /\ UNCHANGED <<node, nodes, owner, locks, overlapped>>

RemoveEntry(t) ==
    /\ call[t].at = "unlocked"
    /\ locks' = EntriesLeft(t)
    /\ GotoStep(t, "removed")
    /\ UNCHANGED <<node, nodes, owner, overlapped>>

Close(t) ==
    /\ call[t].at = "removed"
    /\ owner' = OwnerAfterClose(t)
    /\ IF call[t].destroys THEN GotoStep(t, "deleting") ELSE Return(t)
    /\ UNCHANGED <<node, nodes, locks, overlapped>>

\* DestroyDB deletes the lock file after it has unlocked it, or failed to.
DeleteLockFile(t) ==
    /\ call[t].at \in {"deleting", "leaking"}
    /\ node' = 0
    /\ IF call[t].at = "leaking" THEN GotoStep(t, "leaked") ELSE Return(t)
    /\ UNCHANGED <<nodes, owner, locks, overlapped>>

\* The process exits: the kernel releases its locks.
Exit(p) ==
    /\ call' = [t \in Callers |-> IF ProcessOf[t] = p THEN NoCall ELSE call[t]]
    /\ owner' = [f \in DOMAIN owner |-> IF owner[f] = p THEN NoProcess ELSE owner[f]]
    /\ locks' = locks \ {p}
    /\ UNCHANGED <<node, nodes, overlapped>>

LockStep(t) ==
    \/ InsertLock(t) \/ AlreadyHeld(t) \/ Lock(t) \/ Refused(t) \/ RemoveRefused(t)
    \/ Unlock(t) \/ UnlockFails(t) \/ RemoveEntry(t) \/ Close(t) \/ DeleteLockFile(t)

LocksNext ==
    \/ \E t \in Callers :
        \/ LockStep(t)
        \/ \E destroys \in BOOLEAN : OpenLockFile(t, destroys)
    \/ \E p \in Processes : Exit(p)

LocksSpec == LocksInit /\ [][LocksNext]_locksVars

-----------------------------------------------------------------------------
LocksTypeOK ==
    /\ node \in 0..MaxNodes /\ nodes \in 0..MaxNodes
    /\ owner \in [1..MaxNodes -> Processes \cup {NoProcess}]
    /\ locks \subseteq Processes
    /\ call \in [Callers -> [at : {"idle", "deleting"} \cup Opening \cup Closing,
                             file : 0..MaxNodes, destroys : BOOLEAN]]
    /\ \A t \in Callers : call[t].at = "idle" <=> call[t].file = 0

Holders == {t \in Callers : call[t].at = "held"}

\* The database is open at most once in a process, whatever overlaps: the
\* table of PosixLockTable does what its comment says, "fcntl(F_SETLK) does
\* not provide any protection against multiple uses from the same process".
OneHolderPerProcess ==
    \A t, u \in Holders : ProcessOf[t] = ProcessOf[u] => t = u

\* An entry of locks_ belongs to a call that will remove it or to a handle
\* that is held: a LockFile that fails does not lock the process out.
EntriesExplained ==
    \A p \in locks :
        \E t \in Callers :
            ProcessOf[t] = p /\ call[t].at \in (Opening \cup {"unlocked"}) \ {"opened"}

\* "Used to prevent concurrent access to the same db by multiple processes"
\* (env.h): at most one handle in all processes, whichever of them open, crash
\* and close in which order, as long as each process takes care of its own
\* calls.  Without that care it does not hold: see HolderIsLocked.
OneHolder == ~overlapped => Cardinality(Holders) <= 1

\* Whoever holds a handle has the kernel's lock on the file that the name LOCK
\* refers to.  An overlapping call takes it away: a second LockFile of the
\* process closes its descriptor when it finds the entry in locks_, one that
\* begins after UnlockFile has removed the entry is unlocked by its close, and
\* DestroyDB deletes the name of a file that another process has locked.
HolderIsLocked ==
    ~overlapped =>
    \A t \in Holders : owner[call[t].file] = ProcessOf[t] /\ call[t].file = node

\* The lock keeps a database to one handle, within a process always and between
\* processes as long as no calls of a process overlap, and nobody is locked out
\* by a call that failed.
LocksConsistent ==
    /\ LocksTypeOK /\ OneHolderPerProcess /\ EntriesExplained
    /\ OneHolder /\ HolderIsLocked
=============================================================================
