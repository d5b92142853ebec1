--------------------------- MODULE BackgroundQueue ---------------------------
(***************************************************************************)
(* PosixEnv::Schedule and BackgroundThreadMain (util/env_posix.cc): work   *)
(* that DBImpl hands to a thread made at the first call.  Each action is a *)
(* critical section of background_work_mutex_.  Schedule signals only if   *)
(* the queue is empty, and before it has put its item there.               *)
(***************************************************************************)
EXTENDS Naturals, Sequences, SequencesExt

CONSTANT MaxItems   \* bound: calls of Schedule

ASSUME MaxItemsAssumption == MaxItems \in Nat

VARIABLES
    workQueue,      \* background_work_queue_
    bgThread,       \* the background thread: none, ready, waiting or running
    handedOver,     \* calls of Schedule so far; items are numbered by them
    ran             \* items in the order in which their function returned

queueVars == <<workQueue, bgThread, handedOver, ran>>

NoThreadYet == [at |-> "none", item |-> 0]
Ready == [at |-> "ready", item |-> 0]
Waiting == [at |-> "waiting", item |-> 0]
Running(i) == [at |-> "running", item |-> i]

QueueInit == workQueue = <<>> /\ bgThread = NoThreadYet /\ handedOver = 0 /\ ran = <<>>

-----------------------------------------------------------------------------
\* Mutant: the test is made after the item was put into the queue.
SignalsAfterEmplace == Append(workQueue, 0) = <<>>

Signals == workQueue = <<>>

\* Schedule, from any thread, the work being run included.
Schedule ==
    /\ handedOver < MaxItems
    /\ handedOver' = handedOver + 1
    /\ workQueue' = Append(workQueue, handedOver')
    /\ bgThread' = IF bgThread = NoThreadYet \/ (bgThread = Waiting /\ Signals)
                   THEN Ready ELSE bgThread
    /\ UNCHANGED ran

\* background_work_cv_.Wait gives up the mutex.
WaitForWork ==
    /\ bgThread = Ready /\ workQueue = <<>>
    /\ bgThread' = Waiting
    /\ UNCHANGED <<workQueue, handedOver, ran>>

\* Wait may return although nobody signalled.
WakeSpuriously ==
    /\ bgThread = Waiting
    /\ bgThread' = Ready
    /\ UNCHANGED <<workQueue, handedOver, ran>>

\* front().
NextItem == Head(workQueue)

Take ==
    /\ bgThread = Ready /\ workQueue # <<>>
    /\ bgThread' = Running(NextItem)
    /\ workQueue' = Remove(workQueue, NextItem)
    /\ UNCHANGED <<handedOver, ran>>

\* The function returns.
Finish ==
    /\ bgThread.at = "running"
    /\ ran' = Append(ran, bgThread.item)
    /\ bgThread' = Ready
    /\ UNCHANGED <<workQueue, handedOver>>

QueueNext == Schedule \/ WaitForWork \/ WakeSpuriously \/ Take \/ Finish

QueueSpec == QueueInit /\ [][QueueNext]_queueVars

\* The background thread is scheduled by the operating system and work ends
\* (DBWriters shows it of the work of DBImpl); nobody owes a call or a
\* spurious wake-up.
QueueFairness ==
    WF_queueVars(WaitForWork) /\ WF_queueVars(Take) /\ WF_queueVars(Finish)

-----------------------------------------------------------------------------
\* No lost wake-up, and "functions added to the same Env may run concurrently
\* in different threads" (env.h), but not in this Env: every item handed over is
\* run, in the order of the calls of Schedule.
ItemsRun ==
    \A i \in 1 .. MaxItems : (handedOver >= i) ~> (i \in DOMAIN ran /\ ran[i] = i)

=============================================================================
