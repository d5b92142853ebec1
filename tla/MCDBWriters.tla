---------------------------- MODULE MCDBWriters ----------------------------
(***************************************************************************)
(* The threads of DBImpl on small instances, and the queue through which   *)
(* the environment is handed their background work.  A crew is the set of  *)
(* threads that call the database; with no crew the queue takes its steps. *)
(***************************************************************************)
EXTENDS DBWriters, BackgroundQueue

CONSTANTS w1, w2, f1, c1, c2

\* Group commit beside a flush; a flush inside a manual compaction; two manual
\* compactions that wait for each other.
Crews == {{w1, w2, f1}, {w1, f1, c1}, {c1, c2}}

VARIABLE crew

CrewInit ==
    /\ Init /\ QueueInit
    /\ crew \in Crews \cup {{}}
    /\ \A w \in Writers \ crew : ~sync[w]
    /\ crew = {} => level0 = 0

CrewNext ==
    /\ UNCHANGED crew
    /\ \/ /\ crew # {} /\ Next /\ UNCHANGED queueVars
          /\ \A t \in Threads \ crew : pc'[t] = "idle"
       \/ crew = {} /\ QueueNext /\ UNCHANGED vars

CrewSpec ==
    /\ CrewInit /\ [][CrewNext]_<<vars, queueVars, crew>>
    /\ Fairness /\ QueueFairness
=============================================================================
