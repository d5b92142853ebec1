---------------------------- MODULE DurableStore ----------------------------
(***************************************************************************)
(* What leveldb/options.h promises about a write: no acknowledged write is *)
(* lost when only the process dies, and one that was asked for with sync   *)
(* is not lost when the machine does.  A write that was never acknowledged *)
(* may be there or not.                                                    *)
(***************************************************************************)
EXTENDS Naturals

CONSTANT MaxWrites      \* bound: writes

VARIABLES
    contents,   \* the writes a reader finds, or would find after opening
    safe,       \* acknowledged writes that asked for sync
    limbo,      \* writes that were begun and not acknowledged
    open        \* the database is open

storeVars == <<contents, safe, limbo, open>>

Writes == 1 .. MaxWrites

StoreTypeOK ==
    /\ contents \subseteq Writes
    /\ safe \subseteq Writes
    /\ limbo \subseteq Writes
    /\ open \in BOOLEAN

StoreInit == contents = {} /\ safe = {} /\ limbo = {} /\ open = FALSE

Open ==
    /\ ~open
    /\ open' = TRUE
    /\ UNCHANGED <<contents, safe, limbo>>

Begin(w) ==
    /\ open
    /\ w \notin contents \cup limbo
    /\ limbo' = limbo \cup {w}
    /\ UNCHANGED <<contents, safe, open>>

Acknowledge(w, sync) ==
    /\ open
    /\ w \in limbo
    /\ limbo' = limbo \ {w}
    /\ contents' = contents \cup {w}
    /\ safe' = IF sync THEN safe \cup {w} ELSE safe
    /\ UNCHANGED open

\* The process dies.
StoreKill ==
    /\ open' = FALSE
    /\ \E more \in SUBSET limbo : contents' = contents \cup more
    /\ limbo' = {}
    /\ UNCHANGED safe

\* The machine dies.
StorePowerFailure ==
    /\ open' = FALSE
    /\ \E kept \in SUBSET (contents \cup limbo) :
          /\ safe \subseteq kept
          /\ contents' = kept
    /\ limbo' = {}
    /\ UNCHANGED safe

StoreNext ==
    \/ Open
    \/ \E w \in Writes : Begin(w) \/ \E sync \in BOOLEAN : Acknowledge(w, sync)
    \/ StoreKill
    \/ StorePowerFailure

StoreSpec == StoreInit /\ [][StoreNext]_storeVars
=============================================================================
