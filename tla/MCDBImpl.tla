------------------------------ MODULE MCDBImpl ------------------------------
(***************************************************************************)
(* DBImpl on small instances.                                              *)
(***************************************************************************)
EXTENDS DBImpl

(* With errors: every other write asks for sync, and the last write,       *)
(* which lets a flush interrupt a compaction, is for runs that end with    *)
(* their first death: what it leaves on disk is checked, not its recovery. *)

ErrorsBound ==
    /\ writer' # NoWrite => (writer'.sync <=> writer'.batch.id % 2 = 0)
    /\ kills + failures = 0 \/ written' < MaxWrites
=============================================================================
