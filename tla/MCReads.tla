------------------------------ MODULE MCReads ------------------------------
(***************************************************************************)
(* What a read of the database goes through: the levels of tables, the     *)
(* iterator that merges them and the skip list of the memtable.  The three *)
(* modules share no state: one takes its steps, the others rest in an      *)
(* initial state.                                                          *)
(***************************************************************************)
EXTENDS VersionSet, DBIter, SkipList

VARIABLES
    part,       \* the module that takes its steps
    updates     \* which updates the database gets, with at most one deletion, of a
                \* key that has a value: few of any key, or two of each of two keys,
                \* of which one is spread over files and may be deleted

ReadsInit ==
    /\ part \in {"levels", "iterator", "memtable"}
    /\ Init /\ IterInit /\ ListInit
    /\ updates \in {"any", "split"} /\ (part # "levels" => updates = "any")
    /\ part # "iterator" =>
          \A c \in Child : \A e \in children[c] : c = 0 /\ e.key = 1 /\ e.type = "value"

MayUpdate(sequence) ==
    LET deletions == {i \in DOMAIN sequence : sequence[i].type = "deletion"}
        Of(key) == {i \in DOMAIN sequence : sequence[i].key = key}
        most(key) == IF key \in {1} \cup SplitKeys THEN 2 ELSE 0
    IN  /\ Cardinality(deletions) <= 1
        /\ \A i \in deletions : \E j \in 1 .. i - 1 : sequence[j].key = sequence[i].key
        /\ \/ updates = "any" /\ Len(sequence) < MaxWrites
           \/ /\ updates = "split" /\ \A i \in deletions : sequence[i].key \in SplitKeys
              /\ \A key \in Keys : Cardinality(Of(key)) <= most(key)

ReadsNext ==
    /\ UNCHANGED <<part, updates>>
    /\ \/ /\ part = "levels" /\ Next /\ MayUpdate(ops')
          /\ UNCHANGED <<iterVars, listVars>>
       \/ part = "iterator" /\ IterNext /\ UNCHANGED <<vars, listVars>>
       \/ part = "memtable" /\ ListNext /\ UNCHANGED <<vars, iterVars>>

ReadsSpec == ReadsInit /\ [][ReadsNext]_<<vars, iterVars, listVars, part, updates>>
=============================================================================
