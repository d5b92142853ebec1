----------------------------- MODULE TableCache -----------------------------
(***************************************************************************)
(* The cache of open tables: a shard of the LRU cache (util/cache.cc) and  *)
(* the threads that find tables in it and read them (db/table_cache.cc).   *)
(* FindTable looks up, opens and inserts without a lock over the three.    *)
(***************************************************************************)
EXTENDS Integers, Sequences, FiniteSets, FiniteSetsExt, SequencesExt, Functions

CONSTANTS
    Threads,        \* threads that read
    TableFiles,     \* numbers of table files
    Capacity,       \* capacity_ of the shard; a table counts 1
    MaxOpens        \* bound: tables open at a time; numbers are used again

ASSUME CacheAssumption == IsFiniteSet(Threads) /\ Capacity \in Nat /\ MaxOpens \in Nat

VARIABLES
    handles,        \* LRUHandle: file, refs and in_cache of those not freed
    lru,            \* lru_, oldest first
    inUse,          \* in_use_
    table,          \* table_: the handle of each cached file
    usage,          \* usage_
    readers,        \* what each thread is doing
    deleted         \* files that DeleteObsoleteFiles has evicted and deleted

cacheVars == <<handles, lru, inUse, table, usage>>
tableVars == <<cacheVars, readers, deleted>>

NotReading == [state |-> "idle", file |-> 0, handle |-> 0]

CacheInit ==
    /\ handles = <<>> /\ lru = <<>> /\ inUse = {} /\ table = <<>> /\ usage = 0
    /\ readers = [t \in Threads |-> NotReading]
    /\ deleted = {}

-----------------------------------------------------------------------------
(* The LRU cache, as functions of its state.                               *)

Cache == [handles |-> handles, lru |-> lru, inUse |-> inUse, table |-> table, usage |-> usage]

Without(f, x) == Restrict(f, DOMAIN f \ {x})
With(f, x, y) == [z \in DOMAIN f \cup {x} |-> IF z = x THEN y ELSE f[z]]

\* Ref: an entry that only the cache refers to leaves lru_ for in_use_.
Ref(c, h) ==
    LET moves == c.handles[h].refs = 1 /\ c.handles[h].inCache
    IN  [c EXCEPT !.handles[h].refs = @ + 1,
                  !.lru = IF moves THEN RemoveFirst(@, h) ELSE @,
                  !.inUse = IF moves THEN @ \cup {h} ELSE @]

\* Unref: the last reference frees it, the last but the cache's puts it on lru_.
Unref(c, h) ==
    LET left == c.handles[h].refs - 1
    IN  IF left = 0 THEN [c EXCEPT !.handles = Without(@, h)]
        ELSE IF left = 1 /\ c.handles[h].inCache
        THEN [c EXCEPT !.handles[h].refs = 1, !.inUse = @ \ {h}, !.lru = Append(@, h)]
        ELSE [c EXCEPT !.handles[h].refs = left]

\* Mutant: an entry that leaves the cache is freed.
FinishEraseFrees(c, H, left) ==
    [c EXCEPT !.handles = Restrict(@, DOMAIN @ \ H), !.inUse = @ \ H,
              !.lru = left, !.usage = @ - Cardinality(H)]

\* FinishErase of the entries H, which are out of the hash table: they leave
\* lru_ as it is given, and the cache's reference is given up.
FinishErase(c, H, left) ==
    LET freed == {h \in H : c.handles[h].refs = 1}
        Left(h) == IF h \in H THEN [c.handles[h] EXCEPT !.refs = @ - 1, !.inCache = FALSE]
                   ELSE c.handles[h]
    IN  [c EXCEPT !.handles = [h \in DOMAIN @ \ freed |-> Left(h)], !.inUse = @ \ H,
                  !.lru = left, !.usage = @ - Cardinality(H)]

\* Erase, and what Insert does to an older entry of the key.
Erase(c, file) ==
    IF file \notin DOMAIN c.table THEN c
    ELSE LET h == c.table[file]
         IN  FinishErase([c EXCEPT !.table = Without(@, file)], {h}, RemoveFirst(c.lru, h))

\* n turns of the loops that erase the file of the oldest entry of lru_.
EvictOldest(c, n) ==
    LET H == ToSet(SubSeq(c.lru, 1, n))
        files == {c.handles[h].file : h \in H}
    IN  FinishErase([c EXCEPT !.table = Restrict(@, DOMAIN @ \ files)],
                    H, SubSeq(c.lru, n + 1, Len(c.lru)))

\* How many entries have to go for the charge to fit.
Excess(c) == c.usage - Capacity

\* The loop at the end of Insert: entries of lru_ go, the oldest first.
EvictExcess(c) == EvictOldest(c, Min({Len(c.lru), Max({0, Excess(c)})}))

\* Insert.  Without a capacity nothing is cached.
InsertTable(c, file, h) ==
    IF Capacity = 0
    THEN [c EXCEPT !.handles = With(@, h, [file |-> file, refs |-> 1, inCache |-> FALSE])]
    ELSE LET old == Erase(c, file)
         IN  EvictExcess(
               [old EXCEPT !.handles = With(@, h, [file |-> file, refs |-> 2, inCache |-> TRUE]),
                           !.inUse = @ \cup {h}, !.table = With(@, file, h), !.usage = @ + 1])

Set(c) ==
    /\ handles' = c.handles /\ lru' = c.lru /\ inUse' = c.inUse
    /\ table' = c.table /\ usage' = c.usage

-----------------------------------------------------------------------------
(* Threads.                                                                *)

Opened == {readers[t].handle : t \in Threads} \cup DOMAIN handles

\* FindTable looks the file up.  The version the thread reads keeps the file.
Lookup(t, file) ==
    /\ readers[t] = NotReading /\ file \notin deleted
    /\ IF file \in DOMAIN table
       THEN /\ readers' = [readers EXCEPT ![t] = [state |-> "using", file |-> file,
                                                handle |-> table[file]]]
            /\ Set(Ref(Cache, table[file]))
       ELSE /\ readers' = [readers EXCEPT ![t] = [state |-> "opening", file |-> file,
                                                handle |-> 0]]
            /\ UNCHANGED cacheVars
    /\ UNCHANGED deleted

\* The file is opened and inserted, or cannot be opened.
FindTable(t) ==
    /\ readers[t].state = "opening"
    /\ \/ \E h \in 1 .. MaxOpens \ Opened :
             /\ \A g \in 1 .. MaxOpens \ Opened : h <= g
             /\ Set(InsertTable(Cache, readers[t].file, h))
             /\ readers' = [readers EXCEPT ![t].state = "using", ![t].handle = h]
       \/ readers' = [readers EXCEPT ![t] = NotReading] /\ UNCHANGED cacheVars
    /\ UNCHANGED deleted

\* Release, at the end of Get or when the iterator is deleted.
ReleaseTable(t) ==
    /\ readers[t].state = "using"
    /\ Set(Unref(Cache, readers[t].handle))
    /\ readers' = [readers EXCEPT ![t] = NotReading]
    /\ UNCHANGED deleted

\* DeleteObsoleteFiles leaves the files of every version.
MayEvict(file) == \A t \in Threads : readers[t].file # file

Evict(file) ==
    /\ file \notin deleted /\ MayEvict(file)
    /\ Set(Erase(Cache, file))
    /\ deleted' = deleted \cup {file}
    /\ UNCHANGED readers

\* Prune empties lru_.
Prune ==
    /\ Set(EvictOldest(Cache, Len(lru)))
    /\ UNCHANGED <<readers, deleted>>

CacheNext ==
    \/ \E t \in Threads : FindTable(t) \/ ReleaseTable(t) \/ \E f \in TableFiles : Lookup(t, f)
    \/ \E f \in TableFiles : Evict(f)
    \/ Prune

CacheSpec == CacheInit /\ [][CacheNext]_tableVars

-----------------------------------------------------------------------------
Users(h) == {t \in Threads : readers[t].state = "using" /\ readers[t].handle = h}

\* Types; what is in the hash table is what is in the two lists, each entry in
\* one of them (the comment at the head of cache.cc), and usage_ counts them.
CacheTypeOK ==
    /\ \A h \in DOMAIN handles : handles[h].refs \in Nat \ {0} /\ handles[h].file \in TableFiles
    /\ Range(table) = {h \in DOMAIN handles : handles[h].inCache}
    /\ Range(table) = ToSet(lru) \cup inUse
    /\ ToSet(lru) \cap inUse = {} /\ Cardinality(ToSet(lru)) = Len(lru)
    /\ \A f \in DOMAIN table : handles[table[f]].file = f
    /\ usage = Cardinality(Range(table))

\* A table is not freed while a thread uses it, though it was evicted, erased or
\* replaced by one that another thread opened at the same time.
NoUseAfterFree ==
    \A t \in Threads : readers[t].state = "using" =>
        readers[t].handle \in DOMAIN handles /\ handles[readers[t].handle].file = readers[t].file

\* The references of an entry are its users and the cache; lru_ holds those
\* that only the cache refers to.  None is left without either.
ReferencesCounted ==
    \A h \in DOMAIN handles :
        /\ handles[h].refs = Cardinality(Users(h)) + (IF handles[h].inCache THEN 1 ELSE 0)
        /\ (h \in ToSet(lru)) <=> (handles[h].refs = 1 /\ handles[h].inCache)

\* Open tables are bounded, though Release puts an entry on lru_ without
\* evicting: the cache never has more than its capacity or its users.
OpenTablesBounded == usage <= Max({Capacity, Cardinality(Threads)})

\* A file that was evicted and deleted does not come back into the cache.
EvictedStaysOut == deleted \cap DOMAIN table = {}

\* The cache stays consistent under threads that open, use, evict and replace
\* tables: references are counted, nothing is freed in use, no deleted file
\* comes back, and open tables are bounded.
CacheConsistent ==
    /\ CacheTypeOK /\ ReferencesCounted /\ NoUseAfterFree
    /\ EvictedStaysOut /\ OpenTablesBounded
=============================================================================
