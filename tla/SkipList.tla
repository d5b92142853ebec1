------------------------------ MODULE SkipList ------------------------------
(***************************************************************************)
(* The skip list of the memtable (skiplist.h): one writer inserts while    *)
(* readers walk the list without a lock.  A step is one load or store of a *)
(* link.  A link of a node that has not been stored yet holds Garbage.     *)
(***************************************************************************)
EXTENDS Integers, FiniteSets, FiniteSetsExt

CONSTANTS
    ListKeys,           \* keys that may be inserted, positive numbers
    MaxHeight,      \* kMaxHeight
    Readers,        \* threads that search
    MaxSearches     \* bound: searches of one reader

ASSUME ListAssumption ==
    ListKeys \subseteq Nat \ {0} /\ MaxHeight \in Nat \ {0} /\ MaxSearches \in Nat

VARIABLES
    next,           \* next_ of each node, by level
    maxHeight,      \* max_height_
    insertion,      \* the insertion in progress: none or one
    search,         \* what each reader is doing
    done            \* searches each reader has finished

listVars == <<next, maxHeight, insertion, search, done>>

HeadNode == 0
NullNode == -1
Garbage == -2
Nodes == ListKeys \cup {HeadNode}
LinkLevels == 0 .. MaxHeight - 1

\* The nodes that have been published in the list of a level.
Linked(l) == {n \in ListKeys : next[n][l] # Garbage /\ \E p \in Nodes : next[p][l] = n}

\* The nodes that are in the list: published at level 0.
Inserted == Linked(0)

NoSearch == [kind |-> "idle", key |-> 0, at |-> HeadNode, level |-> 0, result |-> NullNode, before |-> {}]

ListInit ==
    /\ next = [n \in Nodes |-> [l \in LinkLevels |-> IF n = HeadNode THEN NullNode ELSE Garbage]]
    /\ maxHeight = 1
    /\ insertion = {}
    /\ search = [r \in Readers |-> NoSearch]
    /\ done = [r \in Readers |-> 0]

-----------------------------------------------------------------------------
(* Insert.  The writer reads its own stores.                               *)

\* prev[l] of FindGreaterOrEqual, and head_ above the old height.
Previous(key, l) == Max({n \in Linked(l) : n < key} \cup {HeadNode})

\* The node gets its height, and max_height_ follows, before any link.
InsertNode ==
    /\ insertion = {}
    /\ \E key \in ListKeys \ Inserted, height \in 1 .. MaxHeight :
          /\ insertion' = {[key |-> key, height |-> height, linked |-> 0,
                            prev |-> [l \in 0 .. height - 1 |-> Previous(key, l)]]}
          /\ maxHeight' = IF height > maxHeight THEN height ELSE maxHeight
    /\ UNCHANGED <<next, search, done>>

\* The loop goes up from level 0.
LevelToLink(i) == i.linked

\* NoBarrier_SetNext of the new node.
LinkNode ==
    \E i \in insertion :
        /\ next[i.key][LevelToLink(i)] = Garbage
        /\ next' = [next EXCEPT ![i.key][LevelToLink(i)] = next[i.prev[LevelToLink(i)]][LevelToLink(i)]]
        /\ UNCHANGED <<maxHeight, insertion, search, done>>

\* Mutant: the node is published before it links to what follows.
MayPublishAtOnce(i) == TRUE

\* SetNext releases what was stored in the node before.
MayPublish(i) == next[i.key][LevelToLink(i)] # Garbage

PublishNode ==
    \E i \in insertion :
        /\ MayPublish(i)
        /\ next' = [next EXCEPT ![i.prev[LevelToLink(i)]][LevelToLink(i)] = i.key]
        /\ insertion' = IF i.linked + 1 = i.height THEN {}
                        ELSE {[i EXCEPT !.linked = @ + 1]}
        /\ UNCHANGED <<maxHeight, search, done>>

-----------------------------------------------------------------------------
(* FindGreaterOrEqual, FindLessThan and FindLast.                          *)

\* A reader may see an old max_height_, which is relaxed.
StartSearch(r) ==
    /\ search[r].kind = "idle" /\ done[r] < MaxSearches
    /\ \E kind \in {"greaterOrEqual", "lessThan", "last"}, key \in ListKeys,
          height \in 1 .. maxHeight :
          search' = [search EXCEPT ![r] =
                        [kind |-> kind, key |-> IF kind = "last" THEN 0 ELSE key, at |-> HeadNode,
                         level |-> height - 1, result |-> NullNode, before |-> Inserted]]
    /\ UNCHANGED <<next, maxHeight, insertion, done>>

\* Whether a search moves on to node n; null is past every key.
Advances(s, n) ==
    /\ n # NullNode
    /\ s.kind = "last" \/ n < s.key

\* One turn of the loop; where it ends depends on the function.
Walk(r) ==
    LET s == search[r]
        n == next[s.at][s.level]
        ended(result) == [s EXCEPT !.result = result, !.level = -1]
    IN  /\ s.kind # "idle" /\ s.level >= 0
        /\ search' = [search EXCEPT ![r] =
                         CASE Advances(s, n) -> [s EXCEPT !.at = n]
                           [] ~Advances(s, n) /\ s.level > 0 -> [s EXCEPT !.level = @ - 1]
                           [] OTHER -> ended(IF s.kind = "greaterOrEqual" THEN n ELSE s.at)]
        /\ UNCHANGED <<next, maxHeight, insertion, done>>

\* The caller has its answer.
EndSearch(r) ==
    /\ search[r].level = -1
    /\ search' = [search EXCEPT ![r] = NoSearch]
    /\ done' = [done EXCEPT ![r] = @ + 1]
    /\ UNCHANGED <<next, maxHeight, insertion>>

ListNext ==
    \/ InsertNode \/ LinkNode \/ PublishNode
    \/ \E r \in Readers : StartSearch(r) \/ Walk(r) \/ EndSearch(r)

ListSpec == ListInit /\ [][ListNext]_listVars

-----------------------------------------------------------------------------
\* Types; a reader only ever stands on a node whose link at its level is set.
ListTypeOK ==
    /\ next \in [Nodes -> [LinkLevels -> ListKeys \cup {NullNode, Garbage}]]
    /\ maxHeight \in 1 .. MaxHeight /\ Cardinality(insertion) <= 1
    /\ \A r \in Readers :
          LET s == search[r]
          IN  /\ s.level \in -1 .. maxHeight - 1 /\ s.at \in Nodes
              /\ s.level >= 0 => next[s.at][s.level] # Garbage

\* The list of every level is in order, and each is part of the one below.
ListsInOrder ==
    \A l \in LinkLevels :
        /\ \A n \in Linked(l) \cup {HeadNode} : next[n][l] = NullNode \/ next[n][l] > n
        /\ l > 0 => Linked(l) \subseteq Linked(l - 1)

\* What a search returns is right for some moment of it: it is in the list and
\* no node that was there when the search began is nearer.
SearchesRight ==
    \A r \in Readers :
        LET s == search[r]
        IN  s.level = -1 =>
              CASE s.kind = "greaterOrEqual" ->
                     /\ s.result \in Inserted \cup {NullNode}
                     /\ s.result # NullNode => s.result >= s.key
                     /\ \A k \in s.before : k >= s.key => s.result # NullNode /\ s.result <= k
                [] s.kind = "lessThan" ->
                     /\ s.result \in Inserted \cup {HeadNode}
                     /\ s.result < s.key
                     /\ \A k \in s.before : k < s.key => s.result >= k
                [] OTHER -> /\ s.result \in Inserted \cup {HeadNode}
                            /\ \A k \in s.before : s.result >= k

\* A list that grows under its readers stays ordered at every level between any
\* two stores of an insertion, and a search finds what it must.
ListConsistent == ListTypeOK /\ ListsInOrder /\ SearchesRight
=============================================================================
