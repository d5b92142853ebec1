--------------------------- MODULE SkipListProofs ---------------------------
(***************************************************************************)
(* Proofs about reading in memory: the skip list of the memtable and the   *)
(* iterator of the database.                                               *)
(*                                                                         *)
(* A store of a link is one step, so what is proved of the list holds      *)
(* between any two stores of an insertion, for any keys, heights and       *)
(* readers.  A move of the merging iterator is one step, so what is proved *)
(* of the iterator holds with insertions between any two moves, for any    *)
(* keys, tables, snapshot and number of insertions.                        *)
(***************************************************************************)
EXTENDS SkipList, DBIter, FiniteSetTheorems, WellFoundedInduction, TLAPS

-----------------------------------------------------------------------------
(* The list: its inductive invariant.                                      *)

Stored(n, l) == next[n][l] # Garbage

SearchKinds == {"idle", "greaterOrEqual", "lessThan", "last"}

SearchShape == [kind : SearchKinds, key : Nat, at : Nodes, level : Int,
                result : Nodes \cup {NullNode}, before : SUBSET ListKeys]

\* Shapes only.
ListShapes ==
    /\ next \in [Nodes -> [LinkLevels -> ListKeys \cup {NullNode, Garbage}]]
    /\ maxHeight \in 1 .. MaxHeight
    /\ insertion = {} \/ \E i : insertion = {i}
    /\ search \in [Readers -> SearchShape]

\* A link that has been stored leads to the next node of its level, or to null
\* when there is none: it goes up, it skips nothing and what it leads to has its
\* own link.
LinkRight(n, l) ==
    /\ next[n][l] \in ListKeys => next[n][l] > n /\ Stored(next[n][l], l)
    /\ \A k \in Linked(l) : Stored(n, l) /\ k > n => next[n][l] # NullNode /\ next[n][l] <= k

LinksRight == \A n \in Nodes, l \in LinkLevels : LinkRight(n, l)

\* The head always has a link, and a node with a link is in the list of that
\* level unless it is the node being inserted, at the level it has reached.
LinksOwned ==
    /\ \A l \in LinkLevels : Stored(HeadNode, l)
    /\ \A n \in ListKeys, l \in LinkLevels :
          Stored(n, l) => \/ n \in Linked(l)
                          \/ \E i \in insertion : i.key = n /\ i.linked = l
    /\ \A l, m \in LinkLevels : m <= l => Linked(l) \subseteq Linked(m)

\* Where the insertion stands: its node is in the lists below the level it has
\* reached, in none from there on, and the node found for a level is still the
\* last one before it.
InsertionRight(i) ==
    /\ i.key \in ListKeys /\ i.height \in 1 .. MaxHeight /\ i.linked \in 0 .. i.height - 1
    /\ i = [key |-> i.key, height |-> i.height, linked |-> i.linked, prev |-> i.prev]
    /\ \A l \in 0 .. i.linked - 1 : i.key \in Linked(l)
    /\ \A l \in i.linked .. i.height - 1 :
          /\ i.key \notin Linked(l)
          /\ l > i.linked => ~Stored(i.key, l)
          /\ i.prev[l] \in Linked(l) \cup {HeadNode}
          /\ i.prev[l] < i.key
          /\ \A k \in Linked(l) : k < i.key => k <= i.prev[l]
    /\ Stored(i.key, i.linked) => next[i.key][i.linked] = next[i.prev[i.linked]][i.linked]

\* Where a search stands: on a node of the list it walks, before its key; and an
\* answer is right.
SearchRight(s) ==
    /\ s.kind = "idle" => s = NoSearch
    /\ s.level \in -1 .. maxHeight - 1
    /\ s.level >= 0 => s.at \in Linked(s.level) \cup {HeadNode}
    /\ s.before \subseteq Inserted
    /\ s.kind \in {"greaterOrEqual", "lessThan"} => s.at < s.key
    /\ s.level = -1 /\ s.kind = "greaterOrEqual" =>
          /\ s.result \in Inserted \cup {NullNode}
          /\ s.result # NullNode => s.result >= s.key
          /\ \A k \in s.before : k >= s.key => s.result # NullNode /\ s.result <= k
    /\ s.level = -1 /\ s.kind = "lessThan" =>
          /\ s.result \in Inserted \cup {HeadNode}
          /\ s.result < s.key
          /\ \A k \in s.before : k < s.key => s.result >= k
    /\ s.level = -1 /\ s.kind = "last" =>
          /\ s.result \in Inserted \cup {HeadNode}
          /\ \A k \in s.before : s.result >= k

ListInv ==
    /\ ListShapes
    /\ LinksRight
    /\ LinksOwned
    /\ \A i \in insertion : InsertionRight(i)
    /\ \A r \in Readers : SearchRight(search[r])

-----------------------------------------------------------------------------
(* Lemmas: the greatest node before a key, and what the stores do.         *)

\* A set of numbers below a bound that has a member has a greatest one, which
\* is what Max picks.
LEMMA BoundedMax ==
    ASSUME NEW S \in SUBSET Nat, S # {}, NEW b \in Nat, \A x \in S : x < b
    PROVE  Max(S) \in S /\ \A x \in S : x <= Max(S)
<1> DEFINE Gap == {g \in Nat : \E x \in S : g = b - x}
<1>1. Gap # {}
  <2>1. PICK x \in S : TRUE
    OBVIOUS
  <2>2. b - x \in Gap
    BY <2>1
  <2> QED BY <2>2
<1>2. PICK g \in Gap : \A h \in Gap : ~(<<h, g>> \in OpToRel(<, Nat))
  <2> HIDE DEF Gap
  <2>1. Gap \subseteq Nat
    BY DEF Gap
  <2> QED BY <1>1, <2>1, NatLessThanWellFounded, WFMin
<1>3. \A h \in Gap : ~(h < g)
  <2> SUFFICES ASSUME NEW h \in Gap, h < g PROVE FALSE
    OBVIOUS
  <2>1. <<h, g>> \in Nat \X Nat
    OBVIOUS
  <2>2. <<h, g>> \in OpToRel(<, Nat)
    BY <2>1 DEF OpToRel
  <2> QED BY <1>2, <2>2
<1>4. PICK x \in S : g = b - x
  OBVIOUS
<1>5. \A y \in S : x >= y
  <2> SUFFICES ASSUME NEW y \in S PROVE x >= y
    OBVIOUS
  <2>1. b - y \in Gap
    OBVIOUS
  <2>2. ~(b - y < g)
    BY <1>3, <2>1
  <2> QED BY <1>4, <2>2
<1>6. \E y \in S : \A z \in S : y >= z
  BY <1>5
<1>7. Max(S) \in S /\ \A y \in S : Max(S) >= y
  BY <1>6 DEF Max
<1> QED BY <1>7

\* What FindGreaterOrEqual leaves in prev.
LEMMA PreviousNode ==
    ASSUME ListShapes, NEW key \in ListKeys, NEW l \in LinkLevels
    PROVE  /\ Previous(key, l) \in Linked(l) \cup {HeadNode}
           /\ Previous(key, l) < key
           /\ \A k \in Linked(l) : k < key => k <= Previous(key, l)
<1> DEFINE Earlier == {n \in Linked(l) : n < key} \cup {HeadNode}
<1>1. Earlier \in SUBSET Nat /\ Earlier # {} /\ key \in Nat /\ \A x \in Earlier : x < key
  <2>1. Linked(l) \subseteq ListKeys /\ ListKeys \subseteq Nat /\ key \in Nat /\ 0 < key
    BY ListAssumption DEF Linked
  <2>2. ASSUME NEW x \in Earlier PROVE x \in Nat /\ x < key
    <3>1. CASE x = HeadNode
      BY <2>1, <3>1 DEF HeadNode
    <3>2. CASE x \in Linked(l) /\ x < key
      BY <2>1, <3>2
    <3> QED BY <3>1, <3>2
  <2>3. HeadNode \in Earlier
    OBVIOUS
  <2> QED BY <2>1, <2>2, <2>3
<1> HIDE DEF Earlier
<1>2. Max(Earlier) \in Earlier /\ \A x \in Earlier : x <= Max(Earlier)
  BY <1>1, BoundedMax
<1>3. Max(Earlier) = Previous(key, l)
  BY DEF Earlier, Previous
<1>4. Max(Earlier) \in Linked(l) \cup {HeadNode} /\ Max(Earlier) < key
  BY <1>1, <1>2 DEF Earlier
<1>5. \A k \in Linked(l) : k < key => k <= Max(Earlier)
  BY <1>2 DEF Earlier
<1> QED BY <1>3, <1>4, <1>5

LEMMA ListNumbers ==
    /\ ListKeys \subseteq Nat \ {0} /\ Nodes \subseteq Nat
    /\ NullNode = -1 /\ Garbage = -2 /\ HeadNode = 0
    /\ LinkLevels = 0 .. MaxHeight - 1 /\ MaxHeight \in Nat \ {0}
BY ListAssumption DEF Nodes, NullNode, Garbage, HeadNode, LinkLevels

\* A step that stores no link moves no node.
LEMMA SameLinks ==
    ASSUME next' = next, NEW l
    PROVE  Linked(l)' = Linked(l) /\ \A n : Stored(n, l)' = Stored(n, l)
BY DEF Linked, Stored

\* NoBarrier_SetNext: one link, no node moves.
LEMMA LinkMoves ==
    ASSUME ListInv, LinkNode
    PROVE  \E i \in insertion :
             /\ insertion = {i} /\ i.linked \in LinkLevels /\ InsertionRight(i)
             /\ ~Stored(i.key, i.linked)
             /\ i.prev[i.linked] \in Nodes /\ i.prev[i.linked] # i.key
             /\ Stored(i.prev[i.linked], i.linked)
             /\ next' \in [Nodes -> [LinkLevels -> ListKeys \cup {NullNode, Garbage}]]
             /\ \A n \in Nodes, m \in LinkLevels :
                   next'[n][m] = IF n = i.key /\ m = i.linked
                                 THEN next[i.prev[i.linked]][i.linked] ELSE next[n][m]
             /\ \A m \in LinkLevels : Linked(m)' = Linked(m)
             /\ UNCHANGED <<maxHeight, insertion, search, done>>
<1> USE ListNumbers
<1>1. PICK i \in insertion :
        /\ next[i.key][i.linked] = Garbage
        /\ next' = [next EXCEPT ![i.key][i.linked] = next[i.prev[i.linked]][i.linked]]
        /\ UNCHANGED <<maxHeight, insertion, search, done>>
  BY DEF LinkNode, LevelToLink
<1> DEFINE l == i.linked  p == i.prev[l]
<1>2. insertion = {i} /\ InsertionRight(i) /\ ListShapes /\ LinksRight /\ LinksOwned
  BY <1>1 DEF ListInv, ListShapes
<1>3. i.key \in ListKeys /\ i.key \in Nodes /\ l \in LinkLevels
  BY <1>2 DEF InsertionRight, Nodes
<1>4. i.key \notin Linked(l) /\ p \in Linked(l) \cup {HeadNode} /\ p < i.key
  BY <1>2, <1>3 DEF InsertionRight
<1>5. p \in Nodes /\ p # i.key /\ Stored(p, l)
  BY <1>2, <1>3, <1>4 DEF Linked, LinksOwned, Stored, Nodes
<1>6. \A n \in Nodes, m \in LinkLevels :
         next'[n][m] = IF n = i.key /\ m = l THEN next[p][l] ELSE next[n][m]
  BY <1>1, <1>2, <1>3 DEF ListShapes
<1>7. next' \in [Nodes -> [LinkLevels -> ListKeys \cup {NullNode, Garbage}]]
  <2>1. next \in [Nodes -> [LinkLevels -> ListKeys \cup {NullNode, Garbage}]]
    BY <1>2 DEF ListShapes
  <2> HIDE DEF p, l
  <2>2. next[p] \in [LinkLevels -> ListKeys \cup {NullNode, Garbage}]
    BY <2>1, <1>5
  <2>3. next[p][l] \in ListKeys \cup {NullNode, Garbage}
    BY <2>2, <1>3
  <2>4. next' = [next EXCEPT ![i.key][l] = next[p][l]]
    BY <1>1 DEF p, l
  <2> QED BY <2>1, <2>3, <2>4, <1>3
<1>8. ASSUME NEW m \in LinkLevels PROVE Linked(m)' = Linked(m)
  <2>1. ASSUME NEW n \in ListKeys, n \in Linked(m) PROVE n \in Linked(m)'
    <3>1. n \in Nodes /\ next[n][m] # Garbage
      BY <2>1 DEF Linked, Nodes
    <3>2. PICK q \in Nodes : next[q][m] = n
      BY <2>1 DEF Linked
    <3>3. next'[q][m] = n
      BY <3>2, <1>1, <1>6, <2>1
    <3>4. next'[n][m] # Garbage
      BY <3>1, <1>1, <1>6
    <3> QED BY <3>3, <3>4, <2>1 DEF Linked
  <2>2. ASSUME NEW n \in ListKeys, n \in Linked(m)' PROVE n \in Linked(m)
    <3>1. n \in Nodes /\ next'[n][m] # Garbage
      BY <2>2 DEF Linked, Nodes
    <3>2. PICK q \in Nodes : next'[q][m] = n
      BY <2>2 DEF Linked
    <3>3. \E w \in Nodes : next[w][m] = n
      <4>1. CASE q = i.key /\ m = l
        BY <4>1, <3>2, <1>5, <1>6
      <4>2. CASE ~(q = i.key /\ m = l)
        BY <4>2, <3>2, <1>6
      <4> QED BY <4>1, <4>2
    <3>4. next[n][m] # Garbage
      <4>1. CASE n = i.key /\ m = l
        BY <4>1, <3>3, <1>2, <1>4 DEF LinksRight, LinkRight, Stored
      <4>2. CASE ~(n = i.key /\ m = l)
        BY <4>2, <3>1, <1>6
      <4> QED BY <4>1, <4>2
    <3> QED BY <3>3, <3>4, <2>2 DEF Linked
  <2>3. Linked(m) \subseteq ListKeys /\ Linked(m)' \subseteq ListKeys
    BY DEF Linked
  <2> QED BY <2>1, <2>2, <2>3
<1>9. ~Stored(i.key, l)
  BY <1>1 DEF Stored
<1>10. UNCHANGED <<maxHeight, insertion, search, done>>
  BY <1>1
<1> QED BY <1>2, <1>3, <1>5, <1>6, <1>7, <1>8, <1>9, <1>10

\* SetNext: the node of the insertion enters the list of its level.
LEMMA PublishMoves ==
    ASSUME ListInv, PublishNode
    PROVE  \E i \in insertion :
             /\ insertion = {i} /\ i.linked \in LinkLevels /\ InsertionRight(i)
             /\ Stored(i.key, i.linked)
             /\ i.prev[i.linked] \in Nodes /\ i.prev[i.linked] # i.key
             /\ Stored(i.prev[i.linked], i.linked)
             /\ next' \in [Nodes -> [LinkLevels -> ListKeys \cup {NullNode, Garbage}]]
             /\ \A n \in Nodes, m \in LinkLevels :
                   next'[n][m] = IF n = i.prev[i.linked] /\ m = i.linked
                                 THEN i.key ELSE next[n][m]
             /\ \A m \in LinkLevels :
                   Linked(m)' = IF m = i.linked THEN Linked(m) \cup {i.key} ELSE Linked(m)
             /\ insertion' = IF i.linked + 1 = i.height THEN {}
                             ELSE {[i EXCEPT !.linked = @ + 1]}
             /\ UNCHANGED <<maxHeight, search, done>>
<1> USE ListNumbers
<1>1. PICK i \in insertion :
        /\ next[i.key][i.linked] # Garbage
        /\ next' = [next EXCEPT ![i.prev[i.linked]][i.linked] = i.key]
        /\ insertion' = IF i.linked + 1 = i.height THEN {}
                        ELSE {[i EXCEPT !.linked = @ + 1]}
        /\ UNCHANGED <<maxHeight, search, done>>
  BY DEF PublishNode, LevelToLink, MayPublish
<1> DEFINE l == i.linked  p == i.prev[l]
<1>2. insertion = {i} /\ InsertionRight(i) /\ ListShapes /\ LinksRight /\ LinksOwned
  BY <1>1 DEF ListInv, ListShapes
<1>3. i.key \in ListKeys /\ i.key \in Nodes /\ l \in LinkLevels
  BY <1>2 DEF InsertionRight, Nodes
<1>4. i.key \notin Linked(l) /\ p \in Linked(l) \cup {HeadNode} /\ p < i.key
  BY <1>2, <1>3 DEF InsertionRight
<1>5. p \in Nodes /\ p # i.key /\ Stored(p, l)
  BY <1>2, <1>3, <1>4 DEF Linked, LinksOwned, Stored, Nodes
<1>6. \A n \in Nodes, m \in LinkLevels :
         next'[n][m] = IF n = p /\ m = l THEN i.key ELSE next[n][m]
  BY <1>1, <1>2, <1>3, <1>5 DEF ListShapes
<1>7. next' \in [Nodes -> [LinkLevels -> ListKeys \cup {NullNode, Garbage}]]
  BY <1>1, <1>2, <1>3, <1>5 DEF ListShapes
<1>8. next[i.key][l] = next[p][l]
  BY <1>1, <1>2, <1>3 DEF InsertionRight, Stored
<1>9. ASSUME NEW m \in LinkLevels
      PROVE  Linked(m)' = IF m = l THEN Linked(m) \cup {i.key} ELSE Linked(m)
  <2>1. ASSUME NEW n \in ListKeys, n \in Linked(m) PROVE n \in Linked(m)'
    <3>1. n \in Nodes /\ next[n][m] # Garbage
      BY <2>1 DEF Linked, Nodes
    <3>2. PICK q \in Nodes : next[q][m] = n
      BY <2>1 DEF Linked
    <3>3. \E w \in Nodes : next'[w][m] = n
      <4>1. CASE q = p /\ m = l
        BY <4>1, <3>2, <1>3, <1>5, <1>6, <1>8
      <4>2. CASE ~(q = p /\ m = l)
        BY <4>2, <3>2, <1>6
      <4> QED BY <4>1, <4>2
    <3>4. next'[n][m] # Garbage
      BY <3>1, <1>3, <1>6
    <3> QED BY <3>3, <3>4, <2>1 DEF Linked
  <2>2. ASSUME NEW n \in ListKeys, n \in Linked(m)', ~(n = i.key /\ m = l) PROVE n \in Linked(m)
    <3>1. n \in Nodes /\ next'[n][m] # Garbage
      BY <2>2 DEF Linked, Nodes
    <3>2. PICK q \in Nodes : next'[q][m] = n
      BY <2>2 DEF Linked
    <3>3. next[q][m] = n
      BY <3>2, <1>6, <2>2
    <3>4. next[n][m] # Garbage
      BY <3>1, <1>5, <1>6 DEF Stored
    <3> QED BY <3>3, <3>4, <2>2 DEF Linked
  <2>3. Linked(m) \subseteq ListKeys /\ Linked(m)' \subseteq ListKeys
    BY DEF Linked
  <2>4. m = l => i.key \in Linked(m)'
    <3> SUFFICES ASSUME m = l PROVE i.key \in Linked(l)'
      OBVIOUS
    <3>1. next'[p][l] = i.key /\ next'[i.key][l] # Garbage
      BY <1>1, <1>3, <1>5, <1>6
    <3> QED BY <3>1, <1>3, <1>5 DEF Linked
  <2>5. CASE m = l
    BY <2>1, <2>2, <2>3, <2>4, <2>5, <1>3
  <2>6. CASE m # l
    BY <2>1, <2>2, <2>3, <2>6
  <2> QED BY <2>5, <2>6
<1>10. Stored(i.key, l)
  BY <1>1 DEF Stored
<1>11. /\ insertion' = IF l + 1 = i.height THEN {} ELSE {[i EXCEPT !.linked = @ + 1]}
       /\ UNCHANGED <<maxHeight, search, done>>
  BY <1>1
<1> QED BY <1>2, <1>3, <1>5, <1>6, <1>7, <1>9, <1>10, <1>11

-----------------------------------------------------------------------------
(* Each action keeps the invariant.                                        *)

LEMMA ListInitially == ListInit => ListInv
<1> SUFFICES ASSUME ListInit PROVE ListInv
  OBVIOUS
<1> USE ListNumbers
<1>1. \A n \in Nodes, l \in LinkLevels :
         next[n][l] = IF n = HeadNode THEN NullNode ELSE Garbage
  BY DEF ListInit
<1>2. \A l \in LinkLevels : Linked(l) = {}
  BY <1>1 DEF Linked
<1>3. ListShapes
  <2>1. next \in [Nodes -> [LinkLevels -> ListKeys \cup {NullNode, Garbage}]]
    BY DEF ListInit
  <2>2. NoSearch \in SearchShape
    BY DEF NoSearch, SearchShape, SearchKinds, Nodes
  <2> QED BY <2>1, <2>2 DEF ListInit, ListShapes
<1>4. LinksRight
  <2> SUFFICES ASSUME NEW n \in Nodes, NEW l \in LinkLevels PROVE LinkRight(n, l)
    BY DEF LinksRight
  <2>1. next[n][l] \notin ListKeys
    BY <1>1
  <2> QED BY <2>1, <1>2 DEF LinkRight
<1>5. LinksOwned
  BY <1>1, <1>2 DEF LinksOwned, Stored, Nodes
<1>6. ASSUME NEW r \in Readers PROVE SearchRight(search[r])
  BY DEF ListInit, SearchRight, NoSearch, SearchKinds
<1> QED BY <1>3, <1>4, <1>5, <1>6 DEF ListInv, ListInit

\* Lists that only grow leave a search as right as it was.
LEMMA SearchKeeps ==
    ASSUME NEW r \in Readers, SearchRight(search[r]), search'[r] = search[r],
           ListShapes, maxHeight' \in Int, maxHeight' >= maxHeight,
           \A m \in LinkLevels : Linked(m) \subseteq Linked(m)'
    PROVE  SearchRight(search[r])'
<1> USE ListNumbers
<1> DEFINE s == search[r]
<1>1. 0 \in LinkLevels /\ Inserted \subseteq Inserted'
  BY DEF Inserted
<1>2. maxHeight \in 1 .. MaxHeight /\ s.level \in -1 .. maxHeight - 1
  BY DEF ListShapes, SearchRight
<1>3. s.level >= 0 => s.level \in LinkLevels
  BY <1>2
<1>4. s.level \in -1 .. maxHeight' - 1
  BY <1>2
<1>5. s.level >= 0 => s.at \in Linked(s.level)' \cup {HeadNode}
  BY <1>3 DEF SearchRight
<1> QED BY <1>1, <1>4, <1>5 DEF SearchRight

LEMMA InsertKeeps == ListInv /\ InsertNode => ListInv'
<1> SUFFICES ASSUME ListInv, InsertNode PROVE ListInv'
  OBVIOUS
<1> USE ListNumbers
<1>1. PICK key \in ListKeys \ Inserted, height \in 1 .. MaxHeight :
        /\ insertion' = {[key |-> key, height |-> height, linked |-> 0,
                          prev |-> [l \in 0 .. height - 1 |-> Previous(key, l)]]}
        /\ maxHeight' = IF height > maxHeight THEN height ELSE maxHeight
  BY DEF InsertNode
<1>2. insertion = {} /\ next' = next /\ search' = search
  BY DEF InsertNode
<1>3. ListShapes /\ LinksRight /\ LinksOwned /\ maxHeight \in 1 .. MaxHeight
  BY DEF ListInv, ListShapes
<1>4. \A l : Linked(l)' = Linked(l) /\ \A n : Stored(n, l)' = Stored(n, l)
  BY <1>2, SameLinks
<1>5. maxHeight' \in 1 .. MaxHeight /\ maxHeight' >= maxHeight
  BY <1>1, <1>3
<1>6. ListShapes'
  BY <1>1, <1>2, <1>3, <1>5 DEF ListShapes
<1>7. LinksRight'
  BY <1>2, <1>3, <1>4 DEF LinksRight, LinkRight
<1>8. LinksOwned'
  BY <1>2, <1>3, <1>4 DEF LinksOwned
<1>9. \A l \in LinkLevels : key \notin Linked(l) /\ ~Stored(key, l)
  <2> SUFFICES ASSUME NEW l \in LinkLevels PROVE key \notin Linked(l) /\ ~Stored(key, l)
    OBVIOUS
  <2>1. 0 \in LinkLevels /\ 0 <= l
    OBVIOUS
  <2>2. Linked(l) \subseteq Linked(0)
    BY <2>1, <1>3 DEF LinksOwned
  <2>3. key \notin Linked(l)
    BY <2>2 DEF Inserted
  <2> QED BY <2>3, <1>2, <1>3 DEF LinksOwned
<1>10. ASSUME NEW i \in insertion' PROVE InsertionRight(i)'
  <2>1. i = [key |-> key, height |-> height, linked |-> 0,
             prev |-> [l \in 0 .. height - 1 |-> Previous(key, l)]]
    BY <1>1
  <2>2. i.key = key /\ i.height = height /\ i.linked = 0
    BY <2>1
  <2>3. \A l \in 0 .. height - 1 : i.prev[l] = Previous(key, l)
    BY <2>1
  <2>4. i = [key |-> i.key, height |-> i.height, linked |-> i.linked, prev |-> i.prev]
    BY <2>1
  <2>5. ASSUME NEW l \in 0 .. height - 1
        PROVE  /\ key \notin Linked(l) /\ ~Stored(key, l)
               /\ i.prev[l] \in Linked(l) \cup {HeadNode} /\ i.prev[l] < key
               /\ \A k \in Linked(l) : k < key => k <= i.prev[l]
    <3>1. l \in LinkLevels
      OBVIOUS
    <3> QED BY <3>1, <2>3, <1>3, <1>9, PreviousNode
  <2>6. 0 \in 0 .. height - 1
    OBVIOUS
  <2> QED BY <2>2, <2>4, <2>5, <2>6, <1>4 DEF InsertionRight
<1>11. ASSUME NEW r \in Readers PROVE SearchRight(search[r])'
  <2>1. SearchRight(search[r])
    BY DEF ListInv
  <2> QED BY <2>1, <1>2, <1>3, <1>4, <1>5, SearchKeeps
<1> QED BY <1>6, <1>7, <1>8, <1>10, <1>11 DEF ListInv

LEMMA LinkKeeps == ListInv /\ LinkNode => ListInv'
<1> SUFFICES ASSUME ListInv, LinkNode PROVE ListInv'
  OBVIOUS
<1> USE ListNumbers
<1>1. PICK i \in insertion :
             /\ insertion = {i} /\ i.linked \in LinkLevels /\ InsertionRight(i)
             /\ ~Stored(i.key, i.linked)
             /\ i.prev[i.linked] \in Nodes /\ i.prev[i.linked] # i.key
             /\ Stored(i.prev[i.linked], i.linked)
             /\ next' \in [Nodes -> [LinkLevels -> ListKeys \cup {NullNode, Garbage}]]
             /\ \A n \in Nodes, m \in LinkLevels :
                   next'[n][m] = IF n = i.key /\ m = i.linked
                                 THEN next[i.prev[i.linked]][i.linked] ELSE next[n][m]
             /\ \A m \in LinkLevels : Linked(m)' = Linked(m)
             /\ UNCHANGED <<maxHeight, insertion, search, done>>
  BY LinkMoves
<1>2. ListShapes /\ LinksRight /\ LinksOwned /\ maxHeight \in 1 .. MaxHeight
  BY DEF ListInv, ListShapes
<1>3. PICK l \in LinkLevels, p \in Nodes, key \in ListKeys :
        l = i.linked /\ p = i.prev[i.linked] /\ key = i.key
  BY <1>1 DEF InsertionRight
<1>4. \A n \in Nodes, m \in LinkLevels :
         next'[n][m] = IF n = key /\ m = l THEN next[p][l] ELSE next[n][m]
  BY <1>1, <1>3
<1>5. /\ p < key /\ Stored(p, l) /\ ~Stored(key, l) /\ key \notin Linked(l)
      /\ \A k \in Linked(l) : k < key => k <= p
  BY <1>1, <1>3 DEF InsertionRight
<1>6. key \in Nodes /\ ListKeys \subseteq Nodes
  BY DEF Nodes
<1>7. \A n \in Nodes, m \in LinkLevels : Stored(n, m)' <=> Stored(n, m) \/ (n = key /\ m = l)
  BY <1>4, <1>5 DEF Stored
<1>8. ListShapes'
  BY <1>1, <1>2 DEF ListShapes
<1>9. LinksRight'
  <2> SUFFICES ASSUME NEW n \in Nodes, NEW m \in LinkLevels PROVE LinkRight(n, m)'
    BY DEF LinksRight
  <2>1. LinkRight(n, m) /\ LinkRight(p, l)
    BY <1>2 DEF LinksRight
  <2>2. Linked(m)' = Linked(m) /\ Linked(m) \subseteq Nat
    BY <1>1 DEF Linked
  <2>3. CASE ~(n = key /\ m = l)
    <3>1. PICK t : t = next[n][m]
      OBVIOUS
    <3>2. next'[n][m] = t /\ (Stored(n, m)' <=> Stored(n, m))
      BY <1>4, <1>7, <2>3, <3>1
    <3>3. t \in ListKeys => t > n /\ Stored(t, m)'
      BY <2>1, <3>1, <1>6, <1>7 DEF LinkRight
    <3> QED BY <3>1, <3>2, <3>3, <2>1, <2>2 DEF LinkRight
  <2>4. CASE n = key /\ m = l
    <3>1. PICK t : t = next[p][l]
      OBVIOUS
    <3>2. next'[n][m] = t
      BY <1>4, <2>4, <3>1
    <3>3. ASSUME t \in ListKeys PROVE t > key /\ Stored(t, l)'
      <4>1. t > p /\ Stored(t, l)
        BY <2>1, <3>1, <3>3 DEF LinkRight
      <4>2. t \in Linked(l)
        BY <4>1, <3>1, <3>3 DEF Linked, Stored
      <4>3. t # key /\ ~(t < key)
        BY <4>1, <4>2, <1>5, <3>3
      <4>4. t > key
        BY <4>3, <3>3
      <4> QED BY <4>1, <4>4, <1>6, <1>7, <3>3
    <3>4. \A k \in Linked(l) : k > key => t # NullNode /\ t <= k
      <4> SUFFICES ASSUME NEW k \in Linked(l), k > key
                   PROVE  t # NullNode /\ t <= k
        OBVIOUS
      <4>1. k > p
        BY <1>5, <2>2, <2>4
      <4> QED BY <4>1, <1>5, <2>1, <3>1 DEF LinkRight
    <3> QED BY <3>2, <3>3, <3>4, <2>2, <2>4 DEF LinkRight
  <2> QED BY <2>3, <2>4
<1>10. LinksOwned'
  <2>1. \A m \in LinkLevels : Stored(HeadNode, m)'
    BY <1>2, <1>7 DEF LinksOwned, Nodes
  <2>2. ASSUME NEW n \in ListKeys, NEW m \in LinkLevels, Stored(n, m)'
        PROVE  n \in Linked(m)' \/ \E j \in insertion' : j.key = n /\ j.linked = m
    BY <2>2, <1>1, <1>2, <1>3, <1>6, <1>7 DEF LinksOwned
  <2>3. \A a, b \in LinkLevels : b <= a => Linked(a)' \subseteq Linked(b)'
    BY <1>1, <1>2 DEF LinksOwned
  <2> QED BY <2>1, <2>2, <2>3 DEF LinksOwned
<1>11. ASSUME NEW j \in insertion' PROVE InsertionRight(j)'
  <2>1. j = i
    BY <1>1
  <2>2. i.height \in 1 .. MaxHeight /\ l \in 0 .. i.height - 1
    BY <1>1, <1>3 DEF InsertionRight
  <2>3. \A m \in 0 .. l - 1 : key \in Linked(m)'
    <3> SUFFICES ASSUME NEW m \in 0 .. l - 1 PROVE key \in Linked(m)'
      OBVIOUS
    <3>1. m \in LinkLevels
      BY <2>2
    <3> QED BY <3>1, <1>1, <1>3 DEF InsertionRight
  <2>4. ASSUME NEW m \in l .. i.height - 1
        PROVE  /\ key \notin Linked(m)' /\ (m > l => ~Stored(key, m)')
               /\ i.prev[m] \in Linked(m)' \cup {HeadNode} /\ i.prev[m] < key
               /\ \A k \in Linked(m)' : k < key => k <= i.prev[m]
    <3>1. m \in LinkLevels /\ Linked(m)' = Linked(m)
      BY <2>2, <1>1
    <3>2. m > l => ~Stored(key, m)'
      BY <3>1, <1>1, <1>3, <1>6, <1>7 DEF InsertionRight
    <3> QED BY <3>1, <3>2, <1>1, <1>3 DEF InsertionRight
  <2>5. next'[key][l] = next'[p][l]
    BY <1>1, <1>3, <1>4, <1>6
  <2> QED BY <2>1, <2>2, <2>3, <2>4, <2>5, <1>1, <1>3 DEF InsertionRight
<1>12. ASSUME NEW r \in Readers PROVE SearchRight(search[r])'
  <2>1. SearchRight(search[r])
    BY DEF ListInv
  <2> QED BY <2>1, <1>1, <1>2, SearchKeeps
<1> QED BY <1>8, <1>9, <1>10, <1>11, <1>12 DEF ListInv

LEMMA PublishKeeps == ListInv /\ PublishNode => ListInv'
<1> SUFFICES ASSUME ListInv, PublishNode PROVE ListInv'
  OBVIOUS
<1> USE ListNumbers
<1>1. PICK i \in insertion :
             /\ insertion = {i} /\ i.linked \in LinkLevels /\ InsertionRight(i)
             /\ Stored(i.key, i.linked)
             /\ i.prev[i.linked] \in Nodes /\ i.prev[i.linked] # i.key
             /\ Stored(i.prev[i.linked], i.linked)
             /\ next' \in [Nodes -> [LinkLevels -> ListKeys \cup {NullNode, Garbage}]]
             /\ \A n \in Nodes, m \in LinkLevels :
                   next'[n][m] = IF n = i.prev[i.linked] /\ m = i.linked
                                 THEN i.key ELSE next[n][m]
             /\ \A m \in LinkLevels :
                   Linked(m)' = IF m = i.linked THEN Linked(m) \cup {i.key} ELSE Linked(m)
             /\ insertion' = IF i.linked + 1 = i.height THEN {}
                             ELSE {[i EXCEPT !.linked = @ + 1]}
             /\ UNCHANGED <<maxHeight, search, done>>
  BY PublishMoves
<1>2. ListShapes /\ LinksRight /\ LinksOwned /\ maxHeight \in 1 .. MaxHeight
  BY DEF ListInv, ListShapes
<1>3. PICK l \in LinkLevels, p \in Nodes, key \in ListKeys :
        l = i.linked /\ p = i.prev[i.linked] /\ key = i.key
  BY <1>1 DEF InsertionRight
<1>4. \A n \in Nodes, m \in LinkLevels :
         next'[n][m] = IF n = p /\ m = l THEN key ELSE next[n][m]
  BY <1>1, <1>3
<1>5. /\ p < key /\ Stored(p, l) /\ Stored(key, l) /\ key \notin Linked(l)
      /\ p \in Linked(l) \cup {HeadNode}
      /\ \A k \in Linked(l) : k < key => k <= p
  BY <1>1, <1>3 DEF InsertionRight
<1>6. key \in Nodes /\ ListKeys \subseteq Nodes
  BY DEF Nodes
<1>7. ASSUME NEW n \in Nodes, NEW m \in LinkLevels PROVE Stored(n, m)' <=> Stored(n, m)
  <2>1. CASE n = p /\ m = l
    <3>1. next'[n][m] = key /\ key # Garbage
      BY <1>4, <2>1
    <3> QED BY <1>5, <2>1, <3>1 DEF Stored
  <2>2. CASE ~(n = p /\ m = l)
    <3>1. next'[n][m] = next[n][m]
      BY <1>4, <2>2
    <3> QED BY <3>1 DEF Stored
  <2> QED BY <2>1, <2>2
<1>8. \A m \in LinkLevels : Linked(m)' = IF m = l THEN Linked(m) \cup {key} ELSE Linked(m)
  BY <1>1, <1>3
<1>9. ListShapes'
  BY <1>1, <1>2 DEF ListShapes
<1>10. LinksRight'
  <2> SUFFICES ASSUME NEW n \in Nodes, NEW m \in LinkLevels PROVE LinkRight(n, m)'
    BY DEF LinksRight
  <2>1. LinkRight(n, m)
    BY <1>2 DEF LinksRight
  <2>2. Linked(m) \subseteq Nat
    BY DEF Linked
  <2>3. CASE n = p /\ m = l
    <3>1. next'[n][m] = key
      BY <1>4, <2>3
    <3>2. key > n /\ Stored(key, m)'
      BY <1>5, <1>6, <1>7, <2>3
    <3>3. ASSUME NEW k \in Linked(m)', k > n PROVE key # NullNode /\ key <= k
      <4>1. k = key \/ k \in Linked(l)
        BY <3>3, <1>8, <2>3
      <4>2. CASE k = key
        BY <4>2
      <4>3. CASE k \in Linked(l)
        <5>1. ~(k <= p) /\ k \in Nat
          BY <4>3, <3>3, <2>2, <2>3
        <5>2. ~(k < key)
          BY <5>1, <4>3, <1>5
        <5> QED BY <5>1, <5>2
      <4> QED BY <4>1, <4>2, <4>3
    <3> QED BY <3>1, <3>2, <3>3 DEF LinkRight
  <2>4. CASE ~(n = p /\ m = l)
    <3>1. PICK t : t = next[n][m]
      OBVIOUS
    <3>2. next'[n][m] = t /\ (Stored(n, m)' <=> Stored(n, m))
      BY <1>4, <1>7, <2>4, <3>1
    <3>3. t \in ListKeys => t > n /\ Stored(t, m)'
      BY <2>1, <3>1, <1>6, <1>7 DEF LinkRight
    <3>4. ASSUME m = l, Stored(n, m), key > n PROVE t # NullNode /\ t <= key
      <4>1. n \in Linked(l) \/ n = HeadNode
        <5>1. n \in Linked(l) \/ n = HeadNode \/ n = key
          BY <3>4, <1>1, <1>2, <1>3 DEF LinksOwned, Nodes
        <5> QED BY <5>1, <3>4
      <4>2. n <= p
        <5>1. CASE n \in Linked(l)
          BY <5>1, <3>4, <1>5
        <5>2. CASE n = HeadNode
          BY <5>2
        <5> QED BY <4>1, <5>1, <5>2
      <4>3. p > n
        BY <4>2, <2>4, <3>4
      <4>4. p \in Linked(m)
        BY <4>3, <1>5, <3>4
      <4>5. t # NullNode /\ t <= p
        BY <4>3, <4>4, <2>1, <3>1, <3>4 DEF LinkRight
      <4>6. t \in ListKeys
        <5>1. t \in ListKeys \cup {NullNode, Garbage}
          <6>1. next \in [Nodes -> [LinkLevels -> ListKeys \cup {NullNode, Garbage}]]
            BY <1>2 DEF ListShapes
          <6> QED BY <6>1, <3>1
        <5>2. t # Garbage
          BY <3>1, <3>4 DEF Stored
        <5> QED BY <5>1, <5>2, <4>5
      <4> QED BY <4>5, <4>6, <1>5
    <3>5. ASSUME NEW k \in Linked(m)', Stored(n, m), k > n PROVE t # NullNode /\ t <= k
      <4>1. CASE k \in Linked(m)
        BY <4>1, <2>1, <3>1, <3>5 DEF LinkRight
      <4>2. CASE m = l /\ k = key
        BY <4>2, <3>4, <3>5
      <4> QED BY <4>1, <4>2, <1>8
    <3> QED BY <3>2, <3>3, <3>5 DEF LinkRight
  <2> QED BY <2>3, <2>4
<1>11. LinksOwned'
  <2>1. \A m \in LinkLevels : Stored(HeadNode, m)'
    BY <1>2, <1>7 DEF LinksOwned, Nodes
  <2>2. ASSUME NEW n \in ListKeys, NEW m \in LinkLevels, Stored(n, m)'
        PROVE  n \in Linked(m)'
    BY <2>2, <1>1, <1>2, <1>3, <1>6, <1>7, <1>8 DEF LinksOwned
  <2>3. ASSUME NEW a \in LinkLevels, NEW b \in LinkLevels, b <= a
        PROVE  Linked(a)' \subseteq Linked(b)'
    <3>1. Linked(a) \subseteq Linked(b)
      BY <2>3, <1>2 DEF LinksOwned
    <3>2. a = l => key \in Linked(b)'
      <4>1. CASE b = l
        BY <4>1, <1>8
      <4>2. CASE a = l /\ b # l
        <5>1. b \in 0 .. l - 1
          BY <4>2, <2>3
        <5>2. key \in Linked(b)
          BY <5>1, <1>1, <1>3 DEF InsertionRight
        <5> QED BY <5>2, <1>8
      <4> QED BY <4>1, <4>2
    <3> QED BY <3>1, <3>2, <1>8
  <2> QED BY <2>1, <2>2, <2>3 DEF LinksOwned
<1>12. ASSUME NEW j \in insertion' PROVE InsertionRight(j)'
  <2>1. l + 1 # i.height /\ j = [i EXCEPT !.linked = l + 1]
    BY <1>1, <1>3, <1>12
  <2>2. i.height \in 1 .. MaxHeight /\ l \in 0 .. i.height - 1
    BY <1>1, <1>3 DEF InsertionRight
  <2>3. i = [key |-> i.key, height |-> i.height, linked |-> i.linked, prev |-> i.prev]
    BY <1>1 DEF InsertionRight
  <2>4. j = [key |-> i.key, height |-> i.height, linked |-> l + 1, prev |-> i.prev]
    BY <2>1, <2>3
  <2>5. j.key = key /\ j.height = i.height /\ j.linked = l + 1 /\ j.prev = i.prev
    BY <2>4, <1>3
  <2>6. ASSUME NEW m \in 0 .. l PROVE key \in Linked(m)'
    <3>1. m \in LinkLevels
      BY <2>2
    <3>2. CASE m = l
      BY <3>1, <3>2, <1>8
    <3>3. CASE m # l
      <4>1. m \in 0 .. l - 1
        BY <3>3
      <4> QED BY <4>1, <3>1, <1>1, <1>3, <1>8 DEF InsertionRight
    <3> QED BY <3>2, <3>3
  <2>7. ASSUME NEW m \in l + 1 .. i.height - 1
        PROVE  /\ key \notin Linked(m)' /\ ~Stored(key, m)'
               /\ i.prev[m] \in Linked(m)' \cup {HeadNode} /\ i.prev[m] < key
               /\ \A k \in Linked(m)' : k < key => k <= i.prev[m]
    <3>1. m \in LinkLevels /\ m # l /\ m > l /\ m \in l .. i.height - 1
      BY <2>2
    <3>2. Linked(m)' = Linked(m)
      BY <3>1, <1>8
    <3>3. ~Stored(key, m)'
      BY <3>1, <1>1, <1>3, <1>6, <1>7 DEF InsertionRight
    <3> QED BY <3>1, <3>2, <3>3, <1>1, <1>3 DEF InsertionRight
  <2>8. l + 1 \in 0 .. i.height - 1
    BY <2>1, <2>2
  <2>9. ~Stored(key, l + 1)'
    BY <2>7, <2>8
  <2>10. 0 .. (l + 1) - 1 = 0 .. l
    OBVIOUS
  <2> QED BY <2>2, <2>4, <2>5, <2>6, <2>7, <2>8, <2>9, <2>10 DEF InsertionRight
<1>13. ASSUME NEW r \in Readers PROVE SearchRight(search[r])'
  <2>1. SearchRight(search[r])
    BY DEF ListInv
  <2>2. \A m \in LinkLevels : Linked(m) \subseteq Linked(m)'
    BY <1>8
  <2> QED BY <2>1, <2>2, <1>1, <1>2, SearchKeeps
<1>14. \A r \in Readers : SearchRight(search[r])'
  BY <1>13
<1> QED BY <1>9, <1>10, <1>11, <1>12, <1>14 DEF ListInv

\* What a reader does leaves the lists alone and concerns itself only.
LEMMA ReaderKeeps ==
    ASSUME ListInv, NEW r \in Readers, UNCHANGED <<next, maxHeight, insertion>>,
           NEW s, search' = [search EXCEPT ![r] = s],
           s \in SearchShape,
           SearchRight(s)
    PROVE  ListInv'
<1>1. ListShapes /\ LinksRight /\ LinksOwned
  BY DEF ListInv
<1>2. \A l : Linked(l)' = Linked(l) /\ \A n : Stored(n, l)' = Stored(n, l)
  BY SameLinks
<1>3. ListShapes'
  <2>1. search' \in [Readers -> SearchShape]
    <3>1. search \in [Readers -> SearchShape]
      BY <1>1 DEF ListShapes
    <3> QED BY <3>1
  <2> QED BY <2>1, <1>1 DEF ListShapes
<1>4. LinksRight' /\ LinksOwned'
  BY <1>1, <1>2 DEF LinksRight, LinkRight, LinksOwned
<1>5. ASSUME NEW i \in insertion' PROVE InsertionRight(i)'
  BY <1>2 DEF InsertionRight, ListInv
<1>6. SearchRight(s)'
  BY <1>2 DEF SearchRight, Inserted
<1>7. ASSUME NEW q \in Readers PROVE SearchRight(search[q])'
  <2>1. CASE q = r
    <3>1. search'[q] = s
      BY <2>1, <1>1 DEF ListShapes
    <3> QED BY <3>1, <1>6 DEF SearchRight
  <2>2. CASE q # r
    <3>1. search'[q] = search[q] /\ SearchRight(search[q])
      BY <2>2, <1>1 DEF ListShapes, ListInv
    <3> QED BY <3>1, <1>2 DEF SearchRight, Inserted
  <2> QED BY <2>1, <2>2
<1> QED BY <1>3, <1>4, <1>5, <1>7 DEF ListInv

LEMMA StartKeeps ==
    ASSUME ListInv, NEW r \in Readers, StartSearch(r)
    PROVE  ListInv'
<1> USE ListNumbers
<1>1. PICK kind \in {"greaterOrEqual", "lessThan", "last"}, key \in ListKeys,
           height \in 1 .. maxHeight :
        search' = [search EXCEPT ![r] =
                      [kind |-> kind, key |-> IF kind = "last" THEN 0 ELSE key, at |-> HeadNode,
                       level |-> height - 1, result |-> NullNode, before |-> Inserted]]
  BY DEF StartSearch
<1>2. PICK s : s = [kind |-> kind, key |-> IF kind = "last" THEN 0 ELSE key, at |-> HeadNode,
                    level |-> height - 1, result |-> NullNode, before |-> Inserted]
  OBVIOUS
<1>3. maxHeight \in 1 .. MaxHeight /\ height \in Nat
  BY DEF ListInv, ListShapes
<1>4. s \in SearchShape
  BY <1>2, <1>3 DEF SearchShape, SearchKinds, Nodes, Inserted, Linked
<1>5. SearchRight(s)
  BY <1>2, <1>3 DEF SearchRight
<1>6. UNCHANGED <<next, maxHeight, insertion>>
  BY DEF StartSearch
<1> QED BY <1>1, <1>2, <1>4, <1>5, <1>6, ReaderKeeps

LEMMA EndKeeps ==
    ASSUME ListInv, NEW r \in Readers, EndSearch(r)
    PROVE  ListInv'
<1> USE ListNumbers
<1>1. PICK s : s = NoSearch
  OBVIOUS
<1>2. s \in SearchShape
  BY <1>1 DEF SearchShape, SearchKinds, Nodes, NoSearch
<1>3. maxHeight \in 1 .. MaxHeight
  BY DEF ListInv, ListShapes
<1>4. SearchRight(s)
  BY <1>1, <1>3 DEF SearchRight, NoSearch
<1>5. UNCHANGED <<next, maxHeight, insertion>> /\ search' = [search EXCEPT ![r] = s]
  BY <1>1 DEF EndSearch
<1> QED BY <1>2, <1>4, <1>5, ReaderKeeps

\* The three ways a turn of the loop ends; the last is where no node that was
\* there at the start can lie between the reader and its answer.
LEMMA WalkKeeps ==
    ASSUME ListInv, NEW r \in Readers, Walk(r)
    PROVE  ListInv'
<1> USE ListNumbers
<1>1. PICK s : s = search[r]
  OBVIOUS
<1>2. PICK n : n = next[s.at][s.level]
  OBVIOUS
<1>3. /\ s.kind # "idle" /\ s.level >= 0
      /\ UNCHANGED <<next, maxHeight, insertion>>
      /\ search' = [search EXCEPT ![r] =
             CASE Advances(s, n) -> [s EXCEPT !.at = n]
               [] ~Advances(s, n) /\ s.level > 0 -> [s EXCEPT !.level = @ - 1]
               [] OTHER -> [s EXCEPT !.result = IF s.kind = "greaterOrEqual" THEN n ELSE s.at,
                                     !.level = -1]]
  BY <1>1, <1>2 DEF Walk
<1>4. ListShapes /\ LinksRight /\ LinksOwned /\ maxHeight \in 1 .. MaxHeight /\ SearchRight(s)
  BY <1>1 DEF ListInv, ListShapes
<1>5. s \in SearchShape
  BY <1>1, <1>4 DEF ListShapes, SearchShape
<1>6. PICK a \in Nodes, l \in Int, key \in Nat, kind \in {"greaterOrEqual", "lessThan", "last"},
           old \in SUBSET ListKeys :
        a = s.at /\ l = s.level /\ key = s.key /\ kind = s.kind /\ old = s.before
  BY <1>3, <1>5 DEF SearchShape, SearchKinds
<1>7. /\ l \in LinkLevels /\ l \in 0 .. maxHeight - 1 /\ a \in Linked(l) \cup {HeadNode}
      /\ old \subseteq Inserted /\ (kind # "last" => a < key)
  BY <1>3, <1>4, <1>6 DEF SearchRight
<1>8. Stored(a, l) /\ n = next[a][l]
  BY <1>2, <1>4, <1>6, <1>7 DEF Linked, Stored, LinksOwned
<1>9. n \in ListKeys \cup {NullNode}
  <2>1. next \in [Nodes -> [LinkLevels -> ListKeys \cup {NullNode, Garbage}]]
    BY <1>4 DEF ListShapes
  <2>2. next[a] \in [LinkLevels -> ListKeys \cup {NullNode, Garbage}]
    BY <2>1
  <2>3. next[a][l] \in ListKeys \cup {NullNode, Garbage}
    BY <2>2, <1>7
  <2> QED BY <2>3, <1>8 DEF Stored
<1>10. LinkRight(a, l)
  BY <1>4, <1>7 DEF LinksRight
<1>11. n \in ListKeys => n \in Linked(l)
  BY <1>8, <1>10 DEF LinkRight, Linked, Stored
<1>12. \A k \in Linked(l) : k > a => n # NullNode /\ n <= k
  BY <1>8, <1>10 DEF LinkRight
<1>13. CASE Advances(s, n)
  <2>1. PICK t : t = [s EXCEPT !.at = n]
    OBVIOUS
  <2>2. n \in ListKeys /\ n \in Nodes /\ n \in Linked(l)
    BY <1>9, <1>11, <1>13 DEF Advances, Nodes
  <2>3. /\ t \in SearchShape /\ t.kind = kind /\ t.key = key /\ t.at = n
        /\ t.level = l /\ t.before = old
    BY <2>1, <2>2, <1>5, <1>6 DEF SearchShape
  <2>4. kind \in {"greaterOrEqual", "lessThan"} => n < key
    BY <1>6, <1>13 DEF Advances
  <2>5. SearchRight(t)
    <3>1. l \in -1 .. maxHeight - 1 /\ l # -1
      BY <1>4, <1>7
    <3> QED BY <2>2, <2>3, <2>4, <3>1, <1>7 DEF SearchRight
  <2>6. search' = [search EXCEPT ![r] = t]
    BY <1>3, <1>13, <2>1
  <2> QED BY <2>3, <2>5, <2>6, <1>3, ReaderKeeps
<1>14. CASE ~Advances(s, n) /\ s.level > 0
  <2>1. PICK t : t = [s EXCEPT !.level = l - 1]
    OBVIOUS
  <2>2. l - 1 \in LinkLevels /\ l - 1 <= l /\ l - 1 \in 0 .. maxHeight - 1
    BY <1>4, <1>6, <1>7, <1>14
  <2>3. /\ t \in SearchShape /\ t.kind = kind /\ t.key = key /\ t.at = a
        /\ t.level = l - 1 /\ t.before = old
    BY <2>1, <2>2, <1>5, <1>6 DEF SearchShape
  <2>4. a \in Linked(l - 1) \cup {HeadNode}
    BY <2>2, <1>4, <1>7 DEF LinksOwned
  <2>5. SearchRight(t)
    <3>1. l - 1 \in -1 .. maxHeight - 1 /\ l - 1 # -1
      BY <2>2, <1>4
    <3> QED BY <2>3, <2>4, <3>1, <1>7 DEF SearchRight
  <2>6. search' = [search EXCEPT ![r] = t]
    BY <1>3, <1>6, <1>14, <2>1
  <2> QED BY <2>3, <2>5, <2>6, <1>3, ReaderKeeps
<1>15. CASE ~Advances(s, n) /\ ~(s.level > 0)
  <2>1. PICK answer \in Nodes \cup {NullNode} :
          answer = IF kind = "greaterOrEqual" THEN n ELSE a
    BY <1>9 DEF Nodes
  <2>2. PICK t : t = [s EXCEPT !.result = answer, !.level = -1]
    OBVIOUS
  <2>3. l = 0 /\ Linked(l) = Inserted
    BY <1>6, <1>7, <1>15 DEF Inserted
  <2>4. /\ t \in SearchShape /\ t.kind = kind /\ t.key = key /\ t.at = a
        /\ t.level = -1 /\ t.before = old /\ t.result = answer
    <3>1. -1 \in Int
      OBVIOUS
    <3>2. t \in SearchShape
      BY <2>2, <3>1, <1>5 DEF SearchShape
    <3>3. t.kind = s.kind /\ t.key = s.key /\ t.at = s.at /\ t.before = s.before
      BY <2>2, <1>5 DEF SearchShape
    <3>4. t.level = -1 /\ t.result = answer
      BY <2>2, <1>5 DEF SearchShape
    <3> QED BY <3>2, <3>3, <3>4, <1>6
  <2>5. \A k \in old : k \in Nat /\ (k > a => n # NullNode /\ n <= k)
    BY <2>3, <1>7, <1>12
  <2>6. n = NullNode \/ (n \in Inserted /\ n \in Nat /\ kind # "last" /\ n >= key)
    <3>1. n # NullNode => n \in ListKeys /\ n \in Linked(l)
      BY <1>9, <1>11
    <3>2. n = NullNode \/ (kind # "last" /\ ~(n < key))
      BY <1>6, <1>15 DEF Advances
    <3>3. ASSUME n # NullNode PROVE n \in Inserted /\ n \in Nat /\ kind # "last" /\ n >= key
      <4>1. n \in ListKeys /\ n \in Inserted /\ n \in Nat
        BY <3>1, <3>3, <2>3
      <4>2. kind # "last" /\ ~(n < key)
        BY <3>2, <3>3
      <4>3. n >= key
        BY <4>1, <4>2
      <4> QED BY <4>1, <4>2, <4>3
    <3> QED BY <3>3
  <2>7. ASSUME kind = "greaterOrEqual", NEW k \in old, k >= key
        PROVE  n # NullNode /\ n <= k
    <3>1. k > a
      BY <2>5, <2>7, <1>7
    <3> QED BY <3>1, <2>5
  <2>8. ASSUME kind = "lessThan", NEW k \in old, k < key PROVE a >= k
    <3>1. ASSUME k > a PROVE FALSE
      BY <3>1, <2>5, <2>6, <2>8
    <3> QED BY <3>1, <2>5
  <2>9. ASSUME kind = "last", NEW k \in old PROVE a >= k
    <3>1. ASSUME k > a PROVE FALSE
      BY <3>1, <2>5, <2>6, <2>9
    <3> QED BY <3>1, <2>5
  <2>10. SearchRight(t)
    <3>1. t.kind # "idle" /\ t.level \in -1 .. maxHeight - 1 /\ ~(t.level >= 0)
      BY <2>4, <1>4
    <3>2. t.kind \in {"greaterOrEqual", "lessThan"} => t.at < t.key
      BY <2>4, <1>7
    <3>3. t.kind = "greaterOrEqual" =>
             /\ t.result \in Inserted \cup {NullNode}
             /\ t.result # NullNode => t.result >= t.key
             /\ \A k \in t.before : k >= t.key => t.result # NullNode /\ t.result <= k
      BY <2>1, <2>4, <2>6, <2>7
    <3>4. t.kind = "lessThan" =>
             /\ t.result \in Inserted \cup {HeadNode}
             /\ t.result < t.key
             /\ \A k \in t.before : k < t.key => t.result >= k
      BY <2>1, <2>3, <2>4, <2>8, <1>7
    <3>5. t.kind = "last" =>
             /\ t.result \in Inserted \cup {HeadNode}
             /\ \A k \in t.before : t.result >= k
      BY <2>1, <2>3, <2>4, <2>9, <1>7
    <3>6. t.before \subseteq Inserted
      BY <2>4, <1>7
    <3> QED BY <3>1, <3>2, <3>3, <3>4, <3>5, <3>6 DEF SearchRight
  <2>11. search' = [search EXCEPT ![r] = t]
    BY <1>3, <1>6, <1>15, <2>1, <2>2
  <2> QED BY <2>4, <2>10, <2>11, <1>3, ReaderKeeps
<1> QED BY <1>13, <1>14, <1>15

LEMMA ListStep == ListInv /\ [ListNext]_listVars => ListInv'
<1> SUFFICES ASSUME ListInv, [ListNext]_listVars PROVE ListInv'
  OBVIOUS
<1>1. CASE InsertNode
  BY <1>1, InsertKeeps
<1>2. CASE LinkNode
  BY <1>2, LinkKeeps
<1>3. CASE PublishNode
  BY <1>3, PublishKeeps
<1>4. ASSUME NEW r \in Readers, StartSearch(r) PROVE ListInv'
  BY <1>4, StartKeeps
<1>5. ASSUME NEW r \in Readers, Walk(r) PROVE ListInv'
  BY <1>5, WalkKeeps
<1>6. ASSUME NEW r \in Readers, EndSearch(r) PROVE ListInv'
  BY <1>6, EndKeeps
<1>7. CASE UNCHANGED listVars
  <2>1. next' = next /\ maxHeight' = maxHeight /\ insertion' = insertion /\ search' = search
    BY <1>7 DEF listVars
  <2>2. \A l : Linked(l)' = Linked(l) /\ \A n : Stored(n, l)' = Stored(n, l)
    BY <2>1, SameLinks
  <2>3. ListShapes' /\ LinksRight' /\ LinksOwned'
    BY <2>1, <2>2 DEF ListInv, ListShapes, LinksRight, LinkRight, LinksOwned
  <2>4. ASSUME NEW i \in insertion' PROVE InsertionRight(i)'
    BY <2>1, <2>2 DEF InsertionRight, ListInv
  <2>5. ASSUME NEW r \in Readers PROVE SearchRight(search[r])'
    BY <2>1, <2>2 DEF SearchRight, Inserted, ListInv
  <2> QED BY <2>3, <2>4, <2>5 DEF ListInv
<1> QED BY <1>1, <1>2, <1>3, <1>4, <1>5, <1>6, <1>7 DEF ListNext

LEMMA ListInvSuffices == ListInv => ListConsistent
<1> SUFFICES ASSUME ListInv PROVE ListConsistent
  OBVIOUS
<1> USE ListNumbers
<1>1. ListShapes /\ LinksRight /\ LinksOwned /\ maxHeight \in 1 .. MaxHeight
  BY DEF ListInv, ListShapes
<1>2. ListTypeOK
  <2>1. next \in [Nodes -> [LinkLevels -> ListKeys \cup {NullNode, Garbage}]]
    BY <1>1 DEF ListShapes
  <2>2. Cardinality(insertion) <= 1
    <3>1. CASE insertion = {}
      BY <3>1, FS_EmptySet
    <3>2. CASE \E i : insertion = {i}
      BY <3>2, FS_Singleton
    <3> QED BY <1>1, <3>1, <3>2 DEF ListShapes
  <2>3. ASSUME NEW r \in Readers
        PROVE  /\ search[r].level \in -1 .. maxHeight - 1 /\ search[r].at \in Nodes
               /\ search[r].level >= 0 => next[search[r].at][search[r].level] # Garbage
    <3>1. PICK s : s = search[r]
      OBVIOUS
    <3>2. SearchRight(s) /\ s.at \in Nodes
      BY <3>1, <1>1 DEF ListInv, ListShapes, SearchShape
    <3>3. s.level \in -1 .. maxHeight - 1
      BY <3>2 DEF SearchRight
    <3>4. s.level >= 0 => next[s.at][s.level] # Garbage
      <4> SUFFICES ASSUME s.level >= 0 PROVE next[s.at][s.level] # Garbage
        OBVIOUS
      <4>1. s.level \in LinkLevels /\ s.at \in Linked(s.level) \cup {HeadNode}
        BY <3>2, <3>3, <1>1 DEF SearchRight
      <4> QED BY <4>1, <1>1 DEF Linked, LinksOwned, Stored
    <3> QED BY <3>1, <3>2, <3>3, <3>4
  <2> QED BY <2>1, <2>2, <2>3, <1>1 DEF ListTypeOK
<1>3. ListsInOrder
  <2> SUFFICES ASSUME NEW l \in LinkLevels
               PROVE  /\ \A n \in Linked(l) \cup {HeadNode} : next[n][l] = NullNode \/ next[n][l] > n
                      /\ l > 0 => Linked(l) \subseteq Linked(l - 1)
    BY DEF ListsInOrder
  <2>1. ASSUME NEW n \in Linked(l) \cup {HeadNode} PROVE next[n][l] = NullNode \/ next[n][l] > n
    <3>1. n \in Nodes /\ Stored(n, l)
      BY <1>1 DEF Linked, LinksOwned, Stored, Nodes
    <3>2. LinkRight(n, l)
      BY <3>1, <1>1 DEF LinksRight
    <3>3. next[n][l] \in ListKeys \cup {NullNode}
      <4>1. next \in [Nodes -> [LinkLevels -> ListKeys \cup {NullNode, Garbage}]]
        BY <1>1 DEF ListShapes
      <4> QED BY <4>1, <3>1 DEF Stored
    <3> QED BY <3>2, <3>3 DEF LinkRight
  <2>2. l > 0 => Linked(l) \subseteq Linked(l - 1)
    <3> SUFFICES ASSUME l > 0 PROVE Linked(l) \subseteq Linked(l - 1)
      OBVIOUS
    <3>1. l - 1 \in LinkLevels /\ l - 1 <= l
      OBVIOUS
    <3> QED BY <3>1, <1>1 DEF LinksOwned
  <2> QED BY <2>1, <2>2
<1>4. SearchesRight
  <2> SUFFICES ASSUME NEW r \in Readers, search[r].level = -1
               PROVE  CASE search[r].kind = "greaterOrEqual" ->
                             /\ search[r].result \in Inserted \cup {NullNode}
                             /\ search[r].result # NullNode => search[r].result >= search[r].key
                             /\ \A k \in search[r].before : k >= search[r].key =>
                                   search[r].result # NullNode /\ search[r].result <= k
                        [] search[r].kind = "lessThan" ->
                             /\ search[r].result \in Inserted \cup {HeadNode}
                             /\ search[r].result < search[r].key
                             /\ \A k \in search[r].before : k < search[r].key => search[r].result >= k
                        [] OTHER -> /\ search[r].result \in Inserted \cup {HeadNode}
                                    /\ \A k \in search[r].before : search[r].result >= k
    BY DEF SearchesRight
  <2>1. SearchRight(search[r])
    BY DEF ListInv
  <2>2. search[r].kind \in SearchKinds
    BY <1>1 DEF ListShapes, SearchShape
  <2>3. search[r].kind # "idle"
    BY <2>1 DEF SearchRight, NoSearch
  <2>4. CASE search[r].kind = "greaterOrEqual"
    BY <2>1, <2>4 DEF SearchRight
  <2>5. CASE search[r].kind = "lessThan"
    BY <2>1, <2>5 DEF SearchRight
  <2>6. CASE search[r].kind = "last"
    BY <2>1, <2>6 DEF SearchRight
  <2> QED BY <2>2, <2>3, <2>4, <2>5, <2>6 DEF SearchKinds
<1> QED BY <1>2, <1>3, <1>4 DEF ListConsistent

\* For any keys, heights and readers: between any two stores of an insertion
\* (Insert, skiplist.h) the list of every level is in order and part of the one
\* below, no reader meets a link that has not been stored, and what
\* FindGreaterOrEqual, FindLessThan and FindLast return is right for what was in
\* the list when they began.
THEOREM ListStaysConsistent == ListSpec => []ListConsistent
<1>1. ListInit => ListInv
  BY ListInitially
<1>2. ListInv /\ [ListNext]_listVars => ListInv'
  BY ListStep
<1>3. ListInv => ListConsistent
  BY ListInvSuffices
<1> QED BY <1>1, <1>2, <1>3, PTL DEF ListSpec

-----------------------------------------------------------------------------
(* The iterator: what holds of it between any two steps.                   *)


Entries == [key : UserKeys, seq : 1 .. Snapshot + MaxInserts, type : Types]

\* What the snapshot sees.
Seen == {x \in UNION {children[c] : c \in Child} : x.seq <= Snapshot}

\* Sequence numbers are used once, in one child.
ChildrenGood ==
    /\ children \in [Child -> SUBSET Entries]
    /\ inserted \in 0 .. MaxInserts
    /\ \A c \in Child : \A x \in children[c] : x.seq <= Snapshot + inserted
    /\ \A c, d \in Child : \A x \in children[c], y \in children[d] :
          x.seq = y.seq => c = d /\ x = y

\* Both directions at once: a comes before b on the way.
Directions == {"forward", "reverse"}
Less(dir, a, b) == IF dir = "forward" THEN EntryLess(a, b) ELSE EntryLess(b, a)
UpTo(dir, a, b) == a = b \/ Less(dir, a, b)

\* The entries that a merging iterator has not passed.
Ahead(m, dir, x) == Valid(m) /\ UpTo(dir, Entry(m), x)

\* The merging iterator stands on an entry of one child, and the other children
\* on the first entry from there on; an entry that came later than the position
\* of its child is not one that the snapshot sees.
MergeGood(m) ==
    /\ m = [pos |-> m.pos, current |-> m.current, direction |-> m.direction]
    /\ m.direction \in Directions /\ m.current \in Child \cup {NoChild}
    /\ m.pos \in [Child -> Entries \cup {NoEntry}]
    /\ \A c \in Child : m.pos[c] \in children[c] \cup {NoEntry}
    /\ ~Valid(m) => \A c \in Child : m.pos[c] = NoEntry
    /\ Valid(m) =>
          /\ Entry(m) # NoEntry
          /\ \A c \in Child : m.pos[c] # NoEntry => UpTo(m.direction, Entry(m), m.pos[c])
          /\ \A c \in Child : \A x \in children[c] :
                x.seq <= Snapshot /\ Less(m.direction, Entry(m), x)
                    => m.pos[c] # NoEntry /\ UpTo(m.direction, m.pos[c], x)

\* The keys that the operation which runs asks for, and the entries that answer
\* it: the newest of their key that the snapshot sees, and values.
Eligible ==
    {k \in UserKeys : /\ call.op = "seek" => k >= call.key
                      /\ call.op = "next" => k > shown.key
                      /\ call.op = "prev" => k < shown.key}

Newest(x) == x \in Seen /\ \A y \in Seen : y.key = x.key => UpTo("forward", x, y)

Answers == {x \in Seen : Newest(x) /\ x.type = "value" /\ x.key \in Eligible}

IterShapes ==
    /\ direction \in Directions /\ savedKey \in 0 .. MaxUserKey /\ savedValue \in 0 .. Snapshot
    /\ shown \in [key : 0 .. MaxUserKey, value : 0 .. Snapshot]
    /\ loop \in [name : {"none", "next", "prev", "switch"}, skipping : BOOLEAN, type : Types]
    /\ loop.name = "none" => loop = NoLoop
    /\ loop.name # "none" => call \in Cursor!Operations

\* FindNextUserEntry: no answer has been passed or is skipped, and what is not
\* skipped is eligible and the first of its key.
NextRight ==
    /\ direction = "forward" /\ call.op \in {"first", "seek", "next"}
    /\ \A x \in Answers : Ahead(merge, "forward", x) /\ ~(loop.skipping /\ x.key <= savedKey)
    /\ \A x \in Seen :
          Ahead(merge, "forward", x) /\ ~(loop.skipping /\ x.key <= savedKey)
              => x.key \in Eligible /\ \A y \in Seen : y.key = x.key => Ahead(merge, "forward", y)
    /\ \A x \in Seen : Ahead(merge, "forward", x) /\ loop.skipping => x.key >= savedKey

\* Prev, on the way back to the first entry of the key it is on.
SwitchRight ==
    /\ direction = "forward" /\ call.op = "prev" /\ Valid(merge)
    /\ savedKey = shown.key
    /\ \A x \in Seen : x.key < savedKey => Less("reverse", Entry(merge), x)

\* The value that FindPrevUserEntry has found: nothing the snapshot sees is
\* between it and the position, and no answer is beyond its key.
Saved(s) ==
    /\ s.key = savedKey /\ s.seq = savedValue /\ s.type = "value" /\ s.key \in Eligible
    /\ \A x \in Seen : Less("reverse", s, x) => Ahead(merge, "reverse", x)
    /\ Valid(merge) => Less("reverse", s, Entry(merge))
    /\ \A x \in Answers : x.key <= savedKey

\* FindPrevUserEntry: while nothing is found no answer has been passed.
PrevRight ==
    /\ direction = "reverse" /\ call.op \in {"last", "prev"}
    /\ \A x \in Seen : Ahead(merge, "reverse", x) => x.key \in Eligible
    /\ loop.type = "deletion" => \A x \in Answers : Ahead(merge, "reverse", x)
    /\ loop.type = "value" => \E s \in Seen : Saved(s)

\* Between two operations: forward, the merging iterator stands on what is
\* shown; in reverse, before every entry of its key, and it has passed no
\* earlier key.
IdleRight ==
    shown.key # 0 =>
        /\ direction = "forward" =>
              Valid(merge) /\ Entry(merge).key = shown.key /\ Entry(merge).seq = shown.value
        /\ direction = "reverse" =>
              /\ savedKey = shown.key /\ savedValue = shown.value
              /\ Valid(merge) => Entry(merge).key < shown.key
              /\ \A x \in Seen : x.key < shown.key => Ahead(merge, "reverse", x)

\* The inductive invariant.
IterInv ==
    /\ ChildrenGood /\ MergeGood(merge) /\ IterShapes
    /\ loop.name = "none" => IdleRight
    /\ loop.name = "next" => NextRight
    /\ loop.name = "switch" => SwitchRight
    /\ loop.name = "prev" => PrevRight

-----------------------------------------------------------------------------
(* Lemmas: the order of the entries.                                       *)

\* What an entry is, without the constants' arithmetic.
LEMMA EntryShape ==
    ASSUME NEW x \in Entries
    PROVE  /\ x.key \in Nat /\ x.key # 0 /\ x.key \in UserKeys /\ x.key <= MaxUserKey
           /\ x.seq \in Nat /\ x.seq # 0 /\ x.seq <= Snapshot + MaxInserts
           /\ x.type \in Types
           /\ x # NoEntry
BY IterAssumption DEF Entries, UserKeys, NoEntry

\* In either direction the entries are in a strict order, total where the
\* sequence numbers differ.
LEMMA LessIsAnOrder ==
    ASSUME NEW dir \in Directions, NEW a \in Entries, NEW b \in Entries
    PROVE  /\ ~Less(dir, a, a)
           /\ Less(dir, a, b) => ~Less(dir, b, a) /\ ~UpTo(dir, b, a)
           /\ \/ Less(dir, a, b) \/ Less(dir, b, a) \/ a.seq = b.seq
           /\ UpTo(dir, a, a)
           /\ Less(dir, a, b) => UpTo(dir, a, b)
           /\ UpTo(dir, a, b) => a = b \/ Less(dir, a, b)
BY EntryShape DEF Less, UpTo, EntryLess, Directions

LEMMA LessGoesOn ==
    ASSUME NEW dir \in Directions, NEW a \in Entries, NEW b \in Entries, NEW c \in Entries
    PROVE  /\ Less(dir, a, b) /\ Less(dir, b, c) => Less(dir, a, c)
           /\ Less(dir, a, b) /\ UpTo(dir, b, c) => Less(dir, a, c)
           /\ UpTo(dir, a, b) /\ Less(dir, b, c) => Less(dir, a, c)
           /\ UpTo(dir, a, b) /\ UpTo(dir, b, c) => UpTo(dir, a, c)
<1>1. Less(dir, a, b) /\ Less(dir, b, c) => Less(dir, a, c)
  BY EntryShape DEF Less, EntryLess, Directions
<1> QED BY <1>1 DEF UpTo

\* The order by keys.
LEMMA LessByKey ==
    ASSUME NEW a \in Entries, NEW b \in Entries
    PROVE  /\ UpTo("forward", a, b) => a.key <= b.key
           /\ UpTo("reverse", a, b) => b.key <= a.key
           /\ a.key < b.key => Less("forward", a, b) /\ Less("reverse", b, a)
           /\ Less("forward", a, b) <=> Less("reverse", b, a)
BY EntryShape DEF Less, UpTo, EntryLess

\* A set of numbers below a bound that has a member has a least and a greatest.
LEMMA BoundedExtremes ==
    ASSUME NEW S \in SUBSET Nat, S # {}, NEW b \in Nat, \A x \in S : x < b
    PROVE  /\ \E x \in S : \A y \in S : x <= y
           /\ \E x \in S : \A y \in S : y <= x
<1>1. \E x \in S : \A y \in S : y <= x
  BY BoundedMax
<1>2. PICK x \in S : \A y \in S : ~(<<y, x>> \in OpToRel(<, Nat))
  BY NatLessThanWellFounded, WFMin
<1>3. \A y \in S : x <= y
  <2> SUFFICES ASSUME NEW y \in S, y < x PROVE FALSE
    OBVIOUS
  <2>1. <<y, x>> \in OpToRel(<, Nat)
    BY DEF OpToRel
  <2> QED BY <1>2, <2>1
<1> QED BY <1>1, <1>3

\* Entries with sequence numbers of their own have a first one in either
\* direction.
LEMMA SomeFirst ==
    ASSUME NEW E \in SUBSET Entries, E # {}, \A x, y \in E : x.seq = y.seq => x = y,
           NEW dir \in Directions
    PROVE  \E e \in E : \A f \in E : UpTo(dir, e, f)
<1> DEFINE Ks == {x.key : x \in E}
<1> DEFINE b == MaxUserKey + Snapshot + MaxInserts + 1
<1>1. b \in Nat
  BY IterAssumption
<1>2. Ks \in SUBSET Nat /\ Ks # {} /\ \A k \in Ks : k < b
  <2>1. \A x \in E : x.key \in Nat /\ x.key < b
    BY EntryShape, IterAssumption
  <2> HIDE DEF b
  <2> QED BY <2>1
<1>3. PICK k \in Ks : \A l \in Ks : IF dir = "forward" THEN k <= l ELSE l <= k
  <2> HIDE DEF Ks, b
  <2> QED BY <1>1, <1>2, BoundedExtremes
<1> DEFINE Ss == {x.seq : x \in {y \in E : y.key = k}}
<1>4. Ss \in SUBSET Nat /\ Ss # {} /\ \A s \in Ss : s < b
  <2>1. \A x \in E : x.seq \in Nat /\ x.seq < b
    BY EntryShape, IterAssumption
  <2>2. \E x \in E : x.key = k
    BY <1>3
  <2> HIDE DEF b
  <2> QED BY <2>1, <2>2
<1>5. PICK s \in Ss : \A t \in Ss : IF dir = "forward" THEN t <= s ELSE s <= t
  <2> HIDE DEF Ss, b
  <2> QED BY <1>1, <1>4, BoundedExtremes
<1>6. PICK e \in E : e.key = k /\ e.seq = s
  BY <1>5
<1>7. ASSUME NEW f \in E PROVE UpTo(dir, e, f)
  <2>1. e \in Entries /\ f \in Entries /\ f.key \in Nat /\ e.key \in Nat /\ f.seq \in Nat /\ e.seq \in Nat
    BY EntryShape
  <2>2. IF dir = "forward" THEN k <= f.key ELSE f.key <= k
    BY <1>3
  <2>3. f.key = k => IF dir = "forward" THEN f.seq <= s ELSE s <= f.seq
    BY <1>5
  <2>4. f.seq = s => f = e
    BY <1>6
  <2> QED BY <1>6, <2>1, <2>2, <2>3, <2>4 DEF UpTo, Less, EntryLess, Directions
<1> QED BY <1>7

-----------------------------------------------------------------------------
(* Lemmas: the first entry of a set, and the children at their positions.  *)

\* The first entry on the way in a direction.
Edge(dir, E) == IF dir = "forward" THEN FirstEntry(E) ELSE LastEntry(E)

LEMMA EdgeIsFirst ==
    ASSUME NEW E \in SUBSET Entries, \A x, y \in E : x.seq = y.seq => x = y,
           NEW dir \in Directions
    PROVE  /\ E = {} => Edge(dir, E) = NoEntry
           /\ E # {} => Edge(dir, E) \in E /\ \A f \in E : UpTo(dir, Edge(dir, E), f)
<1>1. CASE E = {}
  BY <1>1 DEF Edge, FirstEntry, LastEntry
<1>2. CASE E # {}
  <2>1. \E e \in E : \A f \in E : UpTo(dir, e, f)
    BY <1>2, SomeFirst
  <2>2. CASE dir = "forward"
    BY <1>2, <2>1, <2>2 DEF Edge, FirstEntry, UpTo, Less
  <2>3. CASE dir = "reverse"
    BY <1>2, <2>1, <2>3 DEF Edge, LastEntry, UpTo, Less
  <2> QED BY <2>2, <2>3 DEF Directions
<1> QED BY <1>1, <1>2

\* The subsets of a child have a first entry.
LEMMA ChildEdge ==
    ASSUME ChildrenGood, NEW c \in Child, NEW E \in SUBSET children[c], NEW dir \in Directions
    PROVE  /\ Edge(dir, E) \in E \cup {NoEntry}
           /\ Edge(dir, E) \in Entries \cup {NoEntry}
           /\ \A x \in E : Edge(dir, E) # NoEntry /\ UpTo(dir, Edge(dir, E), x)
<1>1. children[c] \subseteq Entries
  BY DEF ChildrenGood
<1>2. \A x, y \in E : x.seq = y.seq => x = y
  BY DEF ChildrenGood
<1>3. E \in SUBSET Entries
  BY <1>1
<1>4. /\ E = {} => Edge(dir, E) = NoEntry
      /\ E # {} => Edge(dir, E) \in E /\ \A f \in E : UpTo(dir, Edge(dir, E), f)
  BY <1>2, <1>3, EdgeIsFirst
<1> QED BY <1>3, <1>4, EntryShape

\* The merging iterator that stands at the positions of its children.
Stand(dir, pos) == IF dir = "forward" THEN Forward(pos) ELSE Backward(pos)

\* Positions of the children: each on an entry of its own, or at its end.
Positions(pos) ==
    /\ pos \in [Child -> Entries \cup {NoEntry}]
    /\ \A c \in Child : pos[c] \in children[c] \cup {NoEntry}

LEMMA ChildrenDiffer ==
    ASSUME ChildrenGood, NEW pos, Positions(pos), NEW c \in Positioned(pos), NEW d \in Positioned(pos)
    PROVE  /\ pos[c] \in Entries /\ pos[c] \in children[c] /\ c \in Child
           /\ pos[c].seq = pos[d].seq => c = d
BY DEF ChildrenGood, Positions, Positioned

\* FindSmallest and FindLargest.
LEMMA StandsOnFirst ==
    ASSUME ChildrenGood, NEW pos, Positions(pos), NEW dir \in Directions
    PROVE  /\ Stand(dir, pos) = [pos |-> pos, current |-> Stand(dir, pos).current, direction |-> dir]
           /\ Positioned(pos) = {} => Stand(dir, pos).current = NoChild
           /\ Positioned(pos) # {} =>
                 /\ Stand(dir, pos).current \in Positioned(pos)
                 /\ \A d \in Positioned(pos) : UpTo(dir, pos[Stand(dir, pos).current], pos[d])
<1> DEFINE E == {pos[c] : c \in Positioned(pos)}
<1>1. E \in SUBSET Entries
  BY ChildrenDiffer
<1>2. \A x, y \in E : x.seq = y.seq => x = y
  BY ChildrenDiffer
<1>3. ASSUME Positioned(pos) # {}
      PROVE  \E c \in Positioned(pos) : \A d \in Positioned(pos) : c = d \/ Less(dir, pos[c], pos[d])
  <2>1. PICK e \in E : \A f \in E : UpTo(dir, e, f)
    <3>1. E # {}
      BY <1>3
    <3> HIDE DEF E
    <3> QED BY <1>1, <1>2, <3>1, SomeFirst
  <2>2. PICK c \in Positioned(pos) : e = pos[c]
    OBVIOUS
  <2>3. ASSUME NEW d \in Positioned(pos) PROVE c = d \/ Less(dir, pos[c], pos[d])
    BY <2>1, <2>2, ChildrenDiffer DEF UpTo
  <2> QED BY <2>3
<1>4. CASE dir = "forward"
  <2>1. Stand(dir, pos) = [pos |-> pos, current |-> FindSmallest(pos), direction |-> "forward"]
    BY <1>4 DEF Stand, Forward
  <2>2. Positioned(pos) # {} =>
           /\ FindSmallest(pos) \in Positioned(pos)
           /\ \A d \in Positioned(pos) : FindSmallest(pos) = d \/ Less(dir, pos[FindSmallest(pos)], pos[d])
    BY <1>3, <1>4 DEF FindSmallest, Less
  <2>3. Positioned(pos) = {} => FindSmallest(pos) = NoChild
    BY DEF FindSmallest
  <2> QED BY <1>4, <2>1, <2>2, <2>3 DEF UpTo
<1>5. CASE dir = "reverse"
  <2>1. Stand(dir, pos) = [pos |-> pos, current |-> FindLargest(pos), direction |-> "reverse"]
    BY <1>5 DEF Stand, Backward
  <2>2. Positioned(pos) # {} =>
           /\ FindLargest(pos) \in Positioned(pos)
           /\ \A d \in Positioned(pos) : FindLargest(pos) = d \/ Less(dir, pos[FindLargest(pos)], pos[d])
    BY <1>3, <1>5 DEF FindLargest, Less
  <2>3. Positioned(pos) = {} => FindLargest(pos) = NoChild
    BY DEF FindLargest
  <2> QED BY <1>5, <2>1, <2>2, <2>3 DEF UpTo
<1> QED BY <1>4, <1>5 DEF Directions

\* The positions pass over no entry of A, and what they see beyond themselves
\* is in A.
Covers(dir, pos, A) ==
    /\ \A c \in Child : \A x \in children[c] \cap A : pos[c] # NoEntry /\ UpTo(dir, pos[c], x)
    /\ \A c \in Child : \A x \in Seen : pos[c] # NoEntry /\ Less(dir, pos[c], x) => x \in A

\* The merging iterator arrives before every entry of A.
LEMMA Arrives ==
    ASSUME ChildrenGood, NEW pos, Positions(pos), NEW dir \in Directions,
           NEW A \in SUBSET Seen, Covers(dir, pos, A), NEW m, m = Stand(dir, pos)
    PROVE  /\ MergeGood(m)
           /\ \A x \in A : Ahead(m, dir, x)
           /\ Valid(m) => \E c \in Child : pos[c] \in children[c] /\ pos[c] # NoEntry /\ Entry(m) = pos[c]
<1>1. /\ m = [pos |-> pos, current |-> m.current, direction |-> dir]
      /\ Positioned(pos) = {} => m.current = NoChild
      /\ Positioned(pos) # {} => /\ m.current \in Positioned(pos)
                                 /\ \A d \in Positioned(pos) : UpTo(dir, pos[m.current], pos[d])
  BY StandsOnFirst
<1>2. m.pos = pos /\ m.direction = dir
  BY <1>1
<1>3. Entry(m) = pos[m.current]
  BY <1>2 DEF Entry
<1>4. Valid(m) <=> Positioned(pos) # {}
  BY <1>1 DEF Valid, Positioned, Child, NoChild
<1>5. ASSUME Valid(m)
      PROVE  m.current \in Child /\ Entry(m) \in children[m.current] /\ Entry(m) # NoEntry /\ Entry(m) \in Entries
  BY <1>1, <1>3, <1>4, <1>5, ChildrenDiffer DEF Positioned
<1>6. \A x \in A : Ahead(m, dir, x)
  <2> SUFFICES ASSUME NEW x \in A PROVE Ahead(m, dir, x)
    OBVIOUS
  <2>1. PICK c \in Child : x \in children[c]
    BY DEF Seen
  <2>2. pos[c] # NoEntry /\ UpTo(dir, pos[c], x) /\ c \in Positioned(pos)
    BY <2>1 DEF Covers, Positioned
  <2>3. UpTo(dir, Entry(m), pos[c]) /\ Valid(m)
    BY <1>1, <1>3, <1>4, <2>2
  <2>4. x \in Entries /\ pos[c] \in Entries
    BY <2>1, <2>2, ChildrenDiffer DEF ChildrenGood
  <2> QED BY <1>5, <2>2, <2>3, <2>4, LessGoesOn DEF Ahead
<1>7. ASSUME Valid(m), NEW c \in Child, NEW x \in children[c], x.seq <= Snapshot, Less(dir, Entry(m), x)
      PROVE  pos[c] # NoEntry /\ UpTo(dir, pos[c], x)
  <2>1. x \in Seen
    BY <1>7 DEF Seen
  <2>2. x \in A
    BY <1>3, <1>5, <1>7, <2>1 DEF Covers
  <2> QED BY <2>2, <1>7 DEF Covers
<1>8. MergeGood(m)
  <2>1. m = [pos |-> m.pos, current |-> m.current, direction |-> m.direction]
    BY <1>1, <1>2
  <2>2. m.current \in Child \cup {NoChild}
    BY <1>1 DEF Positioned
  <2>3. ~Valid(m) => \A c \in Child : pos[c] = NoEntry
    BY <1>4 DEF Positioned
  <2>4. Valid(m) => \A c \in Child : pos[c] # NoEntry => UpTo(dir, Entry(m), pos[c])
    BY <1>1, <1>3, <1>4 DEF Positioned
  <2> QED BY <1>2, <1>5, <1>7, <2>1, <2>2, <2>3, <2>4 DEF MergeGood, Positions
<1> QED BY <1>3, <1>5, <1>6, <1>8

-----------------------------------------------------------------------------
(* Lemmas: the moves and the seeks of the merging iterator.                *)

\* MergeNext and MergePrev.
Move(dir, m) == IF dir = "forward" THEN MergeNext(m) ELSE MergePrev(m)

\* A step of the merging iterator leaves one entry behind, and no other that
\* the snapshot sees.
Moved(dir, m, n) ==
    /\ MergeGood(n)
    /\ \A x \in Seen : Less(dir, Entry(m), x) => Ahead(n, dir, x)
    /\ Valid(n) => Less(dir, Entry(m), Entry(n))

LEMMA StandsSomewhere ==
    ASSUME ChildrenGood, NEW m, MergeGood(m), Valid(m)
    PROVE  m.current \in Child /\ Entry(m) \in children[m.current] /\ Entry(m) \in Entries
           /\ (Entry(m).seq <= Snapshot => Entry(m) \in Seen)
<1>1. m.current \in Child /\ Entry(m) \in children[m.current]
  BY DEF MergeGood, Valid, Entry
<1>2. Entry(m) \in Entries
  BY <1>1 DEF ChildrenGood
<1> QED BY <1>1, <1>2 DEF Seen

LEMMA SeenEntries ==
    ASSUME ChildrenGood
    PROVE  Seen \subseteq Entries /\ \A x \in Seen : x.seq <= Snapshot
BY DEF ChildrenGood, Seen

LEMMA MovesOn ==
    ASSUME ChildrenGood, NEW m, MergeGood(m), Valid(m), NEW dir \in Directions,
           NEW n, n = Move(dir, m)
    PROVE  Moved(dir, m, n)
<1> DEFINE e == Entry(m)
           Beyond(c) == {x \in children[c] : Less(dir, e, x)}
           pos == [c \in Child |-> IF c = m.current \/ m.direction # dir
                                   THEN Edge(dir, Beyond(c)) ELSE m.pos[c]]
           A == {x \in Seen : Less(dir, e, x)}
<1>1. n = Stand(dir, pos)
  BY DEF Move, MergeNext, MergePrev, Stand, Edge, After, Before, Less, Directions
<1>2. m.current \in Child /\ e \in children[m.current] /\ e \in Entries
  BY StandsSomewhere
<1>3. ASSUME NEW c \in Child
      PROVE  /\ Edge(dir, Beyond(c)) \in Beyond(c) \cup {NoEntry}
             /\ Edge(dir, Beyond(c)) \in Entries \cup {NoEntry}
             /\ \A x \in Beyond(c) : Edge(dir, Beyond(c)) # NoEntry /\ UpTo(dir, Edge(dir, Beyond(c)), x)
  <2>1. Beyond(c) \in SUBSET children[c]
    OBVIOUS
  <2> HIDE DEF Beyond
  <2> QED BY <2>1, ChildEdge
<1>4. ASSUME NEW c \in Child
      PROVE  /\ pos[c] \in Entries \cup {NoEntry} /\ pos[c] \in children[c] \cup {NoEntry}
             /\ pos[c] # NoEntry => Less(dir, e, pos[c])
             /\ \A x \in children[c] \cap A : pos[c] # NoEntry /\ UpTo(dir, pos[c], x)
  <2>1. CASE c = m.current \/ m.direction # dir
    <3>1. pos[c] = Edge(dir, Beyond(c))
      BY <2>1
    <3>2. children[c] \cap A \subseteq Beyond(c) /\ Beyond(c) \subseteq children[c]
      OBVIOUS
    <3>3. NoEntry # pos[c] => Less(dir, e, pos[c])
      BY <1>3, <3>1
    <3> HIDE DEF Beyond, A, pos
    <3> QED BY <1>3, <3>1, <3>2, <3>3
  <2>2. CASE c # m.current /\ m.direction = dir
    <3>1. pos[c] = m.pos[c]
      BY <2>2
    <3>2. m.pos[c] \in Entries \cup {NoEntry} /\ m.pos[c] \in children[c] \cup {NoEntry}
      BY DEF MergeGood
    <3>3. m.pos[c] # NoEntry => UpTo(dir, e, m.pos[c]) /\ m.pos[c] # e
      BY <1>2, <2>2, <3>2 DEF MergeGood, ChildrenGood
    <3>4. m.pos[c] # NoEntry => Less(dir, e, m.pos[c])
      BY <3>3 DEF UpTo
    <3>5. \A x \in children[c] \cap A : m.pos[c] # NoEntry /\ UpTo(dir, m.pos[c], x)
      BY <2>2, SeenEntries DEF MergeGood
    <3> QED BY <3>1, <3>2, <3>4, <3>5
  <2> QED BY <2>1, <2>2
<1>5. Positions(pos)
  <2>1. pos \in [Child -> Entries \cup {NoEntry}]
    <3>1. \A c \in Child : pos[c] \in Entries \cup {NoEntry}
      BY <1>4
    <3>2. pos = [c \in Child |-> pos[c]]
      OBVIOUS
    <3> HIDE DEF pos
    <3> QED BY <3>1, <3>2
  <2> QED BY <1>4, <2>1 DEF Positions
<1>6. Covers(dir, pos, A)
  <2>1. ASSUME NEW c \in Child, NEW x \in Seen, pos[c] # NoEntry, Less(dir, pos[c], x) PROVE x \in A
    <3>1. Less(dir, e, pos[c]) /\ pos[c] \in Entries /\ x \in Entries
      BY <1>4, <2>1, SeenEntries
    <3>2. Less(dir, e, x)
      BY <1>2, <2>1, <3>1, LessGoesOn
    <3> QED BY <3>2
  <2> HIDE DEF A, pos
  <2> QED BY <1>4, <2>1 DEF Covers
<1>7. A \in SUBSET Seen
  OBVIOUS
<1>8. /\ MergeGood(n)
      /\ \A x \in A : Ahead(n, dir, x)
      /\ Valid(n) => \E c \in Child : pos[c] \in children[c] /\ pos[c] # NoEntry /\ Entry(n) = pos[c]
  <2> HIDE DEF A, pos
  <2> QED BY <1>1, <1>5, <1>6, <1>7, Arrives
<1> QED BY <1>4, <1>8 DEF Moved

\* A seek arrives before the entries that it is from, which go on to the end of
\* each child.
LEMMA Sought ==
    ASSUME ChildrenGood, NEW dir \in Directions, NEW From \in SUBSET Entries,
           \A x \in From, y \in Entries : Less(dir, x, y) => y \in From,
           NEW m, m = Stand(dir, [c \in Child |-> Edge(dir, children[c] \cap From)])
    PROVE  /\ MergeGood(m)
           /\ \A x \in Seen : x \in From => Ahead(m, dir, x)
           /\ Valid(m) => Entry(m) \in From
<1> DEFINE pos == [c \in Child |-> Edge(dir, children[c] \cap From)]
           A == Seen \cap From
<1>1. ASSUME NEW c \in Child
      PROVE  /\ pos[c] \in Entries \cup {NoEntry} /\ pos[c] \in children[c] \cup {NoEntry}
             /\ pos[c] # NoEntry => pos[c] \in From
             /\ \A x \in children[c] \cap A : pos[c] # NoEntry /\ UpTo(dir, pos[c], x)
  <2> DEFINE E == children[c] \cap From
  <2>1. E \in SUBSET children[c] /\ pos[c] = Edge(dir, E) /\ children[c] \cap A \subseteq E
    OBVIOUS
  <2>2. /\ Edge(dir, E) \in E \cup {NoEntry}
        /\ Edge(dir, E) \in Entries \cup {NoEntry}
        /\ \A x \in E : Edge(dir, E) # NoEntry /\ UpTo(dir, Edge(dir, E), x)
    <3> HIDE DEF E
    <3> QED BY <2>1, ChildEdge
  <2>3. Edge(dir, E) # NoEntry => Edge(dir, E) \in From
    BY <2>2
  <2> HIDE DEF E, A, pos
  <2> QED BY <2>1, <2>2, <2>3
<1>2. Positions(pos)
  <2>1. pos \in [Child -> Entries \cup {NoEntry}]
    <3>1. \A c \in Child : pos[c] \in Entries \cup {NoEntry}
      BY <1>1
    <3>2. pos = [c \in Child |-> pos[c]]
      OBVIOUS
    <3> HIDE DEF pos
    <3> QED BY <3>1, <3>2
  <2> QED BY <1>1, <2>1 DEF Positions
<1>3. Covers(dir, pos, A)
  <2>1. ASSUME NEW c \in Child, NEW x \in Seen, pos[c] # NoEntry, Less(dir, pos[c], x) PROVE x \in A
    <3>1. pos[c] \in From /\ pos[c] \in Entries /\ x \in Entries
      BY <1>1, <2>1, SeenEntries
    <3> QED BY <2>1, <3>1
  <2> HIDE DEF A, pos
  <2> QED BY <1>1, <2>1 DEF Covers
<1>4. /\ MergeGood(m)
      /\ \A x \in A : Ahead(m, dir, x)
      /\ Valid(m) => \E c \in Child : pos[c] \in children[c] /\ pos[c] # NoEntry /\ Entry(m) = pos[c]
  <2>1. A \in SUBSET Seen /\ m = Stand(dir, pos)
    OBVIOUS
  <2> HIDE DEF A, pos
  <2> QED BY <1>2, <1>3, <2>1, Arrives
<1> QED BY <1>1, <1>4

\* The three seeks, and where they leave the merging iterator.
LEMMA SeeksArrive ==
    ASSUME ChildrenGood
    PROVE  /\ MergeGood(MergeSeekToFirst) /\ \A x \in Seen : Ahead(MergeSeekToFirst, "forward", x)
           /\ MergeGood(MergeSeekToLast) /\ \A x \in Seen : Ahead(MergeSeekToLast, "reverse", x)
<1>1. Entries \in SUBSET Entries /\ "forward" \in Directions /\ "reverse" \in Directions
  BY DEF Directions
<1>2. \A c \in Child : children[c] \cap Entries = children[c]
  BY DEF ChildrenGood
<1>3. MergeSeekToFirst = Stand("forward", [c \in Child |-> Edge("forward", children[c] \cap Entries)])
  BY <1>2 DEF MergeSeekToFirst, Stand, Edge
<1>4. MergeSeekToLast = Stand("reverse", [c \in Child |-> Edge("reverse", children[c] \cap Entries)])
  BY <1>2 DEF MergeSeekToLast, Stand, Edge
<1>5. MergeGood(MergeSeekToFirst) /\ \A x \in Seen : x \in Entries => Ahead(MergeSeekToFirst, "forward", x)
  <2>1. \A x \in Entries, y \in Entries : Less("forward", x, y) => y \in Entries
    OBVIOUS
  <2> QED BY <1>1, <1>3, <2>1, Sought
<1>6. MergeGood(MergeSeekToLast) /\ \A x \in Seen : x \in Entries => Ahead(MergeSeekToLast, "reverse", x)
  <2>1. \A x \in Entries, y \in Entries : Less("reverse", x, y) => y \in Entries
    OBVIOUS
  <2> QED BY <1>1, <1>4, <2>1, Sought
<1> QED BY <1>5, <1>6, SeenEntries

LEMMA SeekArrives ==
    ASSUME ChildrenGood, NEW key \in UserKeys, NEW m, m = MergeSeek(key, Snapshot)
    PROVE  /\ MergeGood(m)
           /\ \A x \in Seen : x.key >= key => Ahead(m, "forward", x)
           /\ \A x \in Seen : Ahead(m, "forward", x) => x.key >= key
<1> DEFINE target == [key |-> key, seq |-> Snapshot]
           From == {x \in Entries : ~EntryLess(x, target)}
<1>1. key \in Nat /\ Snapshot \in Nat
  BY IterAssumption DEF UserKeys
<1>2. \A x \in Entries : x \in From <=> x.key > key \/ (x.key = key /\ x.seq <= Snapshot)
  BY <1>1, EntryShape DEF EntryLess
<1>3. \A x \in From, y \in Entries : Less("forward", x, y) => y \in From
  <2> SUFFICES ASSUME NEW x \in From, NEW y \in Entries, Less("forward", x, y) PROVE y \in From
    OBVIOUS
  <2>1. x \in Entries
    OBVIOUS
  <2> HIDE DEF From
  <2> QED BY <1>1, <1>2, <2>1, EntryShape DEF Less, EntryLess
<1>4. From \in SUBSET Entries /\ "forward" \in Directions
  BY DEF Directions
<1>5. m = Stand("forward", [c \in Child |-> Edge("forward", children[c] \cap From)])
  <2>1. \A c \in Child : children[c] \cap From = {x \in children[c] : ~EntryLess(x, target)}
    BY DEF ChildrenGood
  <2> HIDE DEF From
  <2> QED BY <2>1 DEF MergeSeek, Stand, Edge
<1>6. /\ MergeGood(m)
      /\ \A x \in Seen : x \in From => Ahead(m, "forward", x)
      /\ Valid(m) => Entry(m) \in From
  <2> HIDE DEF From
  <2> QED BY <1>3, <1>4, <1>5, Sought
<1>7. \A x \in Seen : x \in Entries /\ x.key \in Nat /\ x.seq <= Snapshot
  BY SeenEntries, EntryShape
<1>8. ASSUME NEW x \in Seen, Ahead(m, "forward", x) PROVE x.key >= key
  <2>1. Entry(m) \in From /\ UpTo("forward", Entry(m), x)
    BY <1>6, <1>8 DEF Ahead
  <2>2. x \in From
    BY <1>3, <1>4, <1>7, <2>1 DEF UpTo
  <2> HIDE DEF From
  <2> QED BY <1>1, <1>2, <1>7, <2>2
<1>9. ASSUME NEW x \in Seen, x.key >= key PROVE Ahead(m, "forward", x)
  <2>1. x \in From
    <3> HIDE DEF From
    <3> QED BY <1>1, <1>2, <1>7, <1>9
  <2> QED BY <1>6, <2>1
<1> QED BY <1>6, <1>8, <1>9

-----------------------------------------------------------------------------
(* Lemmas: what the snapshot sees, and what answers an operation.          *)

\* The children do not change: neither does what the snapshot sees.
LEMMA SameChildren ==
    ASSUME UNCHANGED children
    PROVE  /\ Seen' = Seen /\ (ChildrenGood /\ UNCHANGED inserted => ChildrenGood')
           /\ View' = View
           /\ \A m : MergeGood(m)' <=> MergeGood(m)
           /\ \A x : Newest(x)' <=> Newest(x)
BY DEF Seen, ChildrenGood, View, MergeGood, Newest, Valid, Entry

\* An entry that is written now is beyond the snapshot.
LEMMA WritesAreUnseen ==
    ASSUME ChildrenGood, InsertEntry
    PROVE  /\ Seen' = Seen /\ ChildrenGood' /\ View' = View
           /\ \A c \in Child : children[c] \subseteq children'[c]
           /\ \A c \in Child : \A x \in children'[c] : x \in children[c] \/ ~(x.seq <= Snapshot)
<1>1. PICK key \in UserKeys, type \in Types :
         children' = [children EXCEPT ![0] =
                         @ \cup {[key |-> key, seq |-> Snapshot + inserted + 1, type |-> type]}]
  BY DEF InsertEntry
<1> DEFINE new == [key |-> key, seq |-> Snapshot + inserted + 1, type |-> type]
<1>2. /\ inserted' = inserted + 1 /\ inserted < MaxInserts /\ inserted \in Nat
      /\ Snapshot \in Nat /\ MaxInserts \in Nat
  BY IterAssumption DEF InsertEntry, ChildrenGood
<1>3. new \in Entries /\ ~(new.seq <= Snapshot) /\ new.seq = Snapshot + inserted + 1
  BY <1>2 DEF Entries
<1>4. 0 \in Child
  BY IterAssumption DEF Child
<1> HIDE DEF new
<1>5. \A c \in Child : children'[c] = IF c = 0 THEN children[c] \cup {new} ELSE children[c]
  BY <1>1, <1>4 DEF ChildrenGood, new
<1>6. children' \in [Child -> SUBSET Entries]
  BY <1>1, <1>3 DEF ChildrenGood, new
<1>7. \A c \in Child : \A x \in children[c] : x.seq # new.seq /\ x.seq <= Snapshot + inserted' /\ x \in Entries
  <2> SUFFICES ASSUME NEW c \in Child, NEW x \in children[c]
               PROVE  x.seq # new.seq /\ x.seq <= Snapshot + inserted' /\ x \in Entries
    OBVIOUS
  <2>1. x \in Entries /\ x.seq <= Snapshot + inserted
    BY DEF ChildrenGood
  <2> QED BY <1>2, <1>3, <2>1, EntryShape
<1>8. ChildrenGood'
  <2>0. \A c \in Child : \A x \in children'[c] : x \in children[c] \/ (c = 0 /\ x = new)
    BY <1>5
  <2>1. \A c \in Child : \A x \in children'[c] : x.seq <= Snapshot + inserted'
    <3>1. new.seq <= Snapshot + inserted'
      BY <1>2, <1>3
    <3> QED BY <2>0, <3>1, <1>7
  <2>2. ASSUME NEW c \in Child, NEW d \in Child, NEW x \in children'[c], NEW y \in children'[d], x.seq = y.seq
        PROVE  c = d /\ x = y
    <3>1. CASE x \in children[c] /\ y \in children[d]
      BY <2>2, <3>1 DEF ChildrenGood
    <3>2. CASE x \notin children[c] \/ y \notin children[d]
      BY <2>0, <2>2, <3>2, <1>7
    <3> QED BY <3>1, <3>2
  <2>3. inserted' \in 0 .. MaxInserts
    BY <1>2
  <2> QED BY <1>6, <2>1, <2>2, <2>3 DEF ChildrenGood
<1>9. Seen' = Seen
  BY <1>3, <1>5 DEF Seen
<1>10. View' = View
  <2>1. \A k : {e \in UNION {children'[c] : c \in Child} : e.key = k /\ e.seq <= Snapshot}
                = {x \in Seen : x.key = k}
    BY <1>9 DEF Seen
  <2>2. \A k : {e \in UNION {children[c] : c \in Child} : e.key = k /\ e.seq <= Snapshot}
                = {x \in Seen : x.key = k}
    BY DEF Seen
  <2> QED BY <2>1, <2>2 DEF View
<1> QED BY <1>3, <1>5, <1>8, <1>9, <1>10

\* The value that the snapshot sees for a key is the one of its newest entry.
LEMMA ViewIsNewest ==
    ASSUME ChildrenGood, NEW k \in UserKeys
    PROVE  /\ View[k] # 0 <=> \E x \in Seen : x.key = k /\ Newest(x) /\ x.type = "value"
           /\ \A x \in Seen : x.key = k /\ Newest(x) /\ x.type = "value" => View[k] = x.seq
<1> DEFINE E == {x \in Seen : x.key = k}
           first == Edge("forward", E)
<1>1. {e \in UNION {children[c] : c \in Child} : e.key = k /\ e.seq <= Snapshot} = E
  BY DEF Seen
<1>2. View[k] = IF E = {} \/ FirstEntry(E).type = "deletion" THEN 0 ELSE FirstEntry(E).seq
  <2> HIDE DEF E
  <2> QED BY <1>1 DEF View
<1>3. FirstEntry(E) = first
  BY DEF Edge
<1>4. E \in SUBSET Entries /\ \A x, y \in E : x.seq = y.seq => x = y
  BY DEF ChildrenGood, Seen
<1>5. E # {} => first \in E /\ \A f \in E : UpTo("forward", first, f)
  <2>1. "forward" \in Directions
    BY DEF Directions
  <2> HIDE DEF E
  <2> QED BY <1>4, <2>1, EdgeIsFirst
<1>6. E # {} => first \in Seen /\ first.key = k /\ Newest(first)
  BY <1>5 DEF Newest
<1>7. ASSUME NEW x \in Seen, x.key = k, Newest(x) PROVE x = first
  <2>1. x \in E /\ E # {}
    BY <1>7
  <2>2. UpTo("forward", first, x) /\ UpTo("forward", x, first) /\ first \in Entries /\ x \in Entries
    BY <1>4, <1>5, <1>6, <1>7, <2>1 DEF Newest
  <2> QED BY <2>2, LessIsAnOrder DEF Directions
<1>8. E # {} => first.seq # 0 /\ first.type \in {"value", "deletion"}
  BY <1>4, <1>5, EntryShape DEF Types
<1> HIDE DEF first
<1>9. CASE E = {}
  BY <1>2, <1>9
<1>10. CASE E # {}
  <2> HIDE DEF E
  <2> QED BY <1>2, <1>3, <1>6, <1>7, <1>8, <1>10
<1> QED BY <1>9, <1>10

\* The merging iterator after a step.
LEMMA Taken ==
    ASSUME UNCHANGED children, NEW n, merge' = n
    PROVE  /\ MergeGood(merge)' <=> MergeGood(n)
           /\ Valid(merge)' <=> Valid(n)
           /\ Entry(merge)' = Entry(n)
           /\ \A dir, x : Ahead(merge, dir, x)' <=> Ahead(n, dir, x)
BY DEF MergeGood, Ahead, UpTo, Less, EntryLess, Valid, Entry

\* The operation and its answers stay the same while it runs.
LEMMA SameQuestion ==
    ASSUME UNCHANGED <<children, call, shown>>
    PROVE  Seen' = Seen /\ Eligible' = Eligible /\ Answers' = Answers
BY DEF Seen, Eligible, Answers, Newest, UpTo, Less, EntryLess

-----------------------------------------------------------------------------
(* The invariant holds initially.                                          *)

LEMMA IterInitInv ==
    ASSUME IterInit
    PROVE  IterInv
<1>1. PICK key \in [1 .. Snapshot -> UserKeys], type \in [1 .. Snapshot -> Types],
           child \in [1 .. Snapshot -> Child] :
         children = [c \in Child |-> {[key |-> key[s], seq |-> s, type |-> type[s]]
                                          : s \in {t \in 1 .. Snapshot : child[t] = c}}]
  BY DEF IterInit
<1>2. Snapshot \in Nat /\ MaxInserts \in Nat /\ MaxUserKey \in Nat
  BY IterAssumption
<1>3. \A s \in 1 .. Snapshot : /\ [key |-> key[s], seq |-> s, type |-> type[s]] \in Entries
                               /\ s <= Snapshot + 0
  BY <1>2 DEF Entries
<1>4. \A c \in Child : \A x \in children[c] :
         \E s \in 1 .. Snapshot : child[s] = c /\ x = [key |-> key[s], seq |-> s, type |-> type[s]]
  BY <1>1
<1>5. ChildrenGood
  <2>1. \A c \in Child : children[c] \in SUBSET Entries
    BY <1>3, <1>4
  <2>2. children \in [Child -> SUBSET Entries]
    <3>1. children = [c \in Child |-> children[c]]
      BY <1>1
    <3> QED BY <2>1, <3>1
  <2>3. inserted = 0 /\ 0 \in 0 .. MaxInserts
    BY <1>2 DEF IterInit
  <2>4. \A c \in Child : \A x \in children[c] : x.seq <= Snapshot + inserted
    BY <1>3, <1>4, <2>3
  <2>5. \A c, d \in Child : \A x \in children[c], y \in children[d] : x.seq = y.seq => c = d /\ x = y
    BY <1>4
  <2> QED BY <2>2, <2>3, <2>4, <2>5 DEF ChildrenGood
<1>6. MergeGood(merge)
  BY DEF IterInit, MergeGood, Valid, Directions
<1>7. IterShapes /\ loop.name = "none" /\ IdleRight
  BY <1>2 DEF IterInit, IterShapes, NoLoop, Directions, Types, IdleRight
<1> QED BY <1>5, <1>6, <1>7 DEF IterInv

-----------------------------------------------------------------------------
(* The operations that start.                                              *)

\* What every operation that starts a loop has in common.
Starting(op, key, name, skipping) ==
    /\ Calls(op, key) /\ Enter(name, skipping)
    /\ [op |-> op, key |-> key] \in Cursor!Operations
    /\ name \in {"next", "prev", "switch"} /\ skipping \in BOOLEAN
    /\ direction' \in Directions /\ savedKey' \in 0 .. MaxUserKey /\ savedValue' \in 0 .. Snapshot

LEMMA OperationStarts ==
    ASSUME IterInv, NEW op, NEW k, NEW name, NEW skipping, Starting(op, k, name, skipping)
    PROVE  /\ IdleRight /\ ChildrenGood /\ MergeGood(merge)
           /\ UNCHANGED <<children, inserted, shown>> /\ Seen' = Seen
           /\ IterShapes' /\ ChildrenGood'
           /\ loop'.name = name /\ loop'.skipping = skipping /\ loop'.type = "deletion"
           /\ call'.op = op /\ call'.key = k
           /\ shown.key \in 0 .. MaxUserKey
<1>1. /\ UNCHANGED <<children, inserted, shown>> /\ loop.name = "none"
      /\ call' = [op |-> op, key |-> k]
      /\ loop' = [name |-> name, skipping |-> skipping, type |-> "deletion"]
  BY DEF Starting, Calls, Enter, Looping, NoLoop
<1>2. IdleRight /\ ChildrenGood /\ MergeGood(merge) /\ IterShapes
  BY <1>1 DEF IterInv
<1>3. Seen' = Seen /\ ChildrenGood'
  BY <1>1, <1>2, SameChildren
<1>4. call' \in (Cursor!Operations)'
  BY <1>1 DEF Starting, Cursor!Operations
<1>5. loop' \in [name : {"none", "next", "prev", "switch"}, skipping : BOOLEAN, type : Types]
      /\ loop'.name = name /\ loop'.skipping = skipping /\ loop'.type = "deletion"
  BY <1>1 DEF Starting, Types
<1>6. loop'.name # "none"
  BY <1>5 DEF Starting
<1>7. IterShapes'
  BY <1>1, <1>2, <1>4, <1>5, <1>6 DEF IterShapes, Starting
<1>8. shown.key \in 0 .. MaxUserKey
  BY <1>2 DEF IterShapes
<1> QED BY <1>1, <1>2, <1>3, <1>5, <1>7, <1>8

LEMMA SeekToFirstKeeps ==
    ASSUME IterInv, SeekToFirst
    PROVE  IterInv'
<1>1. Starting("first", 0, "next", FALSE)
  <2>1. savedKey \in 0 .. MaxUserKey /\ 0 \in 0 .. MaxUserKey /\ 0 \in 0 .. Snapshot
    BY IterAssumption DEF IterInv, IterShapes
  <2>2. [op |-> "first", key |-> 0] \in Cursor!Operations
    BY DEF Cursor!Operations
  <2> QED BY <2>1, <2>2 DEF SeekToFirst, Starting, Directions
<1>2. /\ ChildrenGood /\ UNCHANGED children /\ Seen' = Seen /\ IterShapes' /\ ChildrenGood'
      /\ loop'.name = "next" /\ loop'.skipping = FALSE /\ call'.op = "first"
  BY <1>1, OperationStarts
<1>3. MergeGood(merge)' /\ \A x \in Seen' : Ahead(merge, "forward", x)'
  BY <1>2, SeeksArrive, Taken DEF SeekToFirst
<1>4. Eligible' = UserKeys
  BY <1>2 DEF Eligible
<1>5. \A x \in Seen' : x.key \in UserKeys
  BY <1>2, SeenEntries, EntryShape
<1>6. NextRight'
  BY <1>2, <1>3, <1>4, <1>5 DEF NextRight, Answers, SeekToFirst
<1> QED BY <1>2, <1>3, <1>6 DEF IterInv

LEMMA SeekKeeps ==
    ASSUME IterInv, NEW key \in UserKeys, Seek(key)
    PROVE  IterInv'
<1>1. Starting("seek", key, "next", FALSE)
  <2>1. savedKey \in 0 .. MaxUserKey /\ 0 \in 0 .. MaxUserKey /\ 0 \in 0 .. Snapshot
    BY IterAssumption DEF IterInv, IterShapes
  <2>2. [op |-> "seek", key |-> key] \in Cursor!Operations
    BY DEF Cursor!Operations
  <2> QED BY <2>1, <2>2 DEF Seek, Starting, Directions
<1>2. /\ ChildrenGood /\ UNCHANGED children /\ Seen' = Seen /\ IterShapes' /\ ChildrenGood'
      /\ loop'.name = "next" /\ loop'.skipping = FALSE /\ call'.op = "seek"
  BY <1>1, OperationStarts
<1>7. call'.key = key
  BY DEF Seek, Calls
<1>3. /\ MergeGood(merge)'
      /\ \A x \in Seen' : Ahead(merge, "forward", x)' <=> x.key >= key
  BY <1>2, SeekArrives, Taken DEF Seek
<1>4. Eligible' = {k \in UserKeys : k >= key}
  BY <1>2, <1>7 DEF Eligible
<1>5. \A x \in Seen' : x.key \in UserKeys
  BY <1>2, SeenEntries, EntryShape
<1>6. NextRight'
  BY <1>2, <1>3, <1>4, <1>5 DEF NextRight, Answers, Seek
<1> QED BY <1>2, <1>3, <1>6 DEF IterInv

LEMMA SeekToLastKeeps ==
    ASSUME IterInv, SeekToLast
    PROVE  IterInv'
<1>1. Starting("last", 0, "prev", FALSE)
  <2>1. savedKey \in 0 .. MaxUserKey /\ 0 \in 0 .. MaxUserKey /\ 0 \in 0 .. Snapshot
    BY IterAssumption DEF IterInv, IterShapes
  <2>2. [op |-> "last", key |-> 0] \in Cursor!Operations
    BY DEF Cursor!Operations
  <2> QED BY <2>1, <2>2 DEF SeekToLast, Starting, Directions
<1>2. /\ ChildrenGood /\ UNCHANGED children /\ Seen' = Seen /\ IterShapes' /\ ChildrenGood'
      /\ loop'.name = "prev" /\ loop'.type = "deletion" /\ call'.op = "last"
  BY <1>1, OperationStarts
<1>3. MergeGood(merge)' /\ \A x \in Seen' : Ahead(merge, "reverse", x)'
  BY <1>2, SeeksArrive, Taken DEF SeekToLast
<1>4. Eligible' = UserKeys
  BY <1>2 DEF Eligible
<1>5. \A x \in Seen' : x.key \in UserKeys
  BY <1>2, SeenEntries, EntryShape
<1>6. PrevRight'
  BY <1>2, <1>3, <1>4, <1>5 DEF PrevRight, Answers, SeekToLast
<1> QED BY <1>2, <1>3, <1>6 DEF IterInv

LEMMA BetweenOperations ==
    ASSUME IterInv, loop = NoLoop
    PROVE  /\ IdleRight /\ ChildrenGood /\ MergeGood(merge)
           /\ direction \in Directions /\ savedKey \in 0 .. MaxUserKey
           /\ savedValue \in 0 .. Snapshot /\ shown.key \in 0 .. MaxUserKey
           /\ MaxUserKey \in Nat
BY IterAssumption DEF IterInv, IterShapes, NoLoop

\* Next: what the loop needs, in terms of the position it starts from.
LEMMA NextStarts ==
    ASSUME IterInv, NextEntry
    PROVE  /\ Starting("next", 0, "next", TRUE) /\ direction' = "forward" /\ shown.key # 0
           /\ savedKey' = shown.key
           /\ MergeGood(merge)'
           /\ \A x \in Seen : x.key > shown.key => Ahead(merge, "forward", x)'
           /\ \A x \in Seen : Ahead(merge, "forward", x)' => x.key >= shown.key
<1>1. Calls("next", 0) /\ shown.key # 0 /\ direction' = "forward" /\ savedValue' = savedValue
  BY DEF NextEntry
<1>2. loop = NoLoop /\ UNCHANGED children
  BY <1>1 DEF Calls
<1>3. /\ IdleRight /\ ChildrenGood /\ MergeGood(merge)
      /\ direction \in Directions /\ savedKey \in 0 .. MaxUserKey
      /\ savedValue \in 0 .. Snapshot /\ shown.key \in 0 .. MaxUserKey /\ MaxUserKey \in Nat
  BY <1>2, BetweenOperations
<1>4. /\ direction = "forward" => Valid(merge) /\ Entry(merge).key = shown.key
      /\ direction = "reverse" =>
            /\ savedKey = shown.key
            /\ Valid(merge) => Entry(merge).key < shown.key
            /\ \A x \in Seen : x.key < shown.key => Ahead(merge, "reverse", x)
  BY <1>1, <1>3 DEF IdleRight
<1>5. Enter("next", TRUE) /\ savedKey' = shown.key
  BY <1>3, <1>4 DEF NextEntry, SkipKey, Directions
<1>6. Starting("next", 0, "next", TRUE)
  <2>1. [op |-> "next", key |-> 0] \in Cursor!Operations
    BY DEF Cursor!Operations
  <2> QED BY <1>1, <1>3, <1>5, <2>1 DEF Starting, Directions
<1>7. \A x \in Seen : x \in Entries /\ x.key \in Nat
  BY <1>3, SeenEntries, EntryShape
<1>8. Valid(merge) => Entry(merge) \in Entries /\ Entry(merge).key \in Nat
  BY <1>3, StandsSomewhere, EntryShape
<1>9. CASE direction = "forward"
  <2>1. merge' = merge
    BY <1>9 DEF NextEntry
  <2>2. MergeGood(merge)' /\ \A x : Ahead(merge, "forward", x)' <=> Ahead(merge, "forward", x)
    BY <1>2, <1>3, <2>1, Taken
  <2>3. ASSUME NEW x \in Seen, x.key > shown.key PROVE Ahead(merge, "forward", x)
    <3>1. Less("forward", Entry(merge), x)
      BY <1>3, <1>4, <1>7, <1>8, <1>9, <2>3, LessByKey
    <3> QED BY <1>4, <1>9, <3>1 DEF Ahead, UpTo
  <2>4. ASSUME NEW x \in Seen, Ahead(merge, "forward", x) PROVE x.key >= shown.key
    <3>1. UpTo("forward", Entry(merge), x)
      BY <2>4 DEF Ahead
    <3>2. Entry(merge).key <= x.key
      BY <1>4, <1>7, <1>8, <1>9, <3>1, LessByKey
    <3> QED BY <1>3, <1>4, <1>7, <1>9, <3>2
  <2> QED BY <1>1, <1>5, <1>6, <2>2, <2>3, <2>4
<1>10. CASE direction = "reverse" /\ Valid(merge)
  <2>1. merge' = MergeNext(merge)
    BY <1>10 DEF NextEntry
  <2>2. Moved("forward", merge, MergeNext(merge))
    <3>1. "forward" \in Directions /\ MergeNext(merge) = Move("forward", merge)
      BY DEF Directions, Move
    <3> QED BY <1>3, <1>10, <3>1, MovesOn
  <2> DEFINE n == MergeNext(merge)
  <2>3. /\ MergeGood(n)
        /\ \A x \in Seen : Less("forward", Entry(merge), x) => Ahead(n, "forward", x)
        /\ Valid(n) => Less("forward", Entry(merge), Entry(n))
    BY <2>2 DEF Moved
  <2>4. Valid(n) => Entry(n) \in Entries
    BY <1>3, <2>3, StandsSomewhere
  <2>5. MergeGood(merge)' /\ \A x : Ahead(merge, "forward", x)' <=> Ahead(n, "forward", x)
    BY <1>2, <2>1, <2>3, Taken
  <2> HIDE DEF n
  <2>6. ASSUME NEW x \in Seen, x.key > shown.key PROVE Ahead(n, "forward", x)
    <3>1. Less("forward", Entry(merge), x)
      <4>1. Entry(merge).key < x.key
        BY <1>3, <1>4, <1>7, <1>8, <1>10, <2>6
      <4> QED BY <1>7, <1>8, <1>10, <4>1, LessByKey
    <3> QED BY <2>3, <3>1
  <2>7. ASSUME NEW x \in Seen, Ahead(n, "forward", x) PROVE x.key >= shown.key
    <3> SUFFICES ASSUME x.key < shown.key PROVE FALSE
      BY <1>3, <1>7
    <3>1. Valid(n) /\ UpTo("forward", Entry(n), x)
      BY <2>7 DEF Ahead
    <3>2. Less("forward", Entry(merge), x)
      BY <1>7, <1>8, <1>10, <2>3, <2>4, <3>1, LessGoesOn DEF Directions
    <3>3. UpTo("reverse", Entry(merge), x)
      BY <1>4, <1>10 DEF Ahead
    <3>4. Less("reverse", x, Entry(merge))
      BY <1>7, <1>8, <1>10, <3>2, LessByKey
    <3> QED BY <1>7, <1>8, <1>10, <3>3, <3>4, LessIsAnOrder DEF Directions
  <2> QED BY <1>1, <1>5, <1>6, <2>5, <2>6, <2>7
<1>11. CASE direction = "reverse" /\ ~Valid(merge)
  <2>1. merge' = MergeSeekToFirst
    BY <1>11 DEF NextEntry
  <2>2. MergeGood(merge)' /\ \A x \in Seen : Ahead(merge, "forward", x)'
    BY <1>2, <1>3, <2>1, Taken, SeeksArrive
  <2>3. \A x \in Seen : ~(x.key < shown.key)
    BY <1>4, <1>11 DEF Ahead
  <2>4. \A x \in Seen : x.key >= shown.key
    BY <1>3, <1>7, <2>3
  <2> QED BY <1>1, <1>5, <1>6, <2>2, <2>4
<1> QED BY <1>3, <1>9, <1>10, <1>11 DEF Directions

LEMMA NextEntryKeeps ==
    ASSUME IterInv, NextEntry
    PROVE  IterInv'
<1>1. /\ Starting("next", 0, "next", TRUE) /\ direction' = "forward" /\ shown.key # 0
      /\ savedKey' = shown.key
      /\ MergeGood(merge)'
      /\ \A x \in Seen : x.key > shown.key => Ahead(merge, "forward", x)'
      /\ \A x \in Seen : Ahead(merge, "forward", x)' => x.key >= shown.key
  BY NextStarts
<1>2. /\ ChildrenGood /\ UNCHANGED shown /\ Seen' = Seen /\ IterShapes' /\ ChildrenGood'
      /\ loop'.name = "next" /\ loop'.skipping = TRUE /\ call'.op = "next"
      /\ shown.key \in 0 .. MaxUserKey
  BY <1>1, OperationStarts
<1>3. \A x \in Seen : x.key \in UserKeys /\ x.key \in Nat
  BY <1>2, SeenEntries, EntryShape
<1>4. Eligible' = {k \in UserKeys : k > shown.key}
  BY <1>2 DEF Eligible
<1>5. shown.key \in Nat
  BY <1>2, IterAssumption
<1>6. \A x \in Answers' : x \in Seen /\ x.key > shown.key
  BY <1>2, <1>4 DEF Answers
<1>7. NextRight'
  <2>1. \A x \in Answers' : Ahead(merge, "forward", x)' /\ ~(loop'.skipping /\ x.key <= savedKey')
    BY <1>1, <1>3, <1>5, <1>6
  <2>2. ASSUME NEW x \in Seen', Ahead(merge, "forward", x)', ~(loop'.skipping /\ x.key <= savedKey')
        PROVE  x.key \in Eligible' /\ \A y \in Seen' : y.key = x.key => Ahead(merge, "forward", y)'
    <3>1. x.key > shown.key
      BY <1>1, <1>2, <1>3, <1>5, <2>2
    <3>2. x.key \in Eligible'
      BY <1>2, <1>3, <1>4, <3>1
    <3>3. \A y \in Seen' : y.key = x.key => Ahead(merge, "forward", y)'
      BY <1>1, <1>2, <3>1
    <3> QED BY <3>2, <3>3
  <2>3. \A x \in Seen' : Ahead(merge, "forward", x)' /\ loop'.skipping => x.key >= savedKey'
    BY <1>1, <1>2
  <2> QED BY <1>1, <1>2, <2>1, <2>2, <2>3 DEF NextRight
<1> QED BY <1>1, <1>2, <1>7 DEF IterInv

LEMMA PrevEntryKeeps ==
    ASSUME IterInv, PrevEntry
    PROVE  IterInv'
<1>1. Calls("prev", 0) /\ shown.key # 0 /\ UNCHANGED <<merge, direction, savedValue>>
  BY DEF PrevEntry
<1>2. loop = NoLoop /\ UNCHANGED children
  BY <1>1 DEF Calls
<1>3. /\ IdleRight /\ ChildrenGood /\ MergeGood(merge)
      /\ direction \in Directions /\ savedKey \in 0 .. MaxUserKey
      /\ savedValue \in 0 .. Snapshot /\ shown.key \in 0 .. MaxUserKey /\ MaxUserKey \in Nat
  BY <1>2, BetweenOperations
<1>4. /\ direction = "forward" => Valid(merge) /\ Entry(merge).key = shown.key
      /\ direction = "reverse" =>
            /\ savedKey = shown.key
            /\ Valid(merge) => Entry(merge).key < shown.key
            /\ \A x \in Seen : x.key < shown.key => Ahead(merge, "reverse", x)
  BY <1>1, <1>3 DEF IdleRight
<1>5. [op |-> "prev", key |-> 0] \in Cursor!Operations
  BY DEF Cursor!Operations
<1>6. \A x \in Seen : x \in Entries /\ x.key \in Nat /\ x.key \in UserKeys
  BY <1>3, SeenEntries, EntryShape
<1>7. Valid(merge) => Entry(merge) \in Entries /\ Entry(merge).key \in Nat
  BY <1>3, StandsSomewhere, EntryShape
<1>8. /\ MergeGood(merge)' /\ Entry(merge)' = Entry(merge)
      /\ Valid(merge)' <=> Valid(merge)
      /\ \A x : Ahead(merge, "reverse", x)' <=> Ahead(merge, "reverse", x)
  BY <1>1, <1>2, <1>3, Taken
<1>9. shown.key \in Nat
  BY <1>3
<1>10. CASE direction = "forward"
  <2>1. savedKey' = shown.key /\ Enter("switch", FALSE)
    BY <1>4, <1>10 DEF PrevEntry
  <2>2. Starting("prev", 0, "switch", FALSE)
    BY <1>1, <1>3, <1>5, <2>1 DEF Starting
  <2>3. /\ UNCHANGED shown /\ Seen' = Seen /\ IterShapes' /\ ChildrenGood'
        /\ loop'.name = "switch" /\ call'.op = "prev"
    BY <2>2, OperationStarts
  <2>4. ASSUME NEW x \in Seen, x.key < shown.key PROVE Less("reverse", Entry(merge), x)
    <3>1. x.key < Entry(merge).key
      BY <1>4, <1>10, <2>4
    <3> QED BY <1>4, <1>6, <1>7, <1>10, <3>1, LessByKey
  <2>5. ASSUME NEW x \in Seen', x.key < savedKey' PROVE Less("reverse", Entry(merge), x)'
    <3>1. Less("reverse", Entry(merge), x)
      BY <2>1, <2>3, <2>4, <2>5
    <3>2. Less("reverse", Entry(merge), x)' <=> Less("reverse", Entry(merge)', x)
      BY DEF Less, EntryLess
    <3> QED BY <1>8, <3>1, <3>2
  <2>6. SwitchRight'
    BY <1>1, <1>4, <1>8, <1>10, <2>1, <2>3, <2>5 DEF SwitchRight
  <2> QED BY <1>8, <2>3, <2>6 DEF IterInv
<1>11. CASE direction = "reverse"
  <2>1. savedKey' = shown.key /\ Enter("prev", FALSE)
    BY <1>4, <1>11 DEF PrevEntry
  <2>2. Starting("prev", 0, "prev", FALSE)
    BY <1>1, <1>3, <1>5, <2>1 DEF Starting
  <2>3. /\ UNCHANGED shown /\ Seen' = Seen /\ IterShapes' /\ ChildrenGood'
        /\ loop'.name = "prev" /\ loop'.type = "deletion" /\ call'.op = "prev"
    BY <2>2, OperationStarts
  <2>4. Eligible' = {k \in UserKeys : k < shown.key}
    BY <2>3 DEF Eligible
  <2>5. ASSUME NEW x \in Seen, Ahead(merge, "reverse", x) PROVE x.key < shown.key
    <3>1. Valid(merge) /\ UpTo("reverse", Entry(merge), x)
      BY <2>5 DEF Ahead
    <3>2. x.key <= Entry(merge).key /\ Entry(merge).key < shown.key
      BY <1>4, <1>6, <1>7, <1>11, <3>1, LessByKey
    <3> QED BY <1>6, <1>7, <1>9, <3>1, <3>2
  <2>6. \A x \in Seen' : Ahead(merge, "reverse", x)' => x.key \in Eligible'
    BY <1>6, <1>8, <2>3, <2>4, <2>5
  <2>7. \A x \in Answers' : x \in Seen /\ x.key < shown.key
    BY <2>3, <2>4 DEF Answers
  <2>8. \A x \in Answers' : Ahead(merge, "reverse", x)'
    BY <1>4, <1>8, <1>11, <2>7
  <2>9. PrevRight'
    BY <1>1, <1>11, <2>3, <2>6, <2>8 DEF PrevRight
  <2> QED BY <1>8, <2>3, <2>9 DEF IterInv
<1> QED BY <1>3, <1>10, <1>11 DEF Directions

-----------------------------------------------------------------------------
(* A writer's insertion, and the steps of the loops.                       *)

LEMMA NothingMoves ==
    ASSUME IterInv, Seen' = Seen, ChildrenGood', MergeGood(merge)',
           UNCHANGED <<merge, direction, savedKey, savedValue, loop, call, shown>>
    PROVE  IterInv'
<1>1. /\ Eligible' = Eligible /\ Entry(merge)' = Entry(merge)
      /\ Valid(merge)' <=> Valid(merge)
  BY DEF Eligible, Entry, Valid
<1>2. \A dir, a, b : (Less(dir, a, b)' <=> Less(dir, a, b)) /\ (UpTo(dir, a, b)' <=> UpTo(dir, a, b))
  BY DEF Less, UpTo, EntryLess
<1>3. \A dir, x : /\ Ahead(merge, dir, x)' <=> Ahead(merge, dir, x)
                  /\ Less(dir, Entry(merge), x)' <=> Less(dir, Entry(merge), x)
                  /\ Less(dir, x, Entry(merge))' <=> Less(dir, x, Entry(merge))
  BY DEF Ahead, Less, UpTo, EntryLess, Entry, Valid
<1>4. \A x : Newest(x)' <=> Newest(x)
  BY <1>2 DEF Newest
<1>5. Answers' = Answers
  BY <1>1, <1>4 DEF Answers
<1>6. \A s : Saved(s)' <=> Saved(s)
  BY <1>1, <1>2, <1>3, <1>5 DEF Saved
<1>7. IterShapes' <=> IterShapes
  BY DEF IterShapes, Cursor!Operations
<1>8. IdleRight' <=> IdleRight
  BY <1>1, <1>3 DEF IdleRight
<1>9. NextRight' <=> NextRight
  BY <1>1, <1>3, <1>5 DEF NextRight
<1>10. SwitchRight' <=> SwitchRight
  BY <1>1, <1>3 DEF SwitchRight
<1>11. PrevRight' <=> PrevRight
  BY <1>1, <1>3, <1>5, <1>6 DEF PrevRight
<1> QED BY <1>7, <1>8, <1>9, <1>10, <1>11 DEF IterInv

LEMMA InsertEntryKeeps ==
    ASSUME IterInv, InsertEntry
    PROVE  IterInv'
<1>1. ChildrenGood /\ MergeGood(merge)
  BY DEF IterInv
<1>2. /\ Seen' = Seen /\ ChildrenGood'
      /\ \A c \in Child : children[c] \subseteq children'[c]
      /\ \A c \in Child : \A x \in children'[c] : x \in children[c] \/ ~(x.seq <= Snapshot)
  BY <1>1, WritesAreUnseen
<1>3. UNCHANGED <<merge, direction, savedKey, savedValue, loop, call, shown>>
  BY DEF InsertEntry
<1>4. MergeGood(merge)'
  <2>1. /\ Entry(merge)' = Entry(merge)
        /\ Valid(merge)' <=> Valid(merge)
    BY <1>3 DEF Entry, Valid
  <2>2. \A dir, a, b : (Less(dir, a, b)' <=> Less(dir, a, b)) /\ (UpTo(dir, a, b)' <=> UpTo(dir, a, b))
    BY DEF Less, UpTo, EntryLess
  <2>3. \A c \in Child : merge.pos[c] \in children'[c] \cup {NoEntry}
    BY <1>1, <1>2 DEF MergeGood
  <2>4. ASSUME Valid(merge), NEW c \in Child, NEW x \in children'[c], x.seq <= Snapshot,
               Less(merge.direction, Entry(merge), x)
        PROVE  merge.pos[c] # NoEntry /\ UpTo(merge.direction, merge.pos[c], x)
    <3>1. x \in children[c]
      BY <1>2, <2>4
    <3> QED BY <1>1, <2>4, <3>1 DEF MergeGood
  <2> QED BY <1>1, <1>3, <2>1, <2>2, <2>3, <2>4 DEF MergeGood
<1> QED BY <1>2, <1>3, <1>4, NothingMoves

LEMMA StutterKeeps ==
    ASSUME IterInv, UNCHANGED iterVars
    PROVE  IterInv'
<1>1. UNCHANGED <<children, inserted, merge, direction, savedKey, savedValue, loop, call, shown>>
  BY DEF iterVars
<1>2. ChildrenGood /\ MergeGood(merge)
  BY DEF IterInv
<1>3. Seen' = Seen /\ ChildrenGood'
  BY <1>1, <1>2, SameChildren
<1>4. MergeGood(merge)'
  BY <1>1, <1>2, Taken
<1> QED BY <1>1, <1>3, <1>4, NothingMoves

\* A loop that ends.
LEMMA LoopEnds ==
    ASSUME IterInv, UNCHANGED <<children, inserted, call>>, MergeGood(merge)',
           loop' = NoLoop, IdleRight',
           direction' \in Directions, savedKey' \in 0 .. MaxUserKey, savedValue' \in 0 .. Snapshot,
           shown' \in [key : 0 .. MaxUserKey, value : 0 .. Snapshot]
    PROVE  IterInv'
<1>1. ChildrenGood'
  BY SameChildren DEF IterInv
<1>2. IterShapes' /\ loop'.name = "none"
  BY DEF IterShapes, NoLoop, Types
<1> QED BY <1>1, <1>2 DEF IterInv

\* A loop that goes on.
LEMMA LoopGoesOn ==
    ASSUME IterInv, UNCHANGED <<children, inserted, call, shown>>, MergeGood(merge)',
           loop.name # "none",
           loop' \in [name : {"next", "prev", "switch"}, skipping : BOOLEAN, type : Types],
           direction' \in Directions, savedKey' \in 0 .. MaxUserKey, savedValue' \in 0 .. Snapshot,
           loop'.name = "next" => NextRight',
           loop'.name = "switch" => SwitchRight',
           loop'.name = "prev" => PrevRight'
    PROVE  IterInv'
<1>1. ChildrenGood'
  BY SameChildren DEF IterInv
<1>2. loop'.name # "none"
  OBVIOUS
<1>3. shown \in [key : 0 .. MaxUserKey, value : 0 .. Snapshot] /\ call \in Cursor!Operations
  BY DEF IterInv, IterShapes
<1>4. call' \in (Cursor!Operations)'
  BY <1>3 DEF Cursor!Operations
<1>5. IterShapes'
  BY <1>2, <1>3, <1>4 DEF IterShapes
<1> QED BY <1>1, <1>2, <1>5 DEF IterInv

\* What a step of a loop does: it goes on, or it ends with the answer that is
\* nearest in the direction of the operation.
NearestAnswer(s) ==
    \A x \in Answers : IF call.op \in {"last", "prev"} THEN x.key <= s.key ELSE s.key <= x.key

Answered ==
    \/ Answers = {} /\ shown' = [key |-> 0, value |-> 0]
    \/ \E s \in Answers : NearestAnswer(s) /\ shown' = [key |-> s.key, value |-> s.seq]

LoopSteps ==
    /\ loop.name # "none" /\ UNCHANGED <<children, call>>
    /\ \/ loop'.name # "none" /\ UNCHANGED shown
       \/ loop' = NoLoop /\ Answered

\* What the loops know of the entry they are on.
LEMMA LoopFacts ==
    ASSUME IterInv, loop.name # "none"
    PROVE  /\ ChildrenGood /\ MergeGood(merge) /\ Seen \subseteq Entries
           /\ \A x \in Seen : x.key \in Nat /\ x.key \in UserKeys /\ x.seq <= Snapshot
           /\ Valid(merge) => /\ Entry(merge) \in Entries /\ Entry(merge).key \in Nat
                              /\ Entry(merge).key \in 0 .. MaxUserKey
                              /\ Entry(merge).type \in Types
                              /\ Entry(merge).seq <= Snapshot =>
                                    Entry(merge) \in Seen /\ Entry(merge).seq \in 0 .. Snapshot
           /\ loop \in [name : {"none", "next", "prev", "switch"}, skipping : BOOLEAN, type : Types]
           /\ direction \in Directions /\ savedKey \in 0 .. MaxUserKey /\ savedKey \in Nat
           /\ savedValue \in 0 .. Snapshot
           /\ 0 \in 0 .. MaxUserKey /\ 0 \in 0 .. Snapshot
           /\ shown.key \in Nat
<1>1. ChildrenGood /\ MergeGood(merge) /\ IterShapes
  BY DEF IterInv
<1>2. MaxUserKey \in Nat /\ Snapshot \in Nat
  BY IterAssumption
<1>3. Valid(merge) => /\ Entry(merge) \in Entries
                      /\ Entry(merge).seq <= Snapshot => Entry(merge) \in Seen
  BY <1>1, StandsSomewhere
<1>4. Valid(merge) => /\ Entry(merge).key \in Nat /\ Entry(merge).key <= MaxUserKey
                      /\ Entry(merge).type \in Types /\ Entry(merge).seq \in Nat
  BY <1>3, EntryShape
<1>5. \A x \in Seen : x \in Entries /\ x.key \in Nat /\ x.key \in UserKeys /\ x.seq <= Snapshot
  BY <1>1, SeenEntries, EntryShape
<1> QED BY <1>1, <1>2, <1>3, <1>4, <1>5 DEF IterShapes

\* MergeNext and MergePrev, in a loop.
LEMMA LoopMoves ==
    ASSUME IterInv, loop.name # "none", Valid(merge), UNCHANGED children,
           NEW dir \in Directions, merge' = Move(dir, merge)
    PROVE  /\ MergeGood(merge)'
           /\ \A x \in Seen : Less(dir, Entry(merge), x) => Ahead(merge, dir, x)'
           /\ Valid(merge)' => /\ Less(dir, Entry(merge), Entry(merge)')
                               /\ Entry(merge)' \in Entries
           /\ \A x \in Seen : Ahead(merge, dir, x)' =>
                 Less(dir, Entry(merge), x) /\ Ahead(merge, dir, x)
           /\ \A x \in Seen : Ahead(merge, dir, x) => x = Entry(merge) \/ Ahead(merge, dir, x)'
<1>1. ChildrenGood /\ MergeGood(merge) /\ Entry(merge) \in Entries /\ Seen \subseteq Entries
  BY LoopFacts
<1> DEFINE n == Move(dir, merge)
<1>2. Moved(dir, merge, n)
  BY <1>1, MovesOn
<1> HIDE DEF n
<1>3. /\ MergeGood(n)
      /\ \A x \in Seen : Less(dir, Entry(merge), x) => Ahead(n, dir, x)
      /\ Valid(n) => Less(dir, Entry(merge), Entry(n))
  BY <1>2 DEF Moved
<1>4. Valid(n) => Entry(n) \in Entries
  BY <1>1, <1>3, StandsSomewhere
<1>5. /\ MergeGood(merge)' <=> MergeGood(n)
      /\ Valid(merge)' <=> Valid(n)
      /\ Entry(merge)' = Entry(n)
      /\ \A x : Ahead(merge, dir, x)' <=> Ahead(n, dir, x)
  <2>1. merge' = n
    BY DEF n
  <2> QED BY <2>1, Taken
<1>6. ASSUME NEW x \in Seen, Ahead(n, dir, x) PROVE Less(dir, Entry(merge), x) /\ Ahead(merge, dir, x)
  <2>1. Valid(n) /\ UpTo(dir, Entry(n), x)
    BY <1>6 DEF Ahead
  <2>2. Less(dir, Entry(merge), x)
    BY <1>1, <1>3, <1>4, <2>1, LessGoesOn
  <2> QED BY <2>2 DEF Ahead, UpTo
<1>7. ASSUME NEW x \in Seen, Ahead(merge, dir, x), x # Entry(merge) PROVE Ahead(n, dir, x)
  BY <1>3, <1>7 DEF Ahead, UpTo
<1> QED BY <1>3, <1>4, <1>5, <1>6, <1>7

LEMMA FindNextKeeps ==
    ASSUME IterInv, FindNextUserEntry
    PROVE  IterInv' /\ LoopSteps
<1> DEFINE e == Entry(merge)
           hidden == loop.skipping /\ e.key <= savedKey
<1>1. /\ loop.name = "next" /\ loop.name # "none"
      /\ UNCHANGED <<children, direction, savedValue, call, inserted>>
  BY DEF FindNextUserEntry
<1>2. /\ ChildrenGood /\ MergeGood(merge) /\ Seen \subseteq Entries
      /\ \A x \in Seen : x.key \in Nat /\ x.key \in UserKeys /\ x.seq <= Snapshot
      /\ Valid(merge) => /\ e \in Entries /\ e.key \in Nat
                         /\ e.key \in 0 .. MaxUserKey
                         /\ e.type \in Types
                         /\ e.seq <= Snapshot => e \in Seen /\ e.seq \in 0 .. Snapshot
      /\ loop \in [name : {"none", "next", "prev", "switch"}, skipping : BOOLEAN, type : Types]
      /\ direction \in Directions /\ savedKey \in 0 .. MaxUserKey /\ savedKey \in Nat
      /\ savedValue \in 0 .. Snapshot
      /\ 0 \in 0 .. MaxUserKey /\ 0 \in 0 .. Snapshot
  BY <1>1, LoopFacts
<1>3. /\ direction = "forward" /\ call.op \in {"first", "seek", "next"}
      /\ \A x \in Answers : Ahead(merge, "forward", x) /\ ~(loop.skipping /\ x.key <= savedKey)
      /\ \A x \in Seen :
            Ahead(merge, "forward", x) /\ ~(loop.skipping /\ x.key <= savedKey)
                => x.key \in Eligible /\ \A y \in Seen : y.key = x.key => Ahead(merge, "forward", y)
      /\ \A x \in Seen : Ahead(merge, "forward", x) /\ loop.skipping => x.key >= savedKey
  BY <1>1 DEF IterInv, NextRight
<1>4. \A x \in Answers : x \in Seen /\ Newest(x) /\ x.type = "value"
  BY DEF Answers
<1>5. Valid(merge) /\ e.seq <= Snapshot => Ahead(merge, "forward", e)
  BY <1>2, LessIsAnOrder DEF Ahead, Directions
<1>6. CASE ~Valid(merge) /\ ReturnInvalid /\ savedKey' = 0 /\ UNCHANGED merge
  <2>1. Answers = {}
    BY <1>3, <1>6 DEF Ahead
  <2>2. loop' = NoLoop /\ shown' = [key |-> 0, value |-> 0]
    BY <1>6 DEF ReturnInvalid
  <2>3. MergeGood(merge)'
    BY <1>1, <1>2, <1>6, Taken
  <2>4. IdleRight'
    BY <2>2 DEF IdleRight
  <2>5. IterInv'
    BY <1>1, <1>2, <1>6, <2>2, <2>3, <2>4, LoopEnds
  <2> QED BY <1>1, <2>1, <2>2, <2>5 DEF LoopSteps, Answered
<1>7. CASE /\ Valid(merge) /\ e.seq <= Snapshot /\ e.type = "value" /\ ~hidden
           /\ ReturnEntry(e.key, e.seq) /\ savedKey' = 0 /\ UNCHANGED merge
  <2>1. loop' = NoLoop /\ shown' = [key |-> e.key, value |-> e.seq]
    BY <1>7 DEF ReturnEntry
  <2>2. MergeGood(merge)' /\ Entry(merge)' = e /\ Valid(merge)'
    BY <1>1, <1>2, <1>7, Taken
  <2>3. IdleRight'
    BY <1>1, <1>3, <2>1, <2>2 DEF IdleRight
  <2>4. IterInv'
    <3>1. shown' \in [key : 0 .. MaxUserKey, value : 0 .. Snapshot]
      BY <1>2, <1>7, <2>1
    <3> QED BY <1>1, <1>2, <2>1, <2>2, <2>3, <3>1, <1>7, LoopEnds
  <2>5. e.key \in Eligible /\ \A y \in Seen : y.key = e.key => UpTo("forward", e, y)
    BY <1>2, <1>3, <1>5, <1>7 DEF Ahead
  <2>6. e \in Answers
    BY <1>2, <1>7, <2>5 DEF Answers, Newest
  <2>7. ASSUME NEW x \in Answers PROVE e.key <= x.key
    <3>1. UpTo("forward", e, x) /\ x \in Entries
      BY <1>2, <1>3, <1>4 DEF Ahead
    <3> QED BY <1>2, <1>7, <3>1, LessByKey
  <2>8. NearestAnswer(e)
    BY <1>3, <2>7 DEF NearestAnswer
  <2> QED BY <1>1, <2>1, <2>4, <2>6, <2>8 DEF LoopSteps, Answered
<1>8. ASSUME Valid(merge), merge' = MergeNext(merge)
      PROVE  /\ MergeGood(merge)'
             /\ \A x \in Seen : Less("forward", e, x) => Ahead(merge, "forward", x)'
             /\ \A x \in Seen : Ahead(merge, "forward", x)' => Less("forward", e, x) /\ Ahead(merge, "forward", x)
             /\ \A x \in Seen : Ahead(merge, "forward", x) => x = e \/ Ahead(merge, "forward", x)'
  <2>1. "forward" \in Directions /\ merge' = Move("forward", merge)
    BY <1>8 DEF Directions, Move
  <2> QED BY <1>1, <1>8, <2>1, LoopMoves
<1>9. CASE /\ Valid(merge) /\ e.seq <= Snapshot /\ e.type = "deletion"
           /\ Enter("next", TRUE) /\ savedKey' = e.key /\ merge' = MergeNext(merge)
  <2>1. loop' = [name |-> "next", skipping |-> TRUE, type |-> "deletion"] /\ UNCHANGED shown
    BY <1>9 DEF Enter, Looping
  <2>2. Seen' = Seen /\ Eligible' = Eligible /\ Answers' = Answers
    BY <1>1, <2>1, SameQuestion
  <2>3. e \in Seen /\ e \in Entries /\ Ahead(merge, "forward", e)
    BY <1>2, <1>5, <1>9
  <2>4. ASSUME NEW x \in Answers PROVE Ahead(merge, "forward", x)' /\ ~(x.key <= e.key)
    <3>1. x \in Seen /\ x \in Entries /\ x # e /\ Ahead(merge, "forward", x)
      BY <1>2, <1>3, <1>4, <1>9
    <3>2. Ahead(merge, "forward", x)' /\ Less("forward", e, x)
      BY <1>8, <1>9, <3>1 DEF Ahead, UpTo
    <3>3. e.key <= x.key
      BY <2>3, <3>1, <3>2, LessByKey, LessIsAnOrder DEF Directions
    <3>4. ASSUME x.key = e.key PROVE FALSE
      <4>1. ~hidden
        BY <1>3, <3>4
      <4>2. Newest(x)
        BY <1>4
      <4>3. UpTo("forward", x, e)
        BY <2>3, <3>4, <4>2 DEF Newest
      <4> QED BY <2>3, <3>1, <3>2, <4>3, LessIsAnOrder DEF Directions
    <3>5. x.key \in Nat /\ e.key \in Nat
      BY <1>2, <2>3, <3>1
    <3> QED BY <3>2, <3>3, <3>4, <3>5
  <2>5. ASSUME NEW x \in Seen, Ahead(merge, "forward", x)', ~(x.key <= e.key)
        PROVE  x.key \in Eligible /\ \A y \in Seen : y.key = x.key => Ahead(merge, "forward", y)'
    <3>1. Ahead(merge, "forward", x)
      BY <1>8, <1>9, <2>5
    <3>2. ~(loop.skipping /\ x.key <= savedKey)
      BY <1>2, <1>3, <2>3, <2>5
    <3>3. x.key \in Eligible
      BY <1>3, <3>1, <3>2
    <3>4. ASSUME NEW y \in Seen, y.key = x.key PROVE Ahead(merge, "forward", y)'
      <4>1. Less("forward", e, y)
        <5>1. e.key < y.key /\ y \in Entries
          BY <1>2, <2>3, <2>5, <3>4
        <5> QED BY <2>3, <5>1, LessByKey
      <4> QED BY <1>8, <1>9, <4>1
    <3> QED BY <3>3, <3>4
  <2>6. ASSUME NEW x \in Seen, Ahead(merge, "forward", x)' PROVE x.key >= e.key
    <3>1. Less("forward", e, x) /\ x \in Entries
      BY <1>2, <1>8, <1>9, <2>6
    <3>2. e.key <= x.key
      BY <2>3, <3>1, LessByKey, LessIsAnOrder DEF Directions
    <3> QED BY <1>2, <2>3, <3>2
  <2>7. NextRight'
    BY <1>1, <1>3, <1>9, <2>1, <2>2, <2>4, <2>5, <2>6 DEF NextRight
  <2>8. IterInv'
    <3>1. loop' \in [name : {"next", "prev", "switch"}, skipping : BOOLEAN, type : Types]
          /\ loop'.name = "next"
      BY <2>1 DEF Types
    <3>2. MergeGood(merge)' /\ savedKey' \in 0 .. MaxUserKey
      BY <1>2, <1>8, <1>9
    <3> QED BY <1>1, <1>2, <2>1, <2>7, <3>1, <3>2, LoopGoesOn
  <2> QED BY <1>1, <2>1, <2>8 DEF LoopSteps
<1>10. CASE /\ Valid(merge) /\ (~(e.seq <= Snapshot) \/ (e.type = "value" /\ hidden))
            /\ merge' = MergeNext(merge) /\ UNCHANGED <<loop, shown, savedKey>>
  <2>1. Seen' = Seen /\ Eligible' = Eligible /\ Answers' = Answers
    BY <1>1, <1>10, SameQuestion
  <2>2. ASSUME NEW x \in Seen, ~(loop.skipping /\ x.key <= savedKey) PROVE x # e
    BY <1>2, <1>10, <2>2
  <2>3. \A x \in Answers : Ahead(merge, "forward", x)'
    BY <1>3, <1>4, <1>8, <1>10, <2>2
  <2>4. ASSUME NEW x \in Seen, Ahead(merge, "forward", x)', ~(loop.skipping /\ x.key <= savedKey)
        PROVE  x.key \in Eligible /\ \A y \in Seen : y.key = x.key => Ahead(merge, "forward", y)'
    <3>1. x.key \in Eligible /\ \A y \in Seen : y.key = x.key => Ahead(merge, "forward", y)
      BY <1>3, <1>8, <1>10, <2>4
    <3> QED BY <1>8, <1>10, <2>2, <2>4, <3>1
  <2>5. \A x \in Seen : Ahead(merge, "forward", x)' => Ahead(merge, "forward", x)
    BY <1>8, <1>10
  <2>6. NextRight'
    BY <1>1, <1>3, <1>10, <2>1, <2>3, <2>4, <2>5 DEF NextRight
  <2>7. IterInv'
    <3>1. loop' \in [name : {"next", "prev", "switch"}, skipping : BOOLEAN, type : Types]
          /\ loop'.name = "next"
      BY <1>1, <1>2, <1>10
    <3>2. MergeGood(merge)' /\ savedKey' \in 0 .. MaxUserKey
      BY <1>2, <1>8, <1>10
    <3> QED BY <1>1, <1>2, <1>10, <2>6, <3>1, <3>2, LoopGoesOn
  <2> QED BY <1>1, <1>10, <2>7 DEF LoopSteps
<1> QED BY <1>6, <1>7, <1>9, <1>10 DEF FindNextUserEntry

LEMMA SwitchKeeps ==
    ASSUME IterInv, SwitchToReverse
    PROVE  IterInv' /\ LoopSteps
<1>1. /\ loop.name = "switch" /\ loop.name # "none"
      /\ UNCHANGED <<children, call, inserted>> /\ merge' = MergePrev(merge)
  BY DEF SwitchToReverse
<1>2. /\ Seen \subseteq Entries
      /\ \A x \in Seen : x.key \in Nat /\ x.key \in UserKeys
      /\ loop \in [name : {"none", "next", "prev", "switch"}, skipping : BOOLEAN, type : Types]
      /\ direction \in Directions /\ savedKey \in 0 .. MaxUserKey /\ savedKey \in Nat
      /\ savedValue \in 0 .. Snapshot
      /\ 0 \in 0 .. MaxUserKey /\ 0 \in 0 .. Snapshot
  BY <1>1, LoopFacts
<1>3. /\ direction = "forward" /\ call.op = "prev" /\ Valid(merge)
      /\ savedKey = shown.key
      /\ \A x \in Seen : x.key < savedKey => Less("reverse", Entry(merge), x)
  BY <1>1 DEF IterInv, SwitchRight
<1>4. /\ MergeGood(merge)'
      /\ \A x \in Seen : Less("reverse", Entry(merge), x) => Ahead(merge, "reverse", x)'
      /\ Valid(merge)' => Entry(merge)' \in Entries
  <2>1. "reverse" \in Directions /\ merge' = Move("reverse", merge)
    BY <1>1 DEF Directions, Move
  <2> QED BY <1>1, <1>3, <2>1, LoopMoves
<1>5. Valid(merge)' <=> Valid(merge')
  BY DEF Valid
<1>6. Entry(merge)' = Entry(merge')
  BY DEF Entry
<1>7. \A x \in Seen : x.key < savedKey => Ahead(merge, "reverse", x)'
  BY <1>3, <1>4
<1>8. \A x \in Seen : Ahead(merge, "reverse", x)' => Valid(merge)' /\ UpTo("reverse", Entry(merge)', x)
  BY DEF Ahead, UpTo, Less, EntryLess
<1>9. Valid(merge)' => Entry(merge)' \in Entries /\ Entry(merge)'.key \in Nat
  BY <1>4, EntryShape
<1>10. Eligible = {k \in UserKeys : k < savedKey}
  BY <1>3 DEF Eligible
<1>11. \A x \in Answers : x \in Seen /\ x.key < savedKey
  BY <1>10 DEF Answers
<1>12. CASE /\ ~Valid(merge') /\ ReturnInvalid
            /\ savedKey' = 0 /\ savedValue' = 0 /\ UNCHANGED direction
  <2>1. Answers = {}
    BY <1>5, <1>7, <1>8, <1>11, <1>12
  <2>2. loop' = NoLoop /\ shown' = [key |-> 0, value |-> 0]
    BY <1>12 DEF ReturnInvalid
  <2>3. IdleRight'
    BY <2>2 DEF IdleRight
  <2>4. IterInv'
    BY <1>1, <1>2, <1>4, <1>12, <2>2, <2>3, LoopEnds
  <2> QED BY <1>1, <2>1, <2>2, <2>4 DEF LoopSteps, Answered
<1>13. CASE /\ Valid(merge') /\ Entry(merge').key < savedKey
            /\ direction' = "reverse" /\ Enter("prev", FALSE)
            /\ UNCHANGED <<savedKey, savedValue>>
  <2>1. loop' = [name |-> "prev", skipping |-> FALSE, type |-> "deletion"] /\ UNCHANGED shown
    BY <1>13 DEF Enter, Looping
  <2>2. Seen' = Seen /\ Eligible' = Eligible /\ Answers' = Answers
    BY <1>1, <2>1, SameQuestion
  <2>3. ASSUME NEW x \in Seen, Ahead(merge, "reverse", x)' PROVE x.key \in Eligible
    <3>1. UpTo("reverse", Entry(merge)', x) /\ Entry(merge)'.key < savedKey
      BY <1>6, <1>8, <1>13, <2>3
    <3>2. x.key <= Entry(merge)'.key
      BY <1>2, <1>5, <1>9, <1>13, <3>1, LessByKey
    <3>3. x.key < savedKey
      BY <1>2, <1>5, <1>9, <1>13, <3>1, <3>2
    <3> QED BY <1>2, <1>10, <3>3
  <2>4. \A x \in Answers : Ahead(merge, "reverse", x)'
    BY <1>7, <1>11
  <2>5. PrevRight'
    BY <1>1, <1>3, <1>13, <2>1, <2>2, <2>3, <2>4 DEF PrevRight
  <2>6. IterInv'
    <3>1. loop' \in [name : {"next", "prev", "switch"}, skipping : BOOLEAN, type : Types]
          /\ loop'.name = "prev" /\ direction' \in Directions
      BY <1>13, <2>1 DEF Types, Directions
    <3> QED BY <1>1, <1>2, <1>4, <1>13, <2>1, <2>5, <3>1, LoopGoesOn
  <2> QED BY <1>1, <2>1, <2>6 DEF LoopSteps
<1>14. CASE /\ Valid(merge') /\ ~(Entry(merge').key < savedKey)
            /\ UNCHANGED <<direction, loop, savedKey, savedValue, shown>>
  <2>1. Seen' = Seen
    BY <1>1, <1>14, SameQuestion
  <2>2. ASSUME NEW x \in Seen, x.key < savedKey PROVE Less("reverse", Entry(merge)', x)
    <3>1. x.key < Entry(merge)'.key
      BY <1>2, <1>5, <1>6, <1>9, <1>14, <2>2
    <3> QED BY <1>2, <1>5, <1>9, <1>14, <3>1, LessByKey
  <2>3. \A x : Less("reverse", Entry(merge), x)' <=> Less("reverse", Entry(merge)', x)
    BY DEF Less, EntryLess
  <2>4. SwitchRight'
    BY <1>1, <1>3, <1>5, <1>14, <2>1, <2>2, <2>3 DEF SwitchRight
  <2>5. IterInv'
    <3>1. loop' \in [name : {"next", "prev", "switch"}, skipping : BOOLEAN, type : Types]
          /\ loop'.name = "switch"
      BY <1>1, <1>2, <1>14
    <3> QED BY <1>1, <1>2, <1>4, <1>14, <2>4, <3>1, LoopGoesOn
  <2> QED BY <1>1, <1>14, <2>5 DEF LoopSteps
<1> QED BY <1>12, <1>13, <1>14 DEF SwitchToReverse

\* An iteration of FindPrevUserEntry that moves on.
LEMMA PrevMoves ==
    ASSUME IterInv, FindPrevUserEntry, Valid(merge),
           ~(Entry(merge).seq <= Snapshot /\ Found(Entry(merge)))
    PROVE  IterInv' /\ LoopSteps
<1> DEFINE e == Entry(merge)
           seen == e.seq <= Snapshot
<1>1. /\ loop.name = "prev" /\ loop.name # "none"
      /\ UNCHANGED <<children, call, inserted, direction, shown>> /\ merge' = MergePrev(merge)
      /\ loop' = [loop EXCEPT !.type = IF seen THEN e.type ELSE @]
      /\ ~seen => savedKey' = savedKey /\ savedValue' = savedValue
      /\ seen /\ e.type = "deletion" => savedKey' = 0 /\ savedValue' = 0
      /\ seen /\ e.type # "deletion" => savedKey' = e.key /\ savedValue' = e.seq
  <2>1. Valid(merge) /\ ~(seen /\ Found(e))
    OBVIOUS
  <2>2. /\ loop.name = "prev"
        /\ UNCHANGED <<children, call, inserted, direction, shown>> /\ merge' = MergePrev(merge)
        /\ loop' = [loop EXCEPT !.type = IF seen THEN e.type ELSE @]
        /\ savedKey' = IF ~seen THEN savedKey ELSE IF e.type = "deletion" THEN 0 ELSE e.key
        /\ savedValue' = IF ~seen THEN savedValue ELSE IF e.type = "deletion" THEN 0 ELSE e.seq
    BY <2>1, Zenon DEF FindPrevUserEntry
  <2>3. /\ ~seen => savedKey' = savedKey /\ savedValue' = savedValue
        /\ seen /\ e.type = "deletion" => savedKey' = 0 /\ savedValue' = 0
        /\ seen /\ e.type # "deletion" => savedKey' = e.key /\ savedValue' = e.seq
    BY <2>2
  <2>4. loop.name # "none"
    BY <2>2
  <2> QED BY <2>2, <2>3, <2>4
<1>2. /\ Seen \subseteq Entries
      /\ \A x \in Seen : x.key \in Nat /\ x.key \in UserKeys /\ x.seq <= Snapshot
      /\ e \in Entries /\ e.key \in Nat /\ e.key \in 0 .. MaxUserKey /\ e.type \in Types
      /\ seen => e \in Seen /\ e.seq \in 0 .. Snapshot
      /\ loop \in [name : {"none", "next", "prev", "switch"}, skipping : BOOLEAN, type : Types]
      /\ direction \in Directions /\ savedKey \in 0 .. MaxUserKey /\ savedKey \in Nat
      /\ savedValue \in 0 .. Snapshot
      /\ 0 \in 0 .. MaxUserKey /\ 0 \in 0 .. Snapshot
  BY <1>1, LoopFacts
<1>3. /\ direction = "reverse" /\ call.op \in {"last", "prev"}
      /\ \A x \in Seen : Ahead(merge, "reverse", x) => x.key \in Eligible
      /\ loop.type = "deletion" => \A x \in Answers : Ahead(merge, "reverse", x)
      /\ loop.type = "value" => \E s \in Seen : Saved(s)
  BY <1>1 DEF IterInv, PrevRight
<1>4. /\ MergeGood(merge)'
      /\ \A x \in Seen : Less("reverse", e, x) => Ahead(merge, "reverse", x)'
      /\ Valid(merge)' => Less("reverse", e, Entry(merge)') /\ Entry(merge)' \in Entries
      /\ \A x \in Seen : Ahead(merge, "reverse", x)' =>
            Less("reverse", e, x) /\ Ahead(merge, "reverse", x)
      /\ \A x \in Seen : Ahead(merge, "reverse", x) => x = e \/ Ahead(merge, "reverse", x)'
  <2>1. "reverse" \in Directions /\ merge' = Move("reverse", merge)
    BY <1>1 DEF Directions, Move
  <2> QED BY <1>1, <2>1, LoopMoves
<1>5. Seen' = Seen /\ Eligible' = Eligible /\ Answers' = Answers
  BY <1>1, SameQuestion
<1>6. \A x \in Answers : x \in Seen /\ Newest(x) /\ x.type = "value"
  BY DEF Answers
<1>7. loop' \in [name : {"next", "prev", "switch"}, skipping : BOOLEAN, type : Types]
      /\ loop'.name = "prev" /\ loop'.type = IF seen THEN e.type ELSE loop.type
  <2>1. ASSUME NEW t \in Types, loop' = [loop EXCEPT !.type = t]
        PROVE  loop' \in [name : {"next", "prev", "switch"}, skipping : BOOLEAN, type : Types]
               /\ loop'.name = "prev" /\ loop'.type = t
    BY <1>1, <1>2, <2>1
  <2>2. (IF seen THEN e.type ELSE loop.type) \in Types
    BY <1>2
  <2> QED BY <1>1, <2>1, <2>2
<1>8. savedKey' \in 0 .. MaxUserKey /\ savedValue' \in 0 .. Snapshot
  BY <1>1, <1>2
<1>9. seen => Ahead(merge, "reverse", e)
  BY <1>2, LessIsAnOrder DEF Ahead, Directions
<1>10. \A s, x : /\ Less("reverse", s, x)' <=> Less("reverse", s, x)
                 /\ Less("reverse", s, Entry(merge))' <=> Less("reverse", s, Entry(merge)')
  BY DEF Less, EntryLess
<1>11. ASSUME NEW s \in Seen, Saved(s), ~(loop.type = "deletion"), seen
       PROVE  e.key = savedKey
  <2>1. Less("reverse", s, e) /\ s.key = savedKey
    BY <1>11 DEF Saved
  <2>2. e.key <= s.key
    BY <1>2, <1>11, <2>1, LessByKey, LessIsAnOrder DEF Directions
  <2>3. ~(e.key < savedKey)
    BY <1>11 DEF Found
  <2> QED BY <1>2, <2>1, <2>2, <2>3
<1>12. \A x \in Seen : Ahead(merge, "reverse", x)' => x.key \in Eligible
  BY <1>3, <1>4
<1>13. CASE ~seen
  <2>1. \A x \in Seen : Ahead(merge, "reverse", x) => Ahead(merge, "reverse", x)'
    BY <1>2, <1>4, <1>13
  <2>2. ASSUME NEW s \in Seen, Saved(s) PROVE Saved(s)'
    <3>1. Valid(merge)' => Less("reverse", s, Entry(merge)')
      BY <1>2, <1>4, <2>2, LessGoesOn DEF Saved, Directions
    <3>2. Valid(merge)' => Less("reverse", s, Entry(merge))'
      BY <1>10, <3>1
    <3>3. \A x \in Seen : Less("reverse", s, x)' => Ahead(merge, "reverse", x)'
      BY <1>10, <2>1, <2>2 DEF Saved
    <3> QED BY <1>1, <1>5, <1>13, <2>2, <3>2, <3>3 DEF Saved
  <2>3. PrevRight'
    BY <1>1, <1>3, <1>5, <1>6, <1>7, <1>12, <1>13, <2>1, <2>2 DEF PrevRight
  <2> QED BY <1>1, <1>2, <1>4, <1>7, <1>8, <2>3, LoopGoesOn DEF LoopSteps
<1>14. CASE seen /\ e.type = "deletion"
  <2>1. ASSUME NEW x \in Answers PROVE Ahead(merge, "reverse", x)'
    <3>1. x \in Seen /\ x \in Entries /\ x # e
      BY <1>2, <1>6, <1>14
    <3>2. CASE loop.type = "deletion"
      BY <1>3, <1>4, <3>1, <3>2
    <3>3. CASE loop.type = "value"
      <4>1. PICK s \in Seen : Saved(s)
        BY <1>3, <3>3
      <4>2. e.key = savedKey /\ x.key <= savedKey
        BY <1>11, <1>14, <3>3, <4>1 DEF Saved
      <4>3. CASE x.key < savedKey
        BY <1>2, <1>4, <3>1, <4>2, <4>3, LessByKey
      <4>4. CASE x.key = savedKey
        <5>1. Newest(x)
          BY <1>6
        <5>2. Less("forward", x, e)
          BY <1>2, <1>14, <3>1, <4>2, <4>4, <5>1 DEF Newest, UpTo
        <5>3. Less("reverse", e, x)
          BY <1>2, <3>1, <5>2, LessByKey
        <5> QED BY <1>4, <3>1, <5>3
      <4> QED BY <1>2, <3>1, <4>2, <4>3, <4>4
    <3> QED BY <1>2, <3>2, <3>3 DEF Types
  <2>2. PrevRight'
    BY <1>1, <1>3, <1>5, <1>7, <1>12, <1>14, <2>1 DEF PrevRight
  <2> QED BY <1>1, <1>2, <1>4, <1>7, <1>8, <2>2, LoopGoesOn DEF LoopSteps
<1>15. CASE seen /\ e.type = "value"
  <2>1. ASSUME NEW x \in Answers PROVE x.key <= e.key
    <3>1. x \in Seen /\ x \in Entries
      BY <1>2, <1>6
    <3>2. CASE loop.type = "deletion"
      <4>1. UpTo("reverse", e, x)
        BY <1>3, <3>2 DEF Ahead
      <4> QED BY <1>2, <3>1, <4>1, LessByKey
    <3>3. CASE loop.type = "value"
      <4>1. PICK s \in Seen : Saved(s)
        BY <1>3, <3>3
      <4> QED BY <1>11, <1>15, <3>3, <4>1 DEF Saved
    <3> QED BY <1>2, <3>2, <3>3 DEF Types
  <2>2. e \in Seen /\ e.key \in Eligible
    BY <1>2, <1>3, <1>9, <1>15
  <2>3. \E s \in Seen : Saved(s)'
    <3>1. PICK s \in Seen : s = e
      BY <2>2
    <3>2. /\ s.key = savedKey' /\ s.seq = savedValue' /\ s.type = "value" /\ s.key \in Eligible
          /\ \A x \in Seen : Less("reverse", s, x) => Ahead(merge, "reverse", x)'
          /\ Valid(merge)' => Less("reverse", s, Entry(merge)')
          /\ \A x \in Answers : x.key <= savedKey'
      BY <1>1, <1>4, <1>15, <2>1, <2>2, <3>1
    <3>3. Saved(s)'
      BY <1>5, <1>10, <3>2 DEF Saved
    <3> QED BY <3>3
  <2>4. PrevRight'
    BY <1>1, <1>3, <1>5, <1>7, <1>12, <1>15, <2>2, <2>3 DEF PrevRight
  <2> QED BY <1>1, <1>2, <1>4, <1>7, <1>8, <2>4, LoopGoesOn DEF LoopSteps
<1> QED BY <1>2, <1>13, <1>14, <1>15 DEF Types

\* The end of FindPrevUserEntry.
LEMMA PrevEnds ==
    ASSUME IterInv, FindPrevUserEntry,
           ~(Valid(merge) /\ ~(Entry(merge).seq <= Snapshot /\ Found(Entry(merge))))
    PROVE  IterInv' /\ LoopSteps
<1>1. /\ loop.name = "prev" /\ loop.name # "none"
      /\ UNCHANGED <<children, call, inserted, merge>>
      /\ loop.type = "deletion" => /\ ReturnInvalid /\ direction' = "forward"
                                   /\ savedKey' = 0 /\ savedValue' = 0
      /\ loop.type # "deletion" => /\ ReturnEntry(savedKey, savedValue)
                                   /\ UNCHANGED <<direction, savedKey, savedValue>>
  BY DEF FindPrevUserEntry
<1>2. /\ MergeGood(merge) /\ ChildrenGood /\ Seen \subseteq Entries
      /\ \A x \in Seen : x.key \in Nat /\ x.key \in UserKeys /\ x.seq <= Snapshot
      /\ Valid(merge) => Entry(merge) \in Entries /\ Entry(merge).key \in Nat
      /\ loop \in [name : {"none", "next", "prev", "switch"}, skipping : BOOLEAN, type : Types]
      /\ direction \in Directions /\ savedKey \in 0 .. MaxUserKey /\ savedKey \in Nat
      /\ savedValue \in 0 .. Snapshot
      /\ 0 \in 0 .. MaxUserKey /\ 0 \in 0 .. Snapshot
  BY <1>1, LoopFacts
<1>3. /\ direction = "reverse" /\ call.op \in {"last", "prev"}
      /\ loop.type = "deletion" => \A x \in Answers : Ahead(merge, "reverse", x)
      /\ loop.type = "value" => \E s \in Seen : Saved(s)
  BY <1>1 DEF IterInv, PrevRight
<1>4. MergeGood(merge)' /\ Entry(merge)' = Entry(merge)
  BY <1>1, <1>2, Taken
<1>5. Valid(merge)' <=> Valid(merge)
  BY <1>1 DEF Valid
<1>6. Seen' = Seen
  BY <1>1, SameChildren
<1>7. \A x : Ahead(merge, "reverse", x)' <=> Ahead(merge, "reverse", x)
  BY <1>1, Taken
<1>8. CASE loop.type = "deletion"
  <2>1. Answers = {}
    BY <1>1, <1>3, <1>8 DEF Ahead, Found
  <2>2. loop' = NoLoop /\ shown' = [key |-> 0, value |-> 0]
    BY <1>1, <1>8 DEF ReturnInvalid
  <2>3. IdleRight'
    BY <2>2 DEF IdleRight
  <2>4. IterInv'
    BY <1>1, <1>2, <1>4, <1>8, <2>2, <2>3, LoopEnds DEF Directions
  <2> QED BY <1>1, <2>1, <2>2, <2>4 DEF LoopSteps, Answered
<1>9. CASE loop.type = "value"
  <2>1. PICK s \in Seen : Saved(s)
    BY <1>3, <1>9
  <2>2. /\ s.key = savedKey /\ s.seq = savedValue /\ s.type = "value" /\ s.key \in Eligible
        /\ \A x \in Seen : Less("reverse", s, x) => Ahead(merge, "reverse", x)
        /\ \A x \in Answers : x.key <= savedKey
    BY <2>1 DEF Saved
  <2>3. /\ loop' = NoLoop /\ shown' = [key |-> savedKey, value |-> savedValue]
        /\ direction' = "reverse" /\ savedKey' = savedKey /\ savedValue' = savedValue
    BY <1>1, <1>3, <1>9 DEF ReturnEntry
  <2>4. Valid(merge) => Entry(merge).key < savedKey
    BY DEF Found
  <2>5. \A x \in Seen : x.key < savedKey => Ahead(merge, "reverse", x)
    BY <1>2, <2>2, LessByKey
  <2>6. IdleRight'
    BY <1>4, <1>5, <1>6, <1>7, <2>3, <2>4, <2>5 DEF IdleRight
  <2>7. IterInv'
    BY <1>1, <1>2, <1>4, <2>3, <2>6, LoopEnds DEF Directions
  <2>8. ASSUME NEW y \in Seen, y.key = s.key PROVE UpTo("forward", s, y)
    <3> SUFFICES ASSUME Less("reverse", s, y) PROVE FALSE
      <4>1. s.seq = y.seq => s = y
        BY <1>2, <2>8 DEF ChildrenGood, Seen
      <4>2. Less("reverse", s, y) \/ Less("reverse", y, s) \/ s = y
        BY <1>2, <2>8, <4>1, LessIsAnOrder DEF Directions
      <4> QED BY <1>2, <4>2, LessByKey DEF UpTo
    <3>1. Valid(merge) /\ UpTo("reverse", Entry(merge), y)
      BY <2>2 DEF Ahead
    <3>2. y.key <= Entry(merge).key
      BY <1>2, <3>1, LessByKey
    <3> QED BY <1>2, <2>2, <2>4, <2>8, <3>1, <3>2
  <2>9. s \in Answers
    BY <2>2, <2>8 DEF Answers, Newest
  <2>10. NearestAnswer(s)
    BY <1>3, <2>2 DEF NearestAnswer
  <2> QED BY <1>1, <2>2, <2>3, <2>7, <2>9, <2>10 DEF LoopSteps, Answered
<1> QED BY <1>2, <1>8, <1>9 DEF Types

LEMMA StepsKeep ==
    ASSUME IterInv, Steps
    PROVE  IterInv' /\ LoopSteps
<1>1. CASE FindNextUserEntry
  BY <1>1, FindNextKeeps
<1>2. CASE SwitchToReverse
  BY <1>2, SwitchKeeps
<1>3. CASE FindPrevUserEntry
  BY <1>3, PrevMoves, PrevEnds
<1> QED BY <1>1, <1>2, <1>3 DEF Steps

LEMMA IterNextKeeps ==
    ASSUME IterInv, [IterNext]_iterVars
    PROVE  IterInv'
<1>1. CASE SeekToFirst
  BY <1>1, SeekToFirstKeeps
<1>2. CASE SeekToLast
  BY <1>2, SeekToLastKeeps
<1>3. CASE NextEntry
  BY <1>3, NextEntryKeeps
<1>4. CASE PrevEntry
  BY <1>4, PrevEntryKeeps
<1>5. CASE InsertEntry
  BY <1>5, InsertEntryKeeps
<1>6. CASE Steps
  BY <1>6, StepsKeep
<1>7. CASE \E key \in UserKeys : Seek(key)
  BY <1>7, SeekKeeps
<1>8. CASE UNCHANGED iterVars
  BY <1>8, StutterKeeps
<1> QED BY <1>1, <1>2, <1>3, <1>4, <1>5, <1>6, <1>7, <1>8 DEF IterNext

LEMMA IterInvHolds == IterSpec => []IterInv
<1>1. IterInit => IterInv
  BY IterInitInv
<1>2. IterInv /\ [IterNext]_iterVars => IterInv'
  BY IterNextKeeps
<1> QED BY <1>1, <1>2, PTL DEF IterSpec

-----------------------------------------------------------------------------
(* The theorems about the iterator.                                        *)

\* After every call of Next, Prev or a seek the merging iterator stands where
\* the direction says (comments (1) and (2) of DBIter's direction_): on the
\* entry that is shown, or before every entry of its key.
THEOREM IteratorStaysConsistent == IterSpec => []IterConsistent
<1>1. IterInv => IterConsistent
  <2> SUFFICES ASSUME IterInv PROVE IterConsistent
    OBVIOUS
  <2>1. MergeGood(merge) /\ IterShapes
    BY DEF IterInv
  <2>2. loop = NoLoop => IdleRight
    BY BetweenOperations
  <2>3. IterTypeOK
    BY <2>1, <2>2 DEF IterTypeOK, MergeGood, IterShapes, IdleRight, Directions
  <2>4. BeforeCurrentKey
    BY <2>2 DEF BeforeCurrentKey, IdleRight
  <2> QED BY <2>3, <2>4 DEF IterConsistent
<1> QED BY <1>1, IterInvHolds, PTL

\* What the snapshot's view offers the operation that runs is what answers it.
LEMMA CandidatesAreAnswers ==
    ASSUME ChildrenGood, call \in Cursor!Operations
    PROVE  /\ Cursor!Candidates(call) = {x.key : x \in Answers}
           /\ \A x \in Answers : View[x.key] = x.seq /\ x.key \in Nat
<1>1. \A x \in Seen : x.key \in Nat /\ x.key \in UserKeys
  BY SeenEntries, EntryShape
<1>2. ASSUME NEW k \in UserKeys
      PROVE  View[k] # 0 <=> \E x \in Seen : x.key = k /\ Newest(x) /\ x.type = "value"
  BY ViewIsNewest
<1>3. Cursor!Visible = {k \in UserKeys : View[k] # 0}
  BY DEF Cursor!Visible
<1>4. Cursor!Candidates(call) = {k \in Cursor!Visible : k \in Eligible}
  <2>1. Cursor!Visible \subseteq UserKeys
    BY <1>3
  <2>2. call.op \in {"first", "last", "next", "prev", "seek"}
    BY DEF Cursor!Operations
  <2>3. CASE call.op = "seek"
    BY <2>1, <2>3 DEF Cursor!Candidates, Eligible
  <2>4. CASE call.op = "next"
    BY <2>1, <2>4 DEF Cursor!Candidates, Eligible
  <2>5. CASE call.op = "prev"
    BY <2>1, <2>5 DEF Cursor!Candidates, Eligible
  <2>6. CASE call.op \in {"first", "last"}
    BY <2>1, <2>6 DEF Cursor!Candidates, Eligible
  <2> QED BY <2>2, <2>3, <2>4, <2>5, <2>6
<1>5. \A x \in Answers : x \in Seen /\ Newest(x) /\ x.type = "value" /\ x.key \in Eligible
  BY DEF Answers
<1>6. ASSUME NEW k \in Cursor!Candidates(call) PROVE \E x \in Answers : x.key = k
  <2>1. k \in UserKeys /\ View[k] # 0 /\ k \in Eligible
    BY <1>3, <1>4
  <2>2. PICK x \in Seen : x.key = k /\ Newest(x) /\ x.type = "value"
    BY <1>2, <2>1
  <2> QED BY <2>1, <2>2 DEF Answers
<1>7. \A x \in Answers : x.key \in Cursor!Candidates(call)
  BY <1>1, <1>2, <1>3, <1>4, <1>5
<1>8. \A x \in Answers : View[x.key] = x.seq
  BY <1>1, <1>5, ViewIsNewest
<1> QED BY <1>1, <1>5, <1>6, <1>7, <1>8

LEMMA AnswerIsResult ==
    ASSUME ChildrenGood, call \in Cursor!Operations, Answered
    PROVE  shown' = Cursor!Result(call)
<1> DEFINE C == Cursor!Candidates(call)
<1>1. C = {x.key : x \in Answers} /\ \A x \in Answers : View[x.key] = x.seq /\ x.key \in Nat
  BY CandidatesAreAnswers
<1>2. CASE Answers = {} /\ shown' = [key |-> 0, value |-> 0]
  <2>1. C = {}
    BY <1>1, <1>2
  <2> QED BY <1>2, <2>1 DEF Cursor!Result
<1>3. ASSUME NEW s \in Answers, NearestAnswer(s), shown' = [key |-> s.key, value |-> s.seq]
      PROVE  shown' = Cursor!Result(call)
  <2>1. s.key \in C /\ \A k \in C : k \in Nat
    BY <1>1
  <2>2. \A k \in C : IF call.op \in {"last", "prev"} THEN k <= s.key ELSE s.key <= k
    BY <1>1, <1>3 DEF NearestAnswer
  <2>3. Cursor!Nearest(call) = s.key
    <3> HIDE DEF C
    <3>1. CASE call.op \in {"last", "prev"}
      <4>1. s.key \in C /\ \A k \in C : s.key >= k
        BY <2>1, <2>2, <3>1
      <4>2. Cursor!Max(C) \in C /\ \A k \in C : Cursor!Max(C) >= k
        BY <4>1 DEF Cursor!Max
      <4>3. Cursor!Max(C) = s.key
        BY <2>1, <4>1, <4>2
      <4> QED BY <3>1, <4>3 DEF Cursor!Nearest, C
    <3>2. CASE call.op \notin {"last", "prev"}
      <4>1. s.key \in C /\ \A k \in C : s.key <= k
        BY <2>1, <2>2, <3>2
      <4>2. Cursor!Min(C) \in C /\ \A k \in C : Cursor!Min(C) <= k
        BY <4>1 DEF Cursor!Min
      <4>3. Cursor!Min(C) = s.key
        BY <2>1, <4>1, <4>2
      <4> QED BY <3>2, <4>3 DEF Cursor!Nearest, C
    <3> QED BY <3>1, <3>2
  <2>4. View[s.key] = s.seq
    BY <1>1
  <2>5. C # {}
    BY <2>1
  <2> HIDE DEF C
  <2> QED BY <1>3, <2>3, <2>4, <2>5 DEF Cursor!Result, C
<1> QED BY <1>2, <1>3 DEF Answered

\* An operation that starts its loop is a call of the cursor.
LEMMA CallImplements ==
    ASSUME NEW op, NEW k, Calls(op, k), [op |-> op, key |-> k] \in Cursor!Operations,
           op \in {"next", "prev"} => shown.key # 0,
           NEW name, name # "none", NEW skipping, Enter(name, skipping)
    PROVE  Cursor!Call
<1>1. /\ loop = NoLoop /\ call' = [op |-> op, key |-> k] /\ UNCHANGED <<children, shown>>
      /\ loop' = [name |-> name, skipping |-> skipping, type |-> "deletion"]
  BY DEF Calls, Enter, Looping
<1>2. loop' # NoLoop
  <2>1. loop'.name = name /\ NoLoop.name = "none"
    BY <1>1 DEF NoLoop
  <2> QED BY <2>1
<1>3. View' = View
  BY <1>1, SameChildren
<1>4. NoLoop' = NoLoop
  BY DEF NoLoop
<1>5. PICK c \in Cursor!Operations : c = [op |-> op, key |-> k]
  OBVIOUS
<1>6. c.op = op
  BY <1>5
<1> QED BY <1>1, <1>2, <1>3, <1>4, <1>5, <1>6 DEF Cursor!Call, Cursor!NoOperation

\* A step of a loop is nothing to the cursor, or it returns.
LEMMA LoopImplements ==
    ASSUME IterInv, LoopSteps
    PROVE  Cursor!Return \/ UNCHANGED Cursor!vars
<1>1. loop.name # "none" /\ UNCHANGED <<children, call>> /\ NoLoop' = NoLoop /\ NoLoop.name = "none"
  BY DEF LoopSteps, NoLoop
<1>2. loop # NoLoop /\ View' = View
  BY <1>1, SameChildren
<1>3. CASE loop'.name # "none" /\ UNCHANGED shown
  <2>1. loop' # NoLoop
    BY <1>1, <1>3
  <2> QED BY <1>1, <1>2, <1>3, <2>1 DEF Cursor!vars
<1>4. CASE loop' = NoLoop /\ Answered
  <2>1. call \in Cursor!Operations /\ ChildrenGood
    BY <1>1 DEF IterInv, IterShapes
  <2>2. shown' = Cursor!Result(call)
    BY <1>4, <2>1, AnswerIsResult
  <2>3. call # [op |-> "none", key |-> 0]
    BY <2>1 DEF Cursor!Operations
  <2> DEFINE pending == IF loop = NoLoop THEN [op |-> "none", key |-> 0] ELSE call
  <2>4. pending = call /\ pending' = [op |-> "none", key |-> 0]
    BY <1>1, <1>2, <1>4
  <2>5. Cursor!Return
    BY <1>2, <2>2, <2>3, <2>4 DEF Cursor!Return, Cursor!NoOperation
  <2> QED BY <2>5
<1> QED BY <1>3, <1>4 DEF LoopSteps

\* Nothing that the cursor sees changes.
LEMMA InsertImplements ==
    ASSUME IterInv, InsertEntry \/ UNCHANGED iterVars
    PROVE  UNCHANGED Cursor!vars
<1>1. UNCHANGED <<loop, call, shown>> /\ NoLoop' = NoLoop
  BY DEF InsertEntry, iterVars, NoLoop
<1>2. View' = View
  <2>1. CASE InsertEntry
    BY <2>1, WritesAreUnseen DEF IterInv
  <2>2. CASE UNCHANGED iterVars
    BY <2>2, SameChildren DEF iterVars
  <2> QED BY <2>1, <2>2
<1> QED BY <1>1, <1>2 DEF Cursor!vars

\* The iterator implements the cursor over its snapshot (SnapshotIterator):
\* whatever is inserted meanwhile and however often the direction changes, each
\* call of Seek, SeekToFirst, SeekToLast, Next or Prev ends on the nearest key
\* that the snapshot has a value for, with that value.
THEOREM IteratorIsACursor == IterSpec => ImplementsCursor
<1>1. IterInit => Cursor!Init
  BY DEF IterInit, Cursor!Init, Cursor!NoOperation
<1>2. ASSUME IterInv, [IterNext]_iterVars
      PROVE  [Cursor!Call \/ Cursor!Return]_(Cursor!vars)
  <2>1. CASE SeekToFirst
    <3>1. [op |-> "first", key |-> 0] \in Cursor!Operations
      BY DEF Cursor!Operations
    <3>2. Calls("first", 0) /\ Enter("next", FALSE)
      BY <2>1 DEF SeekToFirst
    <3> QED BY <3>1, <3>2, CallImplements
  <2>2. CASE SeekToLast
    <3>1. [op |-> "last", key |-> 0] \in Cursor!Operations
      BY DEF Cursor!Operations
    <3>2. Calls("last", 0) /\ Enter("prev", FALSE)
      BY <2>2 DEF SeekToLast
    <3> QED BY <3>1, <3>2, CallImplements
  <2>3. ASSUME NEW k \in UserKeys, Seek(k) PROVE Cursor!Call
    <3>1. [op |-> "seek", key |-> k] \in Cursor!Operations
      BY DEF Cursor!Operations
    <3>2. Calls("seek", k) /\ Enter("next", FALSE)
      BY <2>3 DEF Seek
    <3> QED BY <3>1, <3>2, CallImplements
  <2>4. CASE NextEntry
    <3>1. [op |-> "next", key |-> 0] \in Cursor!Operations
      BY DEF Cursor!Operations
    <3>2. shown.key # 0 /\ Calls("next", 0) /\ Enter("next", TRUE)
      BY <2>4 DEF NextEntry
    <3> QED BY <3>1, <3>2, CallImplements
  <2>5. CASE PrevEntry
    <3>1. [op |-> "prev", key |-> 0] \in Cursor!Operations
      BY DEF Cursor!Operations
    <3>2. shown.key # 0 /\ Calls("prev", 0) /\ (Enter("switch", FALSE) \/ Enter("prev", FALSE))
      BY <2>5 DEF PrevEntry
    <3> QED BY <3>1, <3>2, CallImplements
  <2>6. CASE InsertEntry \/ UNCHANGED iterVars
    BY <1>2, <2>6, InsertImplements
  <2>7. CASE Steps
    BY <1>2, <2>7, StepsKeep, LoopImplements
  <2> QED BY <1>2, <2>1, <2>2, <2>3, <2>4, <2>5, <2>6, <2>7 DEF IterNext
<1> QED BY <1>1, <1>2, IterInvHolds, PTL DEF IterSpec, ImplementsCursor, Cursor!CursorSpec
=============================================================================
