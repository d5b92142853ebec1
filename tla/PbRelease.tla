------------------------------ MODULE PbRelease ------------------------------
(***************************************************************************)
(* Who owns what nanopb allocates while it decodes a message whose fields  *)
(* are pointers (pb_decode.c with PB_ENABLE_MALLOC, as the app builds it). *)
(* The message has an optional string, an optional submessage, a repeated  *)
(* string and a oneof with a member of every kind; a submessage has one    *)
(* string.  Every occurrence of a field on the wire is an action: fields   *)
(* may come several times and in any order, and may fail at every step.    *)
(***************************************************************************)
EXTENDS Naturals, Sequences, FiniteSets, FiniteSetsExt, Functions, TLC

CONSTANTS
    Objects,        \* bound: places in the heap, numbers from 1
    MaxCount,       \* bound: entries of the repeated field
    MaxFields       \* bound: occurrences of fields in one message

ASSUME BoundsAssumption ==
    Objects \subseteq Nat \ {0} /\ MaxCount \in Nat /\ MaxFields \in Nat

Members == {"oneof string", "oneof submessage", "oneof number", "oneof struct"}

VARIABLES
    stage,          \* before pb_decode, in it, after it
    fields,         \* occurrences decoded so far
    m               \* heap and message, and whether a pointer was misused

releaseVars == <<stage, fields, m>>

\* Null is 0.  A place of the heap holds the pointers that its object has: a
\* string none, a submessage its string, an array its entries.  The union is a
\* pointer, a number, or a struct with the pointer of its string.
Empty ==
    [heap |-> <<>>, string |-> 0, submessage |-> 0, array |-> 0, count |-> 0,
     which |-> "none", union |-> [kind |-> "pointer", ptr |-> 0], wild |-> FALSE]

ReleaseInit == stage = "before" /\ fields = 0 /\ m = Empty

-----------------------------------------------------------------------------
(* Allocation, as functions of the state.                                  *)

Fresh(s) == Min(Objects \ DOMAIN s.heap)
MayAllocate(s) == Objects \ DOMAIN s.heap # {}

\* pb_free.
Free(s, p) ==
    IF p = 0 THEN s
    ELSE IF p \in DOMAIN s.heap THEN [s EXCEPT !.heap = Restrict(@, DOMAIN @ \ {p})]
    ELSE [s EXCEPT !.wild = TRUE]

\* pb_realloc: the object moves.
Realloc(s, p, contents) ==
    LET freed == Free(s, p)
    IN  [freed EXCEPT !.heap = (Fresh(s) :> contents) @@ @]

\* pb_release of a submessage and pb_free of it.
FreeSubmessage(s, p) ==
    IF p = 0 THEN s
    ELSE IF p \notin DOMAIN s.heap THEN [s EXCEPT !.wild = TRUE]
    ELSE Free(Free(s, s.heap[p][1]), p)

-----------------------------------------------------------------------------
(* pb_release_single_field, by the field.                                  *)

ReleaseString(s) == [Free(s, s.string) EXCEPT !.string = 0]

ReleaseSubmessage(s) == [FreeSubmessage(s, s.submessage) EXCEPT !.submessage = 0]

\* "We are going to release the array, so set the size to 0".
SizeAfterRelease(count) == 0

\* Entries up to the count, then the array.
ReleaseArray(s) ==
    IF s.array = 0 THEN [s EXCEPT !.count = SizeAfterRelease(@)]
    ELSE LET entries == {s.heap[s.array][i] : i \in 1..s.count} \ {0}
         IN  [Free([s EXCEPT !.heap = [p \in DOMAIN @ \ entries |-> @[p]],
                             !.wild = @ \/ ~(entries \subseteq DOMAIN s.heap)], s.array)
                EXCEPT !.array = 0, !.count = SizeAfterRelease(@)]

\* A pointer is read from the union: wild if something else is there.
UnionPointer(s, kind) == IF s.union.kind = kind THEN s.union.ptr ELSE 0

\* Only the member that which_ names; which_ stays.
ReleaseOneof(s) ==
    CASE s.which = "oneof string" ->
            [Free(s, UnionPointer(s, "pointer")) EXCEPT
                !.union = [kind |-> "pointer", ptr |-> 0],
                !.wild = @ \/ s.union.kind # "pointer"]
      [] s.which = "oneof submessage" ->
            [FreeSubmessage(s, UnionPointer(s, "pointer")) EXCEPT
                !.union = [kind |-> "pointer", ptr |-> 0],
                !.wild = @ \/ s.union.kind # "pointer"]
      [] s.which = "oneof struct" ->
            [Free(s, UnionPointer(s, "struct")) EXCEPT
                !.union = [kind |-> "struct", ptr |-> 0],
                !.wild = @ \/ s.union.kind # "struct"]
      [] OTHER -> s

\* pb_release.
ReleaseMessage(s) == ReleaseOneof(ReleaseArray(ReleaseSubmessage(ReleaseString(s))))

-----------------------------------------------------------------------------
(* Decoding.  A result is a state and whether it went well.                *)

Good(s) == [state |-> s, ok |-> TRUE]
Bad(s) == [state |-> s, ok |-> FALSE]

\* pb_dec_string allocates a string in place of p.
StringFor(s, p) == Realloc(s, p, <<>>)

\* pb_dec_string into the pointer p, put back by put: the length or the
\* allocation may fail, or, with the string allocated, the data.
DecodeString(s, p, put(_, _)) ==
    {Bad(s)} \cup
    IF ~MayAllocate(s) THEN {}
    ELSE LET t == put(StringFor(s, p), Fresh(s)) IN {Good(t), Bad(t)}

\* pb_dec_submessage of the submessage at p: its string comes or not.
DecodeInto(s, p) ==
    {Good(s), Bad(s)} \cup
    DecodeString(s, s.heap[p][1], LAMBDA t, q : [t EXCEPT !.heap[p] = <<q>>])

OptionalString(s) == DecodeString(s, s.string, LAMBDA t, q : [t EXCEPT !.string = q])

\* Mutant: a submessage that comes again is not released.
ReleaseDuplicateNever(s) == s

\* decode_pointer_field: "Duplicate field, have to release the old allocation
\* first."
ReleaseDuplicate(s) == ReleaseSubmessage(s)

OptionalSubmessage(s) ==
    LET t == ReleaseDuplicate(s)
        q == Fresh(t)
        u == [Realloc(t, t.submessage, <<0>>) EXCEPT !.submessage = q]
    IN  {Bad(t)} \cup IF MayAllocate(t) THEN DecodeInto(u, q) ELSE {}

\* A repeated string: the array grows by an entry, which counts at once and is
\* null until its string is allocated.
RepeatedString(s) ==
    LET entries == IF s.array = 0 THEN <<>> ELSE s.heap[s.array]
        q == Fresh(s)
        grown == [Realloc(s, s.array, Append(SubSeq(entries, 1, s.count), 0)) EXCEPT
                    !.array = q, !.count = @ + 1]
    IN  {Bad(s)} \cup
        IF ~MayAllocate(s) \/ s.count = MaxCount THEN {}
        ELSE DecodeString(grown, 0, LAMBDA t, p : [t EXCEPT !.heap[q][s.count + 1] = p])

\* "Initialize the pointer to NULL to make sure it is valid even in case of
\* error return."
ClearedPointer(s, member) ==
    IF member \in {"oneof string", "oneof submessage"}
    THEN [s EXCEPT !.union = [kind |-> "pointer", ptr |-> 0]] ELSE s

\* pb_release_union_field.
ReleaseUnion(s, member) ==
    IF s.which \in {"none", member} THEN s ELSE ClearedPointer(ReleaseOneof(s), member)

\* Reading a pointer of the union where there is none is misuse.
UnionIs(s, kind) == [s EXCEPT !.wild = @ \/ s.union.kind # kind]

OneofString(s) ==
    LET t == UnionIs([ReleaseUnion(s, "oneof string") EXCEPT !.which = "oneof string"], "pointer")
    IN  DecodeString(t, UnionPointer(t, "pointer"), LAMBDA u, q : [u EXCEPT !.union.ptr = q])

OneofSubmessage(s) ==
    LET released == UnionIs(ReleaseUnion(s, "oneof submessage"), "pointer")
        old == UnionPointer(released, "pointer")
        t == [FreeSubmessage(released, old) EXCEPT !.union.ptr = 0, !.which = "oneof submessage"]
        q == Fresh(t)
    IN  {Bad(t)} \cup
        IF ~MayAllocate(t) THEN {}
        ELSE DecodeInto([Realloc(t, 0, <<0>>) EXCEPT !.union.ptr = q], q)

\* A number is stored over whatever the union holds, or decoding it fails.
OneofNumber(s) ==
    LET t == [ReleaseUnion(s, "oneof number") EXCEPT !.which = "oneof number"]
    IN  {Bad(t), Good([t EXCEPT !.union = [kind |-> "number", ptr |-> 0]])}

\* A static submessage is zeroed unless it is there already, and merged.
OneofStruct(s) ==
    LET released == ReleaseUnion(s, "oneof struct")
        t == IF released.which = "oneof struct" THEN released
             ELSE [released EXCEPT !.union = [kind |-> "struct", ptr |-> 0],
                                   !.which = "oneof struct"]
    IN  {Good(t), Bad(t)} \cup
        DecodeString(t, t.union.ptr, LAMBDA u, q : [u EXCEPT !.union.ptr = q])

-----------------------------------------------------------------------------
\* pb_decode releases what a failed message has allocated.
AfterFailure(s) == ReleaseMessage(s)

Field(results) ==
    /\ stage = "in" /\ fields < MaxFields
    /\ \E r \in results :
        /\ m' = IF r.ok THEN r.state ELSE AfterFailure(r.state)
        /\ stage' = IF r.ok THEN "in" ELSE "failed"
    /\ fields' = fields + 1

\* pb_decode sets all fields to their defaults; the caller's message is new or
\* has been released.
Begin ==
    /\ stage = "before"
    /\ stage' = "in" /\ fields' = 0
    /\ m' = [Empty EXCEPT !.heap = m.heap, !.wild = m.wild]

String == Field(OptionalString(m))
Submessage == Field(OptionalSubmessage(m))
Repeated == Field(RepeatedString(m))
Oneof == Field(OneofString(m) \cup OneofSubmessage(m) \cup OneofNumber(m) \cup OneofStruct(m))

EndDecode == stage = "in" /\ stage' = "done" /\ UNCHANGED <<fields, m>>

\* The stream ends in the middle of a tag.
Truncated ==
    /\ stage = "in" /\ stage' = "failed"
    /\ m' = AfterFailure(m)
    /\ UNCHANGED fields

\* The caller releases the message, also one that failed, and may do it again.
CallRelease ==
    /\ stage \in {"done", "failed", "before"}
    /\ stage' = "before"
    /\ m' = ReleaseMessage(m)
    /\ UNCHANGED fields

ReleaseNext == Begin \/ String \/ Submessage \/ Repeated \/ Oneof \/ EndDecode \/ Truncated \/ CallRelease

ReleaseSpec == ReleaseInit /\ [][ReleaseNext]_releaseVars

-----------------------------------------------------------------------------
ReleaseTypeOK ==
    /\ stage \in {"before", "in", "done", "failed"}
    /\ fields \in 0..MaxFields
    /\ DOMAIN m.heap \subseteq Objects
    /\ m.count \in 0..MaxCount
    /\ m.which \in Members \cup {"none"}
    /\ m.array = 0 => m.count = 0
    /\ m.array # 0 /\ m.array \in DOMAIN m.heap => Len(m.heap[m.array]) = m.count

\* The pointers that the message has, directly and through what they point to;
\* those of the array up to its count.
Roots ==
    <<m.string, m.submessage, m.array,
      IF m.union.kind = "number" THEN 0 ELSE m.union.ptr>>

Reachable ==
    LET roots == {Roots[i] : i \in DOMAIN Roots} \ {0}
        inner(p) == {m.heap[p][i] : i \in DOMAIN m.heap[p]} \ {0}
    IN  roots \cup UNION {inner(p) : p \in roots \cap DOMAIN m.heap}

\* No pointer is freed or read that is not one: no double free when a field
\* comes twice, a oneof changes its member, or a message that failed is
\* released again by its caller.
NoWildPointer == ~m.wild

\* What the message points to is allocated, and what is allocated the message
\* points to: nothing leaks and nothing dangles, after every field.
OwnsWhatIsAllocated == Reachable = DOMAIN m.heap

\* pb_decode returned false or pb_release returned: all memory is given back.
AllGivenBack == stage \in {"before", "failed"} => m.heap = <<>>

\* A message owns exactly what is allocated for it, after every field, and
\* gives it back once, when decoding fails or it is released.
MemoryOwned == ReleaseTypeOK /\ NoWildPointer /\ OwnsWhatIsAllocated /\ AllGivenBack
=============================================================================
