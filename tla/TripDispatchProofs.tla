------------------------- MODULE TripDispatchProofs -------------------------
(***************************************************************************)
(* Theorems about TripDispatch, for any riders, drivers, places and bounds.*)
(*                                                                         *)
(* The first part is about the client library and the server alone: what   *)
(* each of their steps preserves, that is, the types and the agreement     *)
(* between answers under way and puts processed.  The second part adds the *)
(* screens.                                                                *)
(***************************************************************************)
EXTENDS TripDispatch, FunctionTheorems, FiniteSetTheorems, SequenceTheorems, TLAPS

\* Drivers observe children only: no value reaches them.
DriversHearNoValue ==
    \A d \in Drivers :
       /\ cache[d] = Unknown
       /\ \A i \in DOMAIN inbox[d] : inbox[d][i].data = Unknown

DBInv == DBTypeOK /\ AnswersMatchPuts /\ DriversHearNoValue

-----------------------------------------------------------------------------
(* Counting answers.                                                       *)

\* A queue of messages holds finitely many answers, at indices of the queue.
LEMMA AcksFinite ==
    ASSUME NEW s \in Seq(Message)
    PROVE  /\ IsFiniteSet(Acks(s))
           /\ Cardinality(Acks(s)) \in Nat
           /\ Acks(s) \subseteq 1 .. Len(s)
<1>1. Acks(s) \subseteq 1 .. Len(s)
  BY LenProperties DEF Acks
<1>2. IsFiniteSet(1 .. Len(s))
  BY FS_Interval, LenProperties
<1>3. IsFiniteSet(Acks(s))
  BY <1>1, <1>2, FS_Subset
<1>. QED
  BY <1>1, <1>3, FS_CardinalityType

\* No messages, no answers.
LEMMA AcksEmpty == Cardinality(Acks(<<>>)) = 0
<1>1. Acks(<<>>) = {}
  BY DEF Acks
<1>. QED
  BY <1>1, FS_EmptySet

\* A message at the end of the queue adds one answer if it carries one.
LEMMA AcksAppend ==
    ASSUME NEW s \in Seq(Message), NEW m \in Message
    PROVE  Cardinality(Acks(Append(s, m))) =
             IF m.ack = "none" THEN Cardinality(Acks(s)) ELSE Cardinality(Acks(s)) + 1
<1>1. /\ Append(s, m) \in Seq(Message)
      /\ Len(Append(s, m)) = Len(s) + 1
      /\ \A i \in 1 .. Len(s) : Append(s, m)[i] = s[i]
      /\ Append(s, m)[Len(s) + 1] = m
  BY AppendProperties
<1>2. /\ DOMAIN s = 1 .. Len(s) /\ Len(s) \in Nat
      /\ DOMAIN Append(s, m) = 1 .. (Len(s) + 1)
  BY <1>1, LenProperties
<1>3. Acks(Append(s, m)) = IF m.ack = "none" THEN Acks(s) ELSE Acks(s) \cup {Len(s) + 1}
  BY <1>1, <1>2 DEF Acks
<1>4. Len(s) + 1 \notin Acks(s)
  BY <1>2 DEF Acks
<1>. QED
  BY <1>3, <1>4, AcksFinite, FS_AddElement

\* Taking the head off the queue removes its answer, if it carries one.
LEMMA AcksTail ==
    ASSUME NEW s \in Seq(Message), s # <<>>
    PROVE  Cardinality(Acks(Tail(s))) =
             IF Head(s).ack = "none" THEN Cardinality(Acks(s)) ELSE Cardinality(Acks(s)) - 1
<1>1. /\ Tail(s) \in Seq(Message)
      /\ Len(Tail(s)) = Len(s) - 1
      /\ \A i \in 1 .. Len(Tail(s)) : Tail(s)[i] = s[i + 1]
  BY HeadTailProperties
<1>2. /\ DOMAIN s = 1 .. Len(s) /\ Len(s) \in Nat \ {0}
      /\ DOMAIN Tail(s) = 1 .. (Len(s) - 1)
  BY <1>1, LenProperties, EmptySeq
<1>3. Head(s) = s[1]
  BY <1>2
<1>4. /\ \A i : i \in Acks(s) <=> i \in 1 .. Len(s) /\ s[i].ack # "none"
      /\ \A k : k \in Acks(Tail(s)) <=> k \in 1 .. (Len(s) - 1) /\ s[k + 1].ack # "none"
  BY <1>1, <1>2 DEF Acks
<1>. DEFINE f == [i \in Acks(s) \ {1} |-> i - 1]
<1>5. f \in Bijection(Acks(s) \ {1}, Acks(Tail(s)))
  <2>1. \A i \in Acks(s) \ {1} : i \in Nat /\ i - 1 \in Acks(Tail(s))
    BY <1>2, <1>4
  <2>2. f \in [Acks(s) \ {1} -> Acks(Tail(s))]
    BY <2>1
  <2>3. \A i, j \in Acks(s) \ {1} : f[i] = f[j] => i = j
    BY <2>1
  <2>4. \A k \in Acks(Tail(s)) : k + 1 \in Acks(s) \ {1} /\ (k + 1) - 1 = k
    BY <1>2, <1>4
  <2>5. \A k \in Acks(Tail(s)) : \E i \in Acks(s) \ {1} : f[i] = k
    BY <2>4
  <2>. QED
    BY <2>2, <2>3, <2>5 DEF Bijection, Injection, IsInjective, Surjection
<1>6. /\ IsFiniteSet(Acks(s) \ {1})
      /\ Cardinality(Acks(s) \ {1}) =
           IF 1 \in Acks(s) THEN Cardinality(Acks(s)) - 1 ELSE Cardinality(Acks(s))
  BY AcksFinite, FS_RemoveElement
<1>7. Cardinality(Acks(Tail(s))) = Cardinality(Acks(s) \ {1})
  BY <1>5, <1>6, FS_Bijection DEF ExistsBijection
<1>8. 1 \in Acks(s) <=> Head(s).ack # "none"
  BY <1>2, <1>3 DEF Acks
<1>. QED
  BY <1>6, <1>7, <1>8

-----------------------------------------------------------------------------
(* Types.                                                                  *)

\* The records the actions build.
LEMMA RecordTypes ==
    /\ NoTrip \in Trip /\ Unknown \in Trip
    /\ \A t \in Trip, w \in Write : Merge(t, w) \in Trip
    /\ \A p \in Passengers, t \in Trip : Event(p, t) \in Block
    /\ \A put \in Put, ok \in BOOLEAN : Done(put, ok) \in Block
BY DEF NoTrip, Unknown, Trip, TripState, Write, Merge, Event, Block, Put, Done

\* What a listener sees is a trip.
LEMMA ViewType ==
    ASSUME NEW t \in Trip, NEW puts \in Seq(Put)
    PROVE  View(t, puts) \in Trip
<1>1. puts # <<>> => puts[Len(puts)] \in Put
  BY EmptySeq, LenProperties
<1>2. puts # <<>> => puts[Len(puts)].write \in Write
  BY <1>1 DEF Put
<1>. QED
  BY <1>2, RecordTypes DEF View

\* A block per child or per registration is a queue of blocks.
LEMMA EventsType ==
    ASSUME NEW n \in Nat, NEW q \in Seq(Block), NEW s \in [1 .. n -> Block]
    PROVE  q \o s \in Seq(Block)
<1>1. s \in Seq(Block)
  BY SeqDef
<1>. QED
  BY <1>1, ConcatProperties

\* The main queue stays a queue of blocks.
LEMMA RaiseType ==
    ASSUME NEW q \in Seq(Block), NEW p \in Passengers, NEW t, NEW u \in Trip,
           regs[p] \in Nat
    PROVE  RaiseValue(q, p, t, u) \in Seq(Block)
<1>1. Event(p, u) \in Block
  BY RecordTypes
<1>2. q \o [i \in 1 .. regs[p] |-> Event(p, u)] \in Seq(Block)
  BY <1>1, EventsType
<1>. QED
  BY <1>2 DEF RaiseValue

\* A location observed by nobody raises nothing.
LEMMA RaiseNothing ==
    ASSUME NEW q, NEW c, NEW t
    PROVE  RaiseValue(q, c, t, t) = q
BY DEF RaiseValue

-----------------------------------------------------------------------------
(* Steps.                                                                  *)

LEMMA DBInitInv == DBInit => DBInv
<1>. SUFFICES ASSUME DBInit PROVE DBInv
  OBVIOUS
<1>1. DBTypeOK
  BY RecordTypes, EmptySeq, DropsAssumption DEF DBInit, DBTypeOK
<1>2. AnswersMatchPuts
  BY AcksEmpty, EmptySeq DEF DBInit, AnswersMatchPuts
<1>3. DriversHearNoValue
  BY EmptySeq DEF DBInit, DriversHearNoValue, Clients
<1>. QED
  BY <1>1, <1>2, <1>3 DEF DBInv

LEMMA DBUnchanged == DBInv /\ UNCHANGED dbVars => DBInv'
BY DEF DBInv, DBTypeOK, AnswersMatchPuts, DriversHearNoValue, dbVars

LEMMA ObserveValueInv ==
    ASSUME DBInv, NEW p \in Passengers, ObserveValue(p)
    PROVE  DBInv'
<1>. DEFINE m == [ack |-> "none", data |-> trips[p]]
<1>1. m \in Message /\ m.ack = "none" /\ p \in Clients
  BY DEF DBInv, DBTypeOK, Message, Clients
<1>2. inbox[p] \in Seq(Message)
  BY <1>1 DEF DBInv, DBTypeOK
<1>. HIDE DEF m
<1>3. Append(inbox[p], m) \in Seq(Message)
  BY <1>1, <1>2, AppendProperties
<1>4. Cardinality(Acks(Append(inbox[p], m))) = Cardinality(Acks(inbox[p]))
  BY <1>1, <1>2, AcksAppend
<1>5. inbox' \in [Clients -> Seq(Message)]
      /\ \A c \in Clients : Cardinality(Acks(inbox'[c])) = Cardinality(Acks(inbox[c]))
  BY <1>1, <1>3, <1>4 DEF DBInv, DBTypeOK, ObserveValue, m
<1>6. DBTypeOK'
  <2>1. Event(p, View(cache[p], outbox[p])) \in Block /\ mainQ[p] \in Seq(Block)
    BY <1>1, ViewType, RecordTypes DEF DBInv, DBTypeOK
  <2>2. Append(mainQ[p], Event(p, View(cache[p], outbox[p]))) \in Seq(Block)
    BY <2>1, AppendProperties
  <2>3. mainQ' \in [Clients -> Seq(Block)] /\ regs' \in [Clients -> Nat]
    BY <1>1, <2>2 DEF DBInv, DBTypeOK, ObserveValue
  <2>. QED
    BY <1>5, <2>3 DEF DBInv, DBTypeOK, ObserveValue
<1>7. AnswersMatchPuts'
  BY <1>5 DEF DBInv, AnswersMatchPuts, ObserveValue
<1>8. DriversHearNoValue'
  BY ClientsAssumption DEF DBInv, DBTypeOK, DriversHearNoValue, ObserveValue, Clients
<1>. QED
  BY <1>6, <1>7, <1>8 DEF DBInv

LEMMA ViewUnknown == ASSUME NEW puts PROVE View(Unknown, puts) = Unknown
BY DEF View

LEMMA UpdateChildValuesInv ==
    ASSUME DBInv, NEW c \in Clients, NEW put \in Put, UpdateChildValues(c, put)
    PROVE  DBInv'
<1>. DEFINE puts == Append(outbox[c], put)
            queue == RaiseValue(mainQ[c], c, View(cache[c], outbox[c]), View(cache[c], puts))
<1>1. /\ outbox[c] \in Seq(Put) /\ mainQ[c] \in Seq(Block) /\ cache[c] \in Trip
      /\ regs[c] \in Nat
  BY DEF DBInv, DBTypeOK
<1>2. puts \in Seq(Put) /\ Len(puts) = Len(outbox[c]) + 1
  BY <1>1, AppendProperties
<1>3. queue \in Seq(Block)
  <2>1. CASE c \in Passengers
    BY <2>1, <1>1, <1>2, ViewType, RaiseType
  <2>2. CASE c \in Drivers
    <3>1. cache[c] = Unknown
      BY <2>2 DEF DBInv, DriversHearNoValue
    <3>. QED
      BY <3>1, <1>1, ViewUnknown, RaiseNothing
  <2>. QED
    BY <2>1, <2>2 DEF Clients
<1>4. /\ outbox' = [outbox EXCEPT ![c] = puts]
      /\ mainQ' = [mainQ EXCEPT ![c] = queue]
      /\ UNCHANGED <<trips, online, regs, sent, inbox, cache, heard, drops>>
  BY DEF UpdateChildValues
<1>. HIDE DEF puts, queue
<1>5. DBTypeOK'
  BY <1>2, <1>3, <1>4 DEF DBInv, DBTypeOK
<1>6. AnswersMatchPuts'
  BY <1>1, <1>2, <1>4, LenProperties DEF DBInv, DBTypeOK, AnswersMatchPuts
<1>7. DriversHearNoValue'
  BY <1>4 DEF DBInv, DriversHearNoValue
<1>. QED
  BY <1>5, <1>6, <1>7 DEF DBInv

\* A step that only moves the main queue, the driver's view and the
\* registrations preserves the invariant if it preserves their types.
LEMMA QueueStepInv ==
    ASSUME DBInv,
           UNCHANGED <<trips, online, outbox, sent, inbox, cache, drops>>,
           regs' \in [Clients -> Nat],
           heard' \in [Drivers -> [Passengers -> Trip]],
           mainQ' \in [Clients -> Seq(Block)]
    PROVE  DBInv'
<1>1. DBTypeOK'
  BY DEF DBInv, DBTypeOK
<1>2. AnswersMatchPuts' /\ DriversHearNoValue'
  BY DEF DBInv, AnswersMatchPuts, DriversHearNoValue
<1>. QED
  BY <1>1, <1>2 DEF DBInv

LEMMA RunBlockInv ==
    ASSUME DBInv, NEW c \in Clients, NEW kind, RunBlock(c, kind)
    PROVE  /\ DBInv'
           /\ Head(mainQ[c]) \in Block
<1>1. mainQ[c] \in Seq(Block) /\ mainQ[c] # <<>>
  BY DEF DBInv, DBTypeOK, RunBlock
<1>2. Head(mainQ[c]) \in Block /\ Tail(mainQ[c]) \in Seq(Block)
  BY <1>1, HeadTailProperties
<1>3. mainQ' \in [Clients -> Seq(Block)]
  BY <1>2 DEF DBInv, DBTypeOK, RunBlock
<1>4. DBInv'
  BY <1>3, QueueStepInv DEF DBInv, DBTypeOK, RunBlock
<1>. QED
  BY <1>2, <1>4

LEMMA ObserveChildAddedInv ==
    ASSUME DBInv, NEW d \in Drivers, ObserveChildAdded(d)
    PROVE  DBInv'
<1>. DEFINE n == Cardinality(Known(d))
<1>1. Known(d) \subseteq Passengers /\ IsFiniteSet(Known(d)) /\ n \in Nat
  BY ClientsAssumption, FS_Subset, FS_CardinalityType DEF Known
<1>2. PICK s \in Orders(Known(d)) :
        mainQ' = [mainQ EXCEPT ![d] = @ \o [i \in 1 .. n |-> Event(s[i], heard[d][s[i]])]]
  BY DEF ObserveChildAdded
<1>. HIDE DEF n
<1>3. \A i \in 1 .. n : s[i] \in Passengers
  BY <1>1, <1>2 DEF Orders, n
<1>4. \A i \in 1 .. n : Event(s[i], heard[d][s[i]]) \in Block
  BY <1>3, RecordTypes DEF DBInv, DBTypeOK
<1>5. d \in Clients /\ mainQ[d] \in Seq(Block)
  BY DEF DBInv, DBTypeOK, Clients
<1>6. mainQ[d] \o [i \in 1 .. n |-> Event(s[i], heard[d][s[i]])] \in Seq(Block)
  BY <1>1, <1>4, <1>5, EventsType
<1>7. mainQ' \in [Clients -> Seq(Block)]
  BY <1>2, <1>5, <1>6 DEF DBInv, DBTypeOK
<1>8. regs' \in [Clients -> Nat]
  BY <1>5 DEF DBInv, DBTypeOK, ObserveChildAdded
<1>. QED
  BY <1>7, <1>8, QueueStepInv DEF DBInv, DBTypeOK, ObserveChildAdded

LEMMA ChildAddedInv ==
    ASSUME DBInv, NEW d \in Drivers, NEW p \in Passengers, ChildAdded(d, p)
    PROVE  DBInv'
<1>1. d \in Clients /\ mainQ[d] \in Seq(Block) /\ regs[d] \in Nat /\ trips[p] \in Trip
  BY DEF DBInv, DBTypeOK, Clients
<1>2. Event(p, trips[p]) \in Block
  BY <1>1, RecordTypes
<1>3. mainQ[d] \o [i \in 1 .. regs[d] |-> Event(p, trips[p])] \in Seq(Block)
  BY <1>1, <1>2, EventsType
<1>4. mainQ' \in [Clients -> Seq(Block)]
  BY <1>1, <1>3 DEF DBInv, DBTypeOK, ChildAdded
<1>5. heard' \in [Drivers -> [Passengers -> Trip]]
  BY <1>1 DEF DBInv, DBTypeOK, ChildAdded
<1>. QED
  BY <1>4, <1>5, QueueStepInv DEF DBInv, DBTypeOK, ChildAdded

LEMMA ChildChangedInv ==
    ASSUME DBInv, NEW d \in Drivers, NEW p \in Passengers, ChildChanged(d, p)
    PROVE  DBInv'
<1>1. heard' \in [Drivers -> [Passengers -> Trip]]
  BY DEF DBInv, DBTypeOK, ChildChanged
<1>. QED
  BY <1>1, QueueStepInv DEF DBInv, DBTypeOK, ChildChanged

LEMMA DeliverInv ==
    ASSUME DBInv, NEW c \in Clients, Deliver(c)
    PROVE  DBInv'
<1>. DEFINE m == Head(inbox[c])
            answered == m.ack # "none"
            puts == IF answered THEN Tail(outbox[c]) ELSE outbox[c]
            raised == RaiseValue(mainQ[c], c, View(cache[c], outbox[c]), View(m.data, puts))
            queue == IF answered
                     THEN Append(raised, Done(Head(outbox[c]), m.ack = "ok"))
                     ELSE raised
<1>1. /\ inbox[c] \in Seq(Message) /\ inbox[c] # <<>>
      /\ outbox[c] \in Seq(Put) /\ mainQ[c] \in Seq(Block) /\ cache[c] \in Trip
      /\ sent[c] \in Nat /\ regs[c] \in Nat
  BY DEF DBInv, DBTypeOK, Deliver
<1>2. /\ m \in Message /\ Tail(inbox[c]) \in Seq(Message)
      /\ Len(Tail(inbox[c])) = Len(inbox[c]) - 1
      /\ \A i \in 1 .. Len(Tail(inbox[c])) : Tail(inbox[c])[i] = inbox[c][i + 1]
  BY <1>1, HeadTailProperties
<1>3. /\ inbox' = [inbox EXCEPT ![c] = Tail(inbox[c])]
      /\ cache' = [cache EXCEPT ![c] = m.data]
      /\ outbox' = [outbox EXCEPT ![c] = puts]
      /\ sent' = [sent EXCEPT ![c] = IF answered THEN sent[c] - 1 ELSE sent[c]]
      /\ mainQ' = [mainQ EXCEPT ![c] = queue]
      /\ UNCHANGED <<trips, online, regs, heard, drops>>
  BY DEF Deliver
<1>4. m.data \in Trip
  BY <1>2 DEF Message
<1>5. Cardinality(Acks(Tail(inbox[c]))) = IF answered THEN sent[c] - 1 ELSE sent[c]
  BY <1>1, AcksTail DEF DBInv, AnswersMatchPuts
<1>6. Cardinality(Acks(Tail(inbox[c]))) \in Nat
  BY <1>2, AcksFinite
<1>7. answered => sent[c] - 1 \in Nat /\ outbox[c] # <<>>
  BY <1>1, <1>5, <1>6, EmptySeq DEF DBInv, AnswersMatchPuts
<1>8. /\ puts \in Seq(Put)
      /\ Len(puts) = IF answered THEN Len(outbox[c]) - 1 ELSE Len(outbox[c])
      /\ answered => Head(outbox[c]) \in Put
  BY <1>1, <1>7, HeadTailProperties
<1>9. raised \in Seq(Block)
  <2>1. CASE c \in Passengers
    BY <2>1, <1>1, <1>4, <1>8, ViewType, RaiseType
  <2>2. CASE c \in Drivers
    <3>1. inbox[c][1] = m /\ 1 \in DOMAIN inbox[c]
      BY <1>1, LenProperties, EmptySeq
    <3>2. cache[c] = Unknown /\ m.data = Unknown
      BY <2>2, <3>1 DEF DBInv, DriversHearNoValue
    <3>. QED
      BY <3>2, <1>1, ViewUnknown, RaiseNothing
  <2>. QED
    BY <2>1, <2>2 DEF Clients
<1>10. queue \in Seq(Block)
  <2>1. answered => Done(Head(outbox[c]), m.ack = "ok") \in Block
    BY <1>8, RecordTypes
  <2>. HIDE DEF raised, puts, m
  <2>. QED
    BY <1>9, <2>1, AppendProperties
<1>11. DriversHearNoValue'
  <2>. SUFFICES ASSUME NEW d \in Drivers
                PROVE  /\ cache'[d] = Unknown
                       /\ \A i \in DOMAIN inbox'[d] : inbox'[d][i].data = Unknown
    BY DEF DriversHearNoValue
  <2>1. CASE d # c
    BY <2>1, <1>3 DEF DBInv, DBTypeOK, DriversHearNoValue, Clients
  <2>2. CASE d = c
    <3>1. \A i \in 1 .. Len(inbox[c]) : inbox[c][i].data = Unknown
      BY <2>2, <1>1, LenProperties DEF DBInv, DriversHearNoValue
    <3>2. m = inbox[c][1] /\ Len(inbox[c]) \in Nat \ {0}
      BY <1>1, LenProperties, EmptySeq
    <3>3. \A i \in DOMAIN Tail(inbox[c]) : Tail(inbox[c])[i].data = Unknown
      BY <1>2, <3>1, <3>2, LenProperties
    <3>4. cache'[c] = m.data /\ inbox'[c] = Tail(inbox[c])
      BY <1>3 DEF DBInv, DBTypeOK
    <3>. QED
      BY <2>2, <3>1, <3>2, <3>3, <3>4
  <2>. QED
    BY <2>1, <2>2
<1>. HIDE DEF m, answered, puts, raised, queue
<1>12. DBTypeOK'
  BY <1>1, <1>2, <1>3, <1>4, <1>7, <1>8, <1>10 DEF DBInv, DBTypeOK
<1>13. AnswersMatchPuts'
  <2>. SUFFICES ASSUME NEW x \in Clients
                PROVE  /\ sent'[x] = Cardinality(Acks(inbox'[x]))
                       /\ sent'[x] <= Len(outbox'[x])
    BY DEF AnswersMatchPuts
  <2>1. CASE x = c
    <3>1. /\ sent'[c] = IF answered THEN sent[c] - 1 ELSE sent[c]
          /\ inbox'[c] = Tail(inbox[c]) /\ outbox'[c] = puts
      BY <1>3 DEF DBInv, DBTypeOK
    <3>2. sent[c] <= Len(outbox[c]) /\ Len(outbox[c]) \in Nat
      BY <1>1, LenProperties DEF DBInv, AnswersMatchPuts
    <3>. QED
      BY <2>1, <3>1, <3>2, <1>1, <1>5, <1>8
  <2>2. CASE x # c
    BY <2>2, <1>3 DEF DBInv, DBTypeOK, AnswersMatchPuts
  <2>. QED
    BY <2>1, <2>2
<1>. QED
  BY <1>11, <1>12, <1>13 DEF DBInv

\* An answer finds the put it answers.
LEMMA AnsweredPut ==
    ASSUME DBInv, NEW c \in Clients, Deliver(c), Head(inbox[c]).ack # "none"
    PROVE  outbox[c] # <<>>
<1>1. /\ inbox[c] \in Seq(Message) /\ inbox[c] # <<>>
      /\ outbox[c] \in Seq(Put) /\ sent[c] \in Nat
  BY DEF DBInv, DBTypeOK, Deliver
<1>2. Tail(inbox[c]) \in Seq(Message)
  BY <1>1, HeadTailProperties
<1>3. Cardinality(Acks(Tail(inbox[c]))) \in Nat
  BY <1>2, AcksFinite
<1>4. sent[c] > 0
  BY <1>1, <1>3, AcksTail DEF DBInv, AnswersMatchPuts
<1>. QED
  BY <1>1, <1>4, EmptySeq DEF DBInv, AnswersMatchPuts

\* A message to a driver answers its oldest put or does nothing it can see.
LEMMA DeliverDriver ==
    ASSUME DBInv, NEW d \in Drivers, Deliver(d)
    PROVE  \E ok \in BOOLEAN :
             \/ /\ outbox[d] # <<>>
                /\ outbox' = [outbox EXCEPT ![d] = Tail(outbox[d])]
                /\ mainQ' = [mainQ EXCEPT ![d] = Append(mainQ[d], Done(Head(outbox[d]), ok))]
             \/ UNCHANGED <<outbox, mainQ>>
<1>. DEFINE m == Head(inbox[d])
            puts == IF m.ack # "none" THEN Tail(outbox[d]) ELSE outbox[d]
<1>1. /\ d \in Clients /\ inbox[d] \in Seq(Message) /\ inbox[d] # <<>>
      /\ outbox[d] \in Seq(Put) /\ sent[d] \in Nat
  BY DEF DBInv, DBTypeOK, Deliver, Clients
<1>2. inbox[d][1] = m /\ 1 \in DOMAIN inbox[d]
  BY <1>1, LenProperties, EmptySeq
<1>3. cache[d] = Unknown /\ m.data = Unknown
  BY <1>2 DEF DBInv, DriversHearNoValue
<1>4. RaiseValue(mainQ[d], d, View(cache[d], outbox[d]), View(m.data, puts)) = mainQ[d]
  BY <1>3, ViewUnknown, RaiseNothing
<1>5. /\ outbox' = [outbox EXCEPT ![d] = puts]
      /\ mainQ' = [mainQ EXCEPT ![d] = IF m.ack # "none"
                                      THEN Append(mainQ[d], Done(Head(outbox[d]), m.ack = "ok"))
                                      ELSE mainQ[d]]
  BY <1>4 DEF Deliver
<1>9. m.ack # "none" => outbox[d] # <<>>
  BY <1>1, AnsweredPut
<1>10. outbox \in [Clients -> Seq(Put)] /\ mainQ \in [Clients -> Seq(Block)]
  BY DEF DBInv, DBTypeOK
<1>11. CASE m.ack # "none"
  BY <1>5, <1>9, <1>11
<1>12. CASE m.ack = "none"
  BY <1>1, <1>5, <1>10, <1>12
<1>. QED
  BY <1>11, <1>12

\* The puts c has outstanding afterwards do not matter: none counts as sent.
LEMMA ConnectionLostInv ==
    ASSUME DBInv, NEW c \in Clients, ConnectionLost(c),
           outbox' \in [Clients -> Seq(Put)],
           \A x \in Clients \ {c} : outbox'[x] = outbox[x]
    PROVE  /\ online' \in [Clients -> BOOLEAN] /\ drops' \in [Clients -> 0 .. MaxDrops]
           /\ sent' \in [Clients -> Nat] /\ inbox' \in [Clients -> Seq(Message)]
           /\ inbox'[c] = <<>> /\ \A x \in Clients \ {c} : inbox'[x] = inbox[x]
           /\ AnswersMatchPuts'
<1>1. /\ online' \in [Clients -> BOOLEAN] /\ drops' \in [Clients -> 0 .. MaxDrops]
      /\ sent' \in [Clients -> Nat] /\ inbox' \in [Clients -> Seq(Message)]
  BY EmptySeq, DropsAssumption DEF DBInv, DBTypeOK, ConnectionLost
<1>2. /\ inbox'[c] = <<>> /\ sent'[c] = 0
      /\ \A x \in Clients \ {c} : inbox'[x] = inbox[x] /\ sent'[x] = sent[x]
  BY DEF DBInv, DBTypeOK, ConnectionLost
<1>3. ASSUME NEW x \in Clients
      PROVE  sent'[x] = Cardinality(Acks(inbox'[x])) /\ sent'[x] <= Len(outbox'[x])
  <2>1. CASE x = c
    <3>1. Len(outbox'[c]) \in Nat
      BY LenProperties
    <3>. QED
      BY <2>1, <3>1, <1>2, AcksEmpty
  <2>2. CASE x # c
    BY <2>2, <1>2 DEF DBInv, AnswersMatchPuts
  <2>. QED
    BY <2>1, <2>2
<1>. QED
  BY <1>1, <1>2, <1>3 DEF AnswersMatchPuts

LEMMA DisconnectInv ==
    ASSUME DBInv, NEW c \in Clients, Disconnect(c)
    PROVE  DBInv'
<1>1. /\ ConnectionLost(c) /\ outbox' \in [Clients -> Seq(Put)]
      /\ UNCHANGED <<trips, regs, outbox, cache, heard, mainQ>>
  BY DEF DBInv, DBTypeOK, Disconnect
<1>2. /\ online' \in [Clients -> BOOLEAN] /\ drops' \in [Clients -> 0 .. MaxDrops]
      /\ sent' \in [Clients -> Nat] /\ inbox' \in [Clients -> Seq(Message)]
      /\ inbox'[c] = <<>> /\ \A x \in Clients \ {c} : inbox'[x] = inbox[x]
      /\ AnswersMatchPuts'
  BY <1>1, ConnectionLostInv
<1>3. DBTypeOK'
  BY <1>1, <1>2 DEF DBInv, DBTypeOK
<1>4. \A d \in Drivers : d \in Clients /\ (d = c \/ inbox'[d] = inbox[d])
  BY <1>2 DEF Clients
<1>5. \A i : i \notin DOMAIN <<>>
  OBVIOUS
<1>6. DriversHearNoValue'
  <2>. SUFFICES ASSUME NEW d \in Drivers
                PROVE  /\ cache'[d] = Unknown
                       /\ \A i \in DOMAIN inbox'[d] : inbox'[d][i].data = Unknown
    BY DEF DriversHearNoValue
  <2>1. cache[d] = Unknown /\ \A i \in DOMAIN inbox[d] : inbox[d][i].data = Unknown
    BY DEF DBInv, DriversHearNoValue
  <2>. QED
    BY <1>1, <1>2, <1>4, <1>5, <2>1
<1>. QED
  BY <1>2, <1>3, <1>6 DEF DBInv

LEMMA RestartInv ==
    ASSUME DBInv, NEW c \in Clients, Restart(c)
    PROVE  DBInv'
<1>1. /\ ConnectionLost(c)
      /\ outbox' \in [Clients -> Seq(Put)]
      /\ \A x \in Clients \ {c} : outbox'[x] = outbox[x]
  BY EmptySeq DEF DBInv, DBTypeOK, Restart
<1>2. /\ online' \in [Clients -> BOOLEAN] /\ drops' \in [Clients -> 0 .. MaxDrops]
      /\ sent' \in [Clients -> Nat] /\ inbox' \in [Clients -> Seq(Message)]
      /\ inbox'[c] = <<>> /\ \A x \in Clients \ {c} : inbox'[x] = inbox[x]
      /\ AnswersMatchPuts'
  BY <1>1, ConnectionLostInv
<1>3. /\ regs' \in [Clients -> Nat] /\ cache' \in [Clients -> Trip]
      /\ mainQ' \in [Clients -> Seq(Block)] /\ trips' = trips
  BY RecordTypes, EmptySeq DEF DBInv, DBTypeOK, Restart
<1>4. heard' \in [Drivers -> [Passengers -> Trip]]
  BY RecordTypes DEF DBInv, DBTypeOK, Restart
<1>5. DBTypeOK'
  BY <1>1, <1>2, <1>3, <1>4 DEF DBInv, DBTypeOK
<1>6. \A d \in Drivers : cache'[d] = Unknown
  BY DEF DBInv, DBTypeOK, DriversHearNoValue, Restart, Clients
<1>7. DriversHearNoValue'
  BY <1>2, <1>6 DEF DBInv, DriversHearNoValue, Clients
<1>. QED
  BY <1>2, <1>5, <1>7 DEF DBInv

LEMMA ReconnectInv ==
    ASSUME DBInv, NEW c \in Clients, Reconnect(c)
    PROVE  DBInv'
<1>1. online' \in [Clients -> BOOLEAN]
  BY DEF DBInv, DBTypeOK, Reconnect
<1>2. CASE ~(c \in Passengers /\ regs[c] > 0)
  <2>1. DBTypeOK'
    BY <1>1, <1>2 DEF DBInv, DBTypeOK, Reconnect
  <2>. QED
    BY <1>2, <2>1 DEF DBInv, AnswersMatchPuts, DriversHearNoValue, Reconnect
<1>3. CASE c \in Passengers /\ regs[c] > 0
  <2>. DEFINE m == [ack |-> "none", data |-> trips[c]]
  <2>1. m \in Message /\ m.ack = "none" /\ inbox[c] \in Seq(Message)
    BY <1>3 DEF DBInv, DBTypeOK, Message
  <2>2. inbox' = [inbox EXCEPT ![c] = Append(inbox[c], m)]
    BY <1>3 DEF Reconnect
  <2>. HIDE DEF m
  <2>3. Append(inbox[c], m) \in Seq(Message)
    BY <2>1, AppendProperties
  <2>4. Cardinality(Acks(Append(inbox[c], m))) = Cardinality(Acks(inbox[c]))
    BY <2>1, AcksAppend
  <2>5. /\ inbox' \in [Clients -> Seq(Message)]
        /\ \A x \in Clients : Cardinality(Acks(inbox'[x])) = Cardinality(Acks(inbox[x]))
        /\ \A d \in Drivers : inbox'[d] = inbox[d]
    BY <1>3, <2>2, <2>3, <2>4, ClientsAssumption DEF DBInv, DBTypeOK, Clients
  <2>6. DBTypeOK'
    BY <1>1, <2>5 DEF DBInv, DBTypeOK, Reconnect
  <2>7. UNCHANGED <<sent, outbox, cache>>
    BY DEF Reconnect
  <2>8. AnswersMatchPuts'
    BY <2>5, <2>7 DEF DBInv, AnswersMatchPuts
  <2>9. DriversHearNoValue'
    BY <2>5, <2>7 DEF DBInv, DriversHearNoValue
  <2>. QED
    BY <2>6, <2>8, <2>9 DEF DBInv
<1>. QED
  BY <1>2, <1>3

\* The next put is there to be processed.
LEMMA NextPutType ==
    ASSUME DBInv, NEW c \in Clients, sent[c] < Len(outbox[c])
    PROVE  /\ NextPut(c) \in Put
           /\ NextPut(c).write \in Write
           /\ NextPut(c).write.path \in Passengers
<1>1. outbox[c] \in Seq(Put) /\ sent[c] \in Nat
  BY DEF DBInv, DBTypeOK
<1>2. sent[c] + 1 \in 1 .. Len(outbox[c])
  BY <1>1, LenProperties
<1>3. NextPut(c) \in Put
  BY <1>1, <1>2, ElementOfSeq DEF NextPut
<1>. QED
  BY <1>3 DEF Put, Write

\* An answer keeps the message types, adds one answer for c and none for
\* anybody else, and tells no driver a value.
LEMMA AnswerInv ==
    ASSUME DBInv, NEW c \in Clients, NEW p \in Passengers,
           NEW ack \in {"ok", "err"}, NEW t \in Trip, Answer(c, p, ack, t)
    PROVE  /\ inbox' \in [Clients -> Seq(Message)]
           /\ \A x \in Clients : Cardinality(Acks(inbox'[x])) =
                 IF x = c THEN Cardinality(Acks(inbox[x])) + 1 ELSE Cardinality(Acks(inbox[x]))
           /\ \A d \in Drivers : \A i \in DOMAIN inbox'[d] : inbox'[d][i].data = Unknown
<1>. DEFINE own == [ack |-> ack, data |-> IF c = p THEN t ELSE Unknown]
            other == [ack |-> "none", data |-> t]
<1>1. /\ own \in Message /\ own.ack # "none"
      /\ other \in Message /\ other.ack = "none"
      /\ c \in Drivers => own.data = Unknown
  BY RecordTypes, ClientsAssumption DEF Message
<1>2. \A x \in Clients : inbox'[x] = IF x = c THEN Append(inbox[x], own)
                                    ELSE IF x = p /\ online[x] /\ regs[x] > 0 /\ t # trips[p]
                                    THEN Append(inbox[x], other)
                                    ELSE inbox[x]
  BY DEF Answer
<1>3. DOMAIN inbox' = Clients /\ inbox' = [x \in Clients |-> inbox'[x]]
  BY DEF Answer
<1>. HIDE DEF own, other
<1>4. ASSUME NEW x \in Clients
      PROVE  /\ inbox'[x] \in Seq(Message)
             /\ Cardinality(Acks(inbox'[x])) =
                  IF x = c THEN Cardinality(Acks(inbox[x])) + 1 ELSE Cardinality(Acks(inbox[x]))
  <2>1. inbox[x] \in Seq(Message)
    BY DEF DBInv, DBTypeOK
  <2>2. /\ Append(inbox[x], own) \in Seq(Message)
        /\ Append(inbox[x], other) \in Seq(Message)
    BY <1>1, <2>1, AppendProperties
  <2>3. /\ Cardinality(Acks(Append(inbox[x], own))) = Cardinality(Acks(inbox[x])) + 1
        /\ Cardinality(Acks(Append(inbox[x], other))) = Cardinality(Acks(inbox[x]))
    BY <1>1, <2>1, AcksAppend
  <2>. QED
    BY <1>2, <2>1, <2>2, <2>3
<1>5. ASSUME NEW d \in Drivers
      PROVE  \A i \in DOMAIN inbox'[d] : inbox'[d][i].data = Unknown
  <2>1. d \in Clients /\ d # p /\ inbox[d] \in Seq(Message)
    BY ClientsAssumption DEF DBInv, DBTypeOK, Clients
  <2>2. \A i \in DOMAIN inbox[d] : inbox[d][i].data = Unknown
    BY DEF DBInv, DriversHearNoValue
  <2>3. CASE d # c
    BY <1>2, <2>1, <2>2, <2>3
  <2>4. CASE d = c
    <3>1. inbox'[d] = Append(inbox[d], own)
      BY <1>2, <2>1, <2>4
    <3>2. /\ DOMAIN Append(inbox[d], own) = 1 .. (Len(inbox[d]) + 1)
          /\ DOMAIN inbox[d] = 1 .. Len(inbox[d]) /\ Len(inbox[d]) \in Nat
          /\ \A i \in 1 .. Len(inbox[d]) : Append(inbox[d], own)[i] = inbox[d][i]
          /\ Append(inbox[d], own)[Len(inbox[d]) + 1] = own
      BY <1>1, <2>1, AppendProperties, LenProperties
    <3>. QED
      BY <1>1, <2>2, <2>4, <3>1, <3>2
  <2>. QED
    BY <2>3, <2>4
<1>. QED
  BY <1>3, <1>4, <1>5

\* Processing a put, whatever it does to trips, preserves the invariant.
LEMMA ProcessedInv ==
    ASSUME DBInv, NEW c \in Clients, sent[c] < Len(outbox[c]),
           NEW p \in Passengers, NEW ack \in {"ok", "err"}, NEW t \in Trip,
           Answer(c, p, ack, t), Processed(c), trips' \in [Passengers -> Trip],
           UNCHANGED <<online, regs, outbox, cache, heard, mainQ, drops>>
    PROVE  DBInv'
<1>1. /\ inbox' \in [Clients -> Seq(Message)]
      /\ \A x \in Clients : Cardinality(Acks(inbox'[x])) =
            IF x = c THEN Cardinality(Acks(inbox[x])) + 1 ELSE Cardinality(Acks(inbox[x]))
      /\ \A d \in Drivers : \A i \in DOMAIN inbox'[d] : inbox'[d][i].data = Unknown
  BY AnswerInv
<1>2. /\ sent' \in [Clients -> Nat]
      /\ \A x \in Clients : sent'[x] = IF x = c THEN sent[x] + 1 ELSE sent[x]
  BY DEF DBInv, DBTypeOK, Processed
<1>3. DBTypeOK'
  BY <1>1, <1>2 DEF DBInv, DBTypeOK
<1>4. \A x \in Clients : sent[x] \in Nat /\ Len(outbox[x]) \in Nat
  BY LenProperties DEF DBInv, DBTypeOK
<1>5. AnswersMatchPuts'
  BY <1>1, <1>2, <1>4 DEF DBInv, AnswersMatchPuts
<1>6. DriversHearNoValue'
  BY <1>1 DEF DBInv, DriversHearNoValue
<1>. QED
  BY <1>3, <1>5, <1>6 DEF DBInv

LEMMA ServerApplyInv ==
    ASSUME DBInv, NEW c \in Clients, ServerApply(c)
    PROVE  DBInv'
<1>. DEFINE w == NextPut(c).write
            t == Merge(trips[w.path], w)
<1>1. w \in Write /\ w.path \in Passengers
  BY NextPutType DEF ServerApply
<1>2. t \in Trip
  BY <1>1, RecordTypes DEF DBInv, DBTypeOK
<1>3. /\ sent[c] < Len(outbox[c]) /\ Processed(c)
      /\ trips' = [trips EXCEPT ![w.path] = t] /\ Answer(c, w.path, "ok", t)
      /\ UNCHANGED <<online, regs, outbox, cache, heard, mainQ, drops>>
  BY DEF ServerApply
<1>. HIDE DEF w, t
<1>4. trips' \in [Passengers -> Trip]
  BY <1>1, <1>2, <1>3 DEF DBInv, DBTypeOK
<1>. QED
  BY <1>1, <1>2, <1>3, <1>4, ProcessedInv

LEMMA ServerRejectInv ==
    ASSUME DBInv, NEW c \in Clients, ServerReject(c)
    PROVE  DBInv'
<1>. DEFINE p == NextPut(c).write.path
<1>1. p \in Passengers
  BY NextPutType DEF ServerReject
<1>2. trips[p] \in Trip /\ trips' \in [Passengers -> Trip]
  BY <1>1 DEF DBInv, DBTypeOK, ServerReject
<1>3. /\ sent[c] < Len(outbox[c]) /\ Processed(c)
      /\ Answer(c, p, "err", trips[p])
      /\ UNCHANGED <<online, regs, outbox, cache, heard, mainQ, drops>>
  BY DEF ServerReject
<1>. HIDE DEF p
<1>. QED
  BY <1>1, <1>2, <1>3, ProcessedInv

-----------------------------------------------------------------------------
(* The screens: types.                                                     *)

\* The screens' half of TypeOK.
UITypeOK ==
    /\ trip \in [Passengers -> Trip]
    /\ loading \in [Passengers -> BOOLEAN]
    /\ ride \in [Clients -> Configuration \cup {"hidden"}]
    /\ buttonAction \in [Clients -> ButtonAction]
    /\ hasDest \in [Passengers -> BOOLEAN]
    /\ button \in [Passengers -> {"showMenu", "dismissActionView"}]
    /\ uploadFailed \in [Passengers -> BOOLEAN]
    /\ pickup \in [Drivers -> SUBSET Offer]
    /\ leaving \in [Drivers -> BOOLEAN]
    /\ rideAfter \in [Drivers -> BOOLEAN]
    /\ engaged \in [Drivers -> SUBSET Engagement]
    /\ taps \in [Clients -> Nat]
    /\ granted \subseteq Drivers \X Passengers
    /\ restarted \in [Clients -> BOOLEAN]

TypeInv == UITypeOK /\ DBInv

LEMMA TypeInvParts == TypeInv => TypeOK /\ AnswersMatchPuts
BY DEF TypeInv, UITypeOK, DBInv, TypeOK

LEMMA InitType == Init => TypeInv
<1>. SUFFICES ASSUME Init PROVE TypeInv
  OBVIOUS
<1>1. DBInv
  BY DBInitInv DEF Init
<1>2. UITypeOK
  BY RecordTypes DEF Init, UITypeOK, Configuration, ButtonAction
<1>. QED
  BY <1>1, <1>2 DEF TypeInv

\* Showing and hiding the ride action view keeps its types.
LEMMA RideViewType ==
    ASSUME TypeInv, NEW c \in Clients,
           \/ \E k \in Configuration : PresentRideActionView(c, k)
           \/ HideRideActionView(c)
           \/ UNCHANGED rideVars
    PROVE  /\ ride' \in [Clients -> Configuration \cup {"hidden"}]
           /\ buttonAction' \in [Clients -> ButtonAction]
<1>. USE DEF TypeInv, UITypeOK
<1>1. \A k, b : Setup(k, b) \in ButtonAction
  BY DEF Setup, config, ButtonAction
<1>2. CASE \E k \in Configuration : PresentRideActionView(c, k)
  BY <1>1, <1>2 DEF PresentRideActionView
<1>3. CASE HideRideActionView(c)
  BY <1>3 DEF HideRideActionView
<1>4. CASE UNCHANGED rideVars
  BY <1>4 DEF rideVars
<1>. QED
  BY <1>2, <1>3, <1>4

LEMMA RiderType ==
    ASSUME TypeInv, NEW p \in Passengers, RiderStep(p)
    PROVE  TypeInv'
<1>. p \in Clients
  BY DEF Clients
<1>. USE DEF riderVars, driverVars, history
<1>1. CASE ObserveCurrentTrip(p)
  BY <1>1, ObserveValueInv DEF TypeInv, UITypeOK, ObserveCurrentTrip, rideVars
<1>2. CASE DidSelectRow(p)
  <2>1. /\ ride' \in [Clients -> Configuration \cup {"hidden"}]
        /\ buttonAction' \in [Clients -> ButtonAction]
    BY <1>2, RideViewType DEF DidSelectRow, Configuration
  <2>. QED
    BY <1>2, <2>1, DBUnchanged DEF TypeInv, UITypeOK, DidSelectRow
<1>3. CASE ActionButtonPressed(p)
  <2>1. /\ ride' \in [Clients -> Configuration \cup {"hidden"}]
        /\ buttonAction' \in [Clients -> ButtonAction]
    BY <1>3, RideViewType DEF ActionButtonPressed
  <2>. QED
    BY <1>3, <2>1, DBUnchanged DEF TypeInv, UITypeOK, ActionButtonPressed
<1>4. CASE \E place \in Places : OnRide(p, place)
  <2>1. PICK place \in Places : OnRide(p, place)
    BY <1>4
  <2>2. UploadTrip(p, place) \in Put
    BY RecordTypes DEF UploadTrip, Put, Write, TripState
  <2>3. DBInv'
    BY <2>1, <2>2, UpdateChildValuesInv DEF TypeInv, OnRide
  <2>4. UITypeOK'
    BY <2>1 DEF TypeInv, UITypeOK, OnRide, ShouldPresentLoadingView, rideVars
  <2>. QED
    BY <2>3, <2>4 DEF TypeInv
<1>5. CASE HandleValue(p)
  <2>1. DBInv' /\ Head(mainQ[p]) \in Block
    BY <1>5, RunBlockInv DEF TypeInv, HandleValue
  <2>2. Head(mainQ[p]).trip \in Trip
    BY <2>1 DEF Block
  <2>3. /\ ride' \in [Clients -> Configuration \cup {"hidden"}]
        /\ buttonAction' \in [Clients -> ButtonAction]
    BY <1>5, RideViewType DEF HandleValue, Configuration, rideVars
  <2>4. UITypeOK'
    BY <1>5, <2>2, <2>3 DEF TypeInv, UITypeOK, HandleValue, ShouldPresentLoadingView
  <2>. QED
    BY <2>1, <2>4 DEF TypeInv
<1>6. CASE HandleUploadDone(p)
  <2>1. DBInv'
    BY <1>6, RunBlockInv DEF TypeInv, HandleUploadDone
  <2>2. /\ ride' \in [Clients -> Configuration \cup {"hidden"}]
        /\ buttonAction' \in [Clients -> ButtonAction]
    BY <1>6, RideViewType DEF HandleUploadDone
  <2>3. UITypeOK'
    BY <1>6, <2>2 DEF TypeInv, UITypeOK, HandleUploadDone
  <2>. QED
    BY <2>1, <2>3 DEF TypeInv
<1>7. CASE RestartRider(p)
  <2>1. DBInv'
    BY <1>7, RestartInv DEF TypeInv, RestartRider
  <2>2. UITypeOK'
    BY <1>7, RecordTypes DEF TypeInv, UITypeOK, RestartRider, ButtonAction
  <2>. QED
    BY <2>1, <2>2 DEF TypeInv
<1>. QED
  BY <1>1, <1>2, <1>3, <1>4, <1>5, <1>6, <1>7 DEF RiderStep

LEMMA DriverType ==
    ASSUME TypeInv, NEW d \in Drivers, DriverStep(d)
    PROVE  TypeInv'
<1>. d \in Clients
  BY DEF Clients
<1>. USE DEF riderVars, driverVars, history
<1>1. CASE ObserveTrips(d)
  BY <1>1, ObserveChildAddedInv DEF TypeInv, UITypeOK, ObserveTrips, rideVars
<1>2. CASE HandleChildAdded(d)
  <2>1. DBInv' /\ Head(mainQ[d]) \in Block
    BY <1>2, RunBlockInv DEF TypeInv, HandleChildAdded
  <2>2. [of |-> Head(mainQ[d]).of, trip |-> Head(mainQ[d]).trip] \in Offer
    BY <2>1 DEF Block, Offer
  <2>3. pickup' \in [Drivers -> SUBSET Offer]
    BY <1>2, <2>2 DEF TypeInv, UITypeOK, HandleChildAdded
  <2>4. UITypeOK'
    BY <1>2, <2>3 DEF TypeInv, UITypeOK, HandleChildAdded, rideVars
  <2>. QED
    BY <2>1, <2>4 DEF TypeInv
<1>3. CASE HandleAcceptTrip(d)
  <2>1. PICK o \in pickup[d] : UpdateChildValues(d, AcceptTrip(d, o))
    BY <1>3 DEF HandleAcceptTrip
  <2>2. o \in Offer
    BY <2>1 DEF TypeInv, UITypeOK
  <2>3. AcceptTrip(d, o) \in Put
    BY <2>2 DEF AcceptTrip, Put, Write, TripState, Offer
  <2>4. DBInv'
    BY <2>1, <2>3, UpdateChildValuesInv DEF TypeInv
  <2>5. UITypeOK'
    BY <1>3 DEF TypeInv, UITypeOK, HandleAcceptTrip, rideVars
  <2>. QED
    BY <2>4, <2>5 DEF TypeInv
<1>4. CASE HandleDismissal(d)
  BY <1>4, DBUnchanged DEF TypeInv, UITypeOK, HandleDismissal, rideVars
<1>5. CASE DidAcceptTrip(d)
  <2>1. DBInv' /\ Head(mainQ[d]) \in Block
    BY <1>5, RunBlockInv DEF TypeInv, DidAcceptTrip
  <2>2. [of |-> Head(mainQ[d]).of, place |-> Head(mainQ[d]).trip.place] \in Engagement
    BY <2>1 DEF Block, Trip, Engagement
  <2>3. engaged' \in [Drivers -> SUBSET Engagement]
    BY <1>5, <2>2 DEF TypeInv, UITypeOK, DidAcceptTrip
  <2>4. /\ ride' \in [Clients -> Configuration \cup {"hidden"}]
        /\ buttonAction' \in [Clients -> ButtonAction]
    BY <1>5, RideViewType DEF DidAcceptTrip, Configuration, rideVars
  <2>5. rideAfter' \in [Drivers -> BOOLEAN]
    BY <1>5 DEF TypeInv, UITypeOK, DidAcceptTrip
  <2>6. leaving' \in [Drivers -> BOOLEAN]
    BY <1>5 DEF TypeInv, UITypeOK, DidAcceptTrip
  <2>7. UITypeOK'
    BY <1>5, <2>3, <2>4, <2>5, <2>6 DEF TypeInv, UITypeOK, DidAcceptTrip
  <2>. QED
    BY <2>1, <2>7 DEF TypeInv
<1>6. CASE DismissDone(d)
  <2>1. /\ ride' \in [Clients -> Configuration \cup {"hidden"}]
        /\ buttonAction' \in [Clients -> ButtonAction]
    BY <1>6, RideViewType DEF DismissDone, Configuration
  <2>. QED
    BY <1>6, <2>1, DBUnchanged DEF TypeInv, UITypeOK, DismissDone
<1>7. CASE TripsEvent(d)
  <2>1. DBInv'
    BY <1>7, ChildAddedInv, ChildChangedInv DEF TypeInv, TripsEvent
  <2>. QED
    BY <1>7, <2>1 DEF TypeInv, UITypeOK, TripsEvent, uiVars, rideVars
<1>8. CASE RestartDriver(d)
  <2>1. DBInv'
    BY <1>8, RestartInv DEF TypeInv, RestartDriver
  <2>2. UITypeOK'
    BY <1>8 DEF TypeInv, UITypeOK, RestartDriver, ButtonAction
  <2>. QED
    BY <2>1, <2>2 DEF TypeInv
<1>. QED
  BY <1>1, <1>2, <1>3, <1>4, <1>5, <1>6, <1>7, <1>8 DEF DriverStep

LEMMA SystemType ==
    ASSUME TypeInv, NEW c \in Clients, SystemStep(c)
    PROVE  TypeInv'
<1>. USE DEF riderVars, driverVars, rideVars, history, uiVars
<1>1. CASE Library(c)
  <2>1. DBInv'
    BY <1>1, DeliverInv, ReconnectInv, DisconnectInv DEF TypeInv, Library
  <2>. QED
    BY <1>1, <2>1 DEF TypeInv, UITypeOK, Library
<1>2. CASE Grant(c)
  <2>1. DBInv'
    BY <1>2, ServerApplyInv DEF TypeInv, Grant
  <2>2. NextPut(c).write.path \in Passengers
    BY <1>2, NextPutType DEF TypeInv, Grant, ServerApply
  <2>3. granted' \subseteq Drivers \X Passengers
    BY <1>2, <2>2 DEF TypeInv, UITypeOK, Grant
  <2>. QED
    BY <1>2, <2>1, <2>3 DEF TypeInv, UITypeOK, Grant
<1>3. CASE Refuse(c)
  <2>1. DBInv'
    BY <1>3, ServerRejectInv DEF TypeInv, Refuse
  <2>. QED
    BY <1>3, <2>1 DEF TypeInv, UITypeOK, Refuse
<1>4. CASE SetupAgain(c)
  <2>1. /\ ride' \in [Clients -> Configuration \cup {"hidden"}]
        /\ loading' \in [Passengers -> BOOLEAN]
    BY <1>4 DEF TypeInv, UITypeOK, SetupAgain, HideRideActionView
  <2>. QED
    BY <1>4, <2>1, DBUnchanged DEF TypeInv, UITypeOK, SetupAgain, HideRideActionView
<1>. QED
  BY <1>1, <1>2, <1>3, <1>4 DEF SystemStep

LEMMA NextType == TypeInv /\ [Next]_vars => TypeInv'
<1>. SUFFICES ASSUME TypeInv, [Next]_vars PROVE TypeInv'
  OBVIOUS
<1>1. CASE Next
  BY <1>1, RiderType, DriverType, SystemType DEF Next
<1>2. CASE UNCHANGED vars
  BY <1>2, DBUnchanged
  DEF TypeInv, UITypeOK, vars, riderVars, driverVars, rideVars, history
<1>. QED
  BY <1>1, <1>2

LEMMA SpecType == Spec => []TypeInv
BY InitType, NextType, PTL DEF Spec

\* The state of every rider, driver and the database keeps its types, in
\* every reachable state of every instance.
THEOREM TypeCorrect == Spec => []TypeOK
BY SpecType, TypeInvParts, PTL

\* The library never mistakes which of its puts an answer belongs to: sendPut
\* and restoreState answer each outstanding put once, over any number of
\* lost connections.
THEOREM AnswersCorrect == Spec => []AnswersMatchPuts
BY SpecType, TypeInvParts, PTL

-----------------------------------------------------------------------------
(* Offers.  acceptTrip writes no coordinates, so that a record it created  *)
(* would crash every driver it is offered to.  What prevents this is that  *)
(* whatever a driver holds (view, queued event, screen, put) came from a   *)
(* record that a rider had created, and records are never removed.         *)

Listed == {p \in Passengers : trips[p] # NoTrip}
RealTrip == {t \in Trip : t.place \in Places}
RealBlock == {b \in Block : b.of \in Listed /\ b.trip \in RealTrip}
RequestPut(p) == {put \in Put : /\ put.write.path = p
                                /\ put.write.place \in Places
                                /\ put.write.state = "requested"
                                /\ put.write.driver = NoDriver}
AcceptPut(d) == {put \in Put : /\ put.write.path \in Listed
                               /\ put.write.place = NoPlace
                               /\ put.write.state = "accepted"
                               /\ put.write.driver = d
                               /\ put.trip \in RealTrip}

RiderReal(p) ==
    /\ trips[p] \in RealTrip \cup {NoTrip}
    /\ outbox[p] \in Seq(RequestPut(p))

DriverReal(d) ==
    /\ \A p \in Passengers : heard[d][p] # NoTrip => p \in Listed /\ heard[d][p] \in RealTrip
    /\ outbox[d] \in Seq(AcceptPut(d))
    /\ mainQ[d] \in Seq(RealBlock)
    /\ \A o \in pickup[d] : o.of \in Listed /\ o.trip \in RealTrip
    /\ \A e \in engaged[d] : e.place \in Places

OffersReal ==
    /\ \A p \in Passengers : RiderReal(p)
    /\ \A d \in Drivers : DriverReal(d)

\* Riders and drivers whose state did not move, while no record vanished.
LEMMA RiderFrame ==
    ASSUME NEW p, RiderReal(p), trips'[p] = trips[p], outbox'[p] = outbox[p]
    PROVE  RiderReal(p)'
<1>1. RequestPut(p)' = RequestPut(p)
  BY DEF RequestPut
<1>. QED
  BY <1>1 DEF RiderReal

LEMMA DriverFrame ==
    ASSUME NEW d, DriverReal(d), Listed \subseteq Listed',
           heard'[d] = heard[d], outbox'[d] = outbox[d], mainQ'[d] = mainQ[d],
           pickup'[d] = pickup[d], engaged'[d] = engaged[d]
    PROVE  DriverReal(d)'
<1>1. /\ RealBlock \subseteq RealBlock'
      /\ AcceptPut(d) \subseteq AcceptPut(d)'
  BY DEF RealBlock, AcceptPut
<1>2. /\ outbox[d] \in Seq(AcceptPut(d)')
      /\ mainQ[d] \in Seq(RealBlock')
  BY <1>1, SeqMonotonic DEF DriverReal
<1>. QED
  BY <1>2 DEF DriverReal

LEMMA RealEventsType ==
    ASSUME NEW n \in Nat, NEW q \in Seq(RealBlock), NEW s \in [1 .. n -> RealBlock]
    PROVE  q \o s \in Seq(RealBlock)
<1>1. s \in Seq(RealBlock)
  BY SeqDef
<1>. QED
  BY <1>1, ConcatProperties

LEMMA InitOffers == Init => OffersReal
<1>. SUFFICES ASSUME Init PROVE OffersReal
  OBVIOUS
<1>1. ASSUME NEW p \in Passengers PROVE RiderReal(p)
  BY EmptySeq DEF Init, DBInit, RiderReal, Clients
<1>2. ASSUME NEW d \in Drivers PROVE DriverReal(d)
  BY EmptySeq DEF Init, DBInit, DriverReal, Clients
<1>. QED
  BY <1>1, <1>2 DEF OffersReal

\* A step that leaves trips/ alone leaves the set of records alone.
LEMMA ListedFrame == trips' = trips => Listed' = Listed /\ RealBlock' = RealBlock
BY DEF Listed, RealBlock

LEMMA RiderOffers ==
    ASSUME TypeInv, OffersReal, NEW p \in Passengers, RiderStep(p)
    PROVE  OffersReal'
<1>1. /\ trips' = trips
      /\ \A d \in Drivers : /\ heard'[d] = heard[d] /\ outbox'[d] = outbox[d]
                            /\ mainQ'[d] = mainQ[d]
                            /\ pickup'[d] = pickup[d] /\ engaged'[d] = engaged[d]
      /\ \A q \in Passengers \ {p} : outbox'[q] = outbox[q]
  <2>. USE ClientsAssumption
       DEF TypeInv, DBInv, DBTypeOK, RiderStep, riderVars, driverVars, dbVars, Clients
  <2>1. CASE ObserveCurrentTrip(p)
    BY <2>1 DEF ObserveCurrentTrip, ObserveValue
  <2>2. CASE DidSelectRow(p) \/ ActionButtonPressed(p)
    BY <2>2 DEF DidSelectRow, ActionButtonPressed
  <2>3. CASE \E place \in Places : OnRide(p, place)
    BY <2>3 DEF OnRide, UpdateChildValues
  <2>4. CASE HandleValue(p) \/ HandleUploadDone(p)
    BY <2>4 DEF HandleValue, HandleUploadDone, RunBlock
  <2>5. CASE RestartRider(p)
    BY <2>5 DEF RestartRider, Restart
  <2>. QED
    BY <2>1, <2>2, <2>3, <2>4, <2>5
<1>2. ASSUME NEW d \in Drivers PROVE DriverReal(d)'
  BY <1>1, ListedFrame, DriverFrame DEF OffersReal
<1>3. outbox'[p] \in Seq(RequestPut(p))
  <2>. p \in Clients /\ outbox[p] \in Seq(RequestPut(p))
    BY DEF OffersReal, RiderReal, Clients
  <2>1. CASE \E place \in Places : OnRide(p, place)
    <3>1. PICK place \in Places : OnRide(p, place)
      BY <2>1
    <3>2. UploadTrip(p, place) \in RequestPut(p)
      BY RecordTypes DEF UploadTrip, RequestPut, Put, Write, TripState
    <3>3. outbox'[p] = Append(outbox[p], UploadTrip(p, place))
      BY <3>1 DEF OnRide, UpdateChildValues, TypeInv, DBInv, DBTypeOK
    <3>. QED
      BY <3>2, <3>3, AppendProperties
  <2>2. CASE RestartRider(p)
    <3>1. outbox'[p] = <<>>
      BY <2>2 DEF RestartRider, Restart, TypeInv, DBInv, DBTypeOK
    <3>. QED
      BY <3>1, EmptySeq
  <2>3. CASE UNCHANGED outbox
    BY <2>3
  <2>. QED
    BY <2>1, <2>2, <2>3
    DEF RiderStep, ObserveCurrentTrip, ObserveValue, DidSelectRow, ActionButtonPressed,
        HandleValue, HandleUploadDone, RunBlock, dbVars
<1>4. ASSUME NEW q \in Passengers PROVE RiderReal(q)'
  <2>1. CASE q # p
    BY <2>1, <1>1, RiderFrame DEF OffersReal
  <2>2. CASE q = p
    BY <2>2, <1>1, <1>3 DEF OffersReal, RiderReal, RequestPut, RealTrip
  <2>. QED
    BY <2>1, <2>2
<1>. QED
  BY <1>2, <1>4 DEF OffersReal

LEMMA DriverOffers ==
    ASSUME TypeInv, OffersReal, NEW d \in Drivers, DriverStep(d)
    PROVE  OffersReal'
<1>. d \in Clients /\ d \notin Passengers
  BY ClientsAssumption DEF Clients
<1>1. /\ trips' = trips
      /\ \A p \in Passengers : outbox'[p] = outbox[p]
      /\ \A x \in Drivers \ {d} : /\ heard'[x] = heard[x] /\ outbox'[x] = outbox[x]
                                  /\ mainQ'[x] = mainQ[x]
                                  /\ pickup'[x] = pickup[x] /\ engaged'[x] = engaged[x]
  <2>0. /\ DOMAIN outbox = Clients /\ DOMAIN mainQ = Clients /\ DOMAIN heard = Drivers
        /\ DOMAIN pickup = Drivers /\ DOMAIN engaged = Drivers
        /\ Drivers \subseteq Clients /\ Passengers \subseteq Clients
    BY DEF TypeInv, UITypeOK, DBInv, DBTypeOK, Clients
  <2>. USE <2>0 DEF driverVars, dbVars
  <2>1. CASE ObserveTrips(d)
    BY <2>1 DEF ObserveTrips, ObserveChildAdded
  <2>2. CASE HandleChildAdded(d)
    BY <2>2 DEF HandleChildAdded, RunBlock
  <2>3. CASE DidAcceptTrip(d)
    BY <2>3 DEF DidAcceptTrip, RunBlock
  <2>4. CASE HandleAcceptTrip(d)
    BY <2>4 DEF HandleAcceptTrip, UpdateChildValues
  <2>5. CASE HandleDismissal(d) \/ DismissDone(d)
    BY <2>5 DEF HandleDismissal, DismissDone
  <2>6. CASE TripsEvent(d)
    BY <2>6 DEF TripsEvent, ChildAdded, ChildChanged, uiVars
  <2>7. CASE RestartDriver(d)
    BY <2>7 DEF RestartDriver, Restart
  <2>. QED
    BY <2>1, <2>2, <2>3, <2>4, <2>5, <2>6, <2>7 DEF DriverStep
<1>2. Listed' = Listed /\ RealBlock' = RealBlock
  BY <1>1, ListedFrame
<1>3. AcceptPut(d)' = AcceptPut(d) /\ RealTrip' = RealTrip
  BY <1>2 DEF AcceptPut, RealTrip
<1>4. ASSUME NEW p \in Passengers PROVE RiderReal(p)'
  BY <1>1, RiderFrame DEF OffersReal
<1>5. ASSUME NEW x \in Drivers, x # d PROVE DriverReal(x)'
  BY <1>1, <1>2, <1>5, DriverFrame DEF OffersReal
<1>6. /\ \A p \in Passengers : heard[d][p] # NoTrip => p \in Listed /\ heard[d][p] \in RealTrip
      /\ outbox[d] \in Seq(AcceptPut(d))
      /\ mainQ[d] \in Seq(RealBlock)
      /\ \A o \in pickup[d] : o.of \in Listed /\ o.trip \in RealTrip
      /\ \A e \in engaged[d] : e.place \in Places
  BY DEF OffersReal, DriverReal
<1>7. DriverReal(d)'
  <2>. SUFFICES /\ \A p \in Passengers :
                     heard'[d][p] # NoTrip => p \in Listed /\ heard'[d][p] \in RealTrip
                /\ outbox'[d] \in Seq(AcceptPut(d))
                /\ mainQ'[d] \in Seq(RealBlock)
                /\ \A o \in pickup'[d] : o.of \in Listed /\ o.trip \in RealTrip
                /\ \A e \in engaged'[d] : e.place \in Places
    BY <1>2, <1>3 DEF DriverReal
  <2>0. /\ mainQ \in [Clients -> Seq(Block)] /\ outbox \in [Clients -> Seq(Put)]
        /\ pickup \in [Drivers -> SUBSET Offer] /\ engaged \in [Drivers -> SUBSET Engagement]
        /\ heard \in [Drivers -> [Passengers -> Trip]] /\ trips \in [Passengers -> Trip]
        /\ regs[d] \in Nat
    BY DEF TypeInv, UITypeOK, DBInv, DBTypeOK
  <2>1. CASE ObserveTrips(d)
    <3>. DEFINE n == Cardinality(Known(d))
    <3>1. PICK s \in Orders(Known(d)) :
            mainQ' = [mainQ EXCEPT ![d] = @ \o [i \in 1 .. n |-> Event(s[i], heard[d][s[i]])]]
      BY <2>1 DEF ObserveTrips, ObserveChildAdded
    <3>2. Known(d) \subseteq Passengers /\ n \in Nat
      BY ClientsAssumption, FS_Subset, FS_CardinalityType DEF Known
    <3>. HIDE DEF n
    <3>3. \A i \in 1 .. n : s[i] \in Known(d)
      BY <3>1, <3>2 DEF Orders, n
    <3>4. \A i \in 1 .. n : Event(s[i], heard[d][s[i]]) \in RealBlock
      BY <3>2, <3>3, <1>6, <2>0, RecordTypes DEF Known, Event, RealBlock
    <3>5. mainQ[d] \o [i \in 1 .. n |-> Event(s[i], heard[d][s[i]])] \in Seq(RealBlock)
      BY <3>2, <3>4, <1>6, RealEventsType
    <3>6. mainQ'[d] \in Seq(RealBlock)
      BY <3>1, <3>5, <2>0
    <3>. QED
      BY <3>6, <2>1, <1>6 DEF ObserveTrips, ObserveChildAdded, driverVars
  <2>2. CASE HandleChildAdded(d)
    <3>1. Head(mainQ[d]) \in RealBlock /\ Tail(mainQ[d]) \in Seq(RealBlock)
      BY <2>2, <1>6, HeadTailProperties DEF HandleChildAdded, RunBlock
    <3>2. mainQ'[d] = Tail(mainQ[d])
      BY <2>2, <2>0 DEF HandleChildAdded, RunBlock
    <3>3. \A o \in pickup'[d] : o.of \in Listed /\ o.trip \in RealTrip
      BY <2>2, <3>1, <1>6, <2>0 DEF HandleChildAdded, RealBlock
    <3>. QED
      BY <3>1, <3>2, <3>3, <2>2, <1>6 DEF HandleChildAdded, RunBlock
  <2>3. CASE HandleAcceptTrip(d)
    <3>1. PICK o \in pickup[d] : UpdateChildValues(d, AcceptTrip(d, o))
      BY <2>3 DEF HandleAcceptTrip
    <3>2. o \in Offer /\ o.of \in Listed /\ o.trip \in RealTrip
      BY <3>1, <1>6, <2>0
    <3>3. AcceptTrip(d, o) \in AcceptPut(d)
      BY <3>2 DEF AcceptTrip, AcceptPut, Put, Write, TripState, Offer
    <3>4. outbox'[d] = Append(outbox[d], AcceptTrip(d, o))
      BY <3>1, <2>0 DEF UpdateChildValues
    <3>5. outbox'[d] \in Seq(AcceptPut(d))
      BY <3>3, <3>4, <1>6, AppendProperties
    <3>6. mainQ'[d] = mainQ[d]
      <4>1. cache[d] = Unknown
        BY DEF TypeInv, DBInv, DriversHearNoValue
      <4>. QED
        BY <3>1, <2>0, <4>1, ViewUnknown, RaiseNothing DEF UpdateChildValues
    <3>. QED
      BY <3>1, <3>5, <3>6, <2>3, <1>6 DEF HandleAcceptTrip, UpdateChildValues, driverVars
  <2>4. CASE HandleDismissal(d) \/ DismissDone(d)
    BY <2>4, <1>6, <2>0 DEF HandleDismissal, DismissDone, dbVars
  <2>5. CASE DidAcceptTrip(d)
    <3>1. Head(mainQ[d]) \in RealBlock /\ Tail(mainQ[d]) \in Seq(RealBlock)
      BY <2>5, <1>6, HeadTailProperties DEF DidAcceptTrip, RunBlock
    <3>2. mainQ'[d] = Tail(mainQ[d])
      BY <2>5, <2>0 DEF DidAcceptTrip, RunBlock
    <3>3. \A e \in engaged'[d] : e.place \in Places
      BY <2>5, <3>1, <1>6, <2>0 DEF DidAcceptTrip, RealBlock, RealTrip
    <3>. QED
      BY <3>1, <3>2, <3>3, <2>5, <1>6 DEF DidAcceptTrip, RunBlock
  <2>6. CASE TripsEvent(d)
    <3>1. PICK p \in Passengers : ChildAdded(d, p) \/ ChildChanged(d, p)
      BY <2>6 DEF TripsEvent
    <3>2. p \in Listed /\ trips[p] \in RealTrip
      <4>1. heard[d][p] # NoTrip => p \in Listed
        BY <1>6
      <4>2. p \in Listed
        BY <3>1, <4>1 DEF ChildAdded, ChildChanged, Listed
      <4>. QED
        BY <4>2 DEF Listed, OffersReal, RiderReal
    <3>3. \A q \in Passengers :
            heard'[d][q] # NoTrip => q \in Listed /\ heard'[d][q] \in RealTrip
      BY <3>1, <3>2, <1>6, <2>0 DEF ChildAdded, ChildChanged
    <3>4. mainQ'[d] \in Seq(RealBlock)
      <4>1. CASE ChildAdded(d, p)
        <5>1. Event(p, trips[p]) \in RealBlock
          BY <3>2, <2>0, RecordTypes DEF Event, RealBlock
        <5>2. mainQ[d] \o [i \in 1 .. regs[d] |-> Event(p, trips[p])] \in Seq(RealBlock)
          BY <5>1, <1>6, <2>0, RealEventsType
        <5>. QED
          BY <4>1, <5>2, <2>0 DEF ChildAdded
      <4>2. CASE ChildChanged(d, p)
        BY <4>2, <1>6 DEF ChildChanged
      <4>. QED
        BY <3>1, <4>1, <4>2
    <3>. QED
      BY <3>1, <3>3, <3>4, <2>6, <1>6
      DEF TripsEvent, ChildAdded, ChildChanged, uiVars, driverVars
  <2>7. CASE RestartDriver(d)
    <3>1. /\ outbox'[d] = <<>> /\ mainQ'[d] = <<>>
          /\ pickup'[d] = {} /\ engaged'[d] = {}
      BY <2>7, <2>0 DEF RestartDriver, Restart
    <3>2. \A p \in Passengers : heard'[d][p] = NoTrip
      BY <2>7 DEF RestartDriver, Restart
    <3>. QED
      BY <3>1, <3>2, EmptySeq
  <2>. QED
    BY <2>1, <2>2, <2>3, <2>4, <2>5, <2>6, <2>7 DEF DriverStep
<1>. QED
  BY <1>4, <1>5, <1>7 DEF OffersReal

\* A put that is retired leaves a queue of puts of the same kind.
LEMMA LibraryOffers ==
    ASSUME TypeInv, OffersReal, NEW c \in Clients, Library(c)
    PROVE  OffersReal'
<1>0. /\ mainQ \in [Clients -> Seq(Block)] /\ outbox \in [Clients -> Seq(Put)]
  BY DEF TypeInv, DBInv, DBTypeOK
<1>1. /\ UNCHANGED <<trips, heard, pickup, engaged>>
      /\ \A x \in Clients \ {c} : outbox'[x] = outbox[x] /\ mainQ'[x] = mainQ[x]
  BY <1>0
  DEF Library, Deliver, Reconnect, Disconnect, uiVars, driverVars
<1>2. Listed' = Listed /\ RealBlock' = RealBlock
  BY <1>1, ListedFrame
<1>3. ASSUME NEW p \in Passengers PROVE RiderReal(p)'
  <2>1. p \in Clients /\ outbox[p] \in Seq(RequestPut(p))
    BY DEF Clients, OffersReal, RiderReal
  <2>2. CASE outbox'[p] = outbox[p]
    BY <2>2, <1>1, RiderFrame DEF OffersReal
  <2>3. CASE p = c /\ Deliver(c) /\ outbox'[p] # outbox[p]
    <3>1. outbox'[p] = Tail(outbox[p]) /\ Head(inbox[p]).ack # "none"
      BY <2>3, <1>0 DEF Deliver
    <3>2. outbox[p] # <<>>
      BY <2>1, <2>3, <3>1, AnsweredPut DEF TypeInv
    <3>3. outbox'[p] \in Seq(RequestPut(p))
      BY <2>1, <3>1, <3>2, HeadTailProperties
    <3>. QED
      BY <1>1, <3>3 DEF OffersReal, RiderReal, RequestPut, RealTrip
  <2>. QED
    BY <2>1, <2>2, <2>3, <1>1 DEF Library, Reconnect, Disconnect
<1>4. ASSUME NEW d \in Drivers PROVE DriverReal(d)'
  <2>1. /\ d \in Clients /\ outbox[d] \in Seq(AcceptPut(d)) /\ mainQ[d] \in Seq(RealBlock)
    BY DEF Clients, OffersReal, DriverReal
  <2>2. CASE outbox'[d] = outbox[d] /\ mainQ'[d] = mainQ[d]
    BY <2>2, <1>1, <1>2, DriverFrame DEF OffersReal
  <2>3. CASE d = c /\ Deliver(d)
    <3>1. PICK ok \in BOOLEAN :
             \/ /\ outbox[d] # <<>>
                /\ outbox' = [outbox EXCEPT ![d] = Tail(outbox[d])]
                /\ mainQ' = [mainQ EXCEPT ![d] = Append(mainQ[d], Done(Head(outbox[d]), ok))]
             \/ UNCHANGED <<outbox, mainQ>>
      BY <2>3, DeliverDriver DEF TypeInv
    <3>2. CASE outbox[d] = <<>>
      BY <3>1, <3>2, <2>2
    <3>3. CASE outbox[d] # <<>>
      <4>1. Head(outbox[d]) \in AcceptPut(d) /\ Tail(outbox[d]) \in Seq(AcceptPut(d))
        BY <2>1, <3>3, HeadTailProperties
      <4>2. Done(Head(outbox[d]), ok) \in RealBlock
        BY <4>1, RecordTypes DEF AcceptPut, Done, RealBlock
      <4>3. Append(mainQ[d], Done(Head(outbox[d]), ok)) \in Seq(RealBlock)
        BY <2>1, <4>2, AppendProperties
      <4>4. outbox'[d] \in Seq(AcceptPut(d)) /\ mainQ'[d] \in Seq(RealBlock)
        BY <3>1, <2>1, <4>1, <4>3, <1>0
      <4>5. AcceptPut(d)' = AcceptPut(d) /\ RealTrip' = RealTrip
        BY <1>2 DEF AcceptPut, RealTrip
      <4>. QED
        BY <1>1, <1>2, <4>4, <4>5 DEF OffersReal, DriverReal
    <3>. QED
      BY <3>2, <3>3
  <2>. QED
    BY <2>1, <2>2, <2>3, <1>1 DEF Library, Reconnect, Disconnect
<1>. QED
  BY <1>3, <1>4 DEF OffersReal

\* What the server makes of the next put: a rider's is a request with
\* coordinates, a driver's an acceptance of a trip that is there.
LEMMA GrantEffect ==
    ASSUME TypeInv, OffersReal, NEW c \in Clients, Grant(c)
    PROVE  \E p \in Passengers :
             /\ p = NextPut(c).write.path
             /\ \/ /\ c = p
                   /\ \E place \in Places :
                        trips' = [trips EXCEPT ![p] =
                                    [place |-> place, state |-> "requested", driver |-> trips[p].driver]]
                \/ /\ c \in Drivers /\ p \in Listed
                   /\ trips' = [trips EXCEPT ![p] =
                                  [place |-> trips[p].place, state |-> "accepted", driver |-> c]]
<1>. DEFINE put == NextPut(c)
            w == put.write
<1>1. sent[c] < Len(outbox[c]) /\ trips' = [trips EXCEPT ![w.path] = Merge(trips[w.path], w)]
  BY DEF Grant, ServerApply
<1>2. w.path \in Passengers
  BY <1>1, NextPutType DEF TypeInv
<1>3. sent[c] \in Nat /\ outbox[c] \in Seq(Put)
  BY DEF TypeInv, DBInv, DBTypeOK
<1>4. sent[c] + 1 \in 1 .. Len(outbox[c])
  BY <1>1, <1>3, LenProperties
<1>5. CASE c \in Passengers
  <2>1. put \in RequestPut(c)
    BY <1>4, <1>5, ElementOfSeq DEF OffersReal, RiderReal, NextPut
  <2>2. w.path = c /\ w.place \in Places /\ w.state = "requested" /\ w.driver = NoDriver
    BY <2>1 DEF RequestPut
  <2>3. w.place # NoPlace
    BY <2>2, PlacesAssumption
  <2>. HIDE DEF w, put
  <2>4. Merge(trips[w.path], w) =
          [place |-> w.place, state |-> "requested", driver |-> trips[w.path].driver]
    BY <2>2, <2>3 DEF Merge
  <2>. QED
    BY <1>1, <1>2, <2>2, <2>4 DEF w, put
<1>6. CASE c \in Drivers
  <2>1. put \in AcceptPut(c)
    BY <1>4, <1>6, ElementOfSeq DEF OffersReal, DriverReal, NextPut
  <2>2. w.path \in Listed /\ w.place = NoPlace /\ w.state = "accepted" /\ w.driver = c
    BY <2>1 DEF AcceptPut
  <2>3. w.driver # NoDriver
    BY <1>6, <2>2, NoDriverAssumption
  <2>. HIDE DEF w, put
  <2>4. Merge(trips[w.path], w) =
          [place |-> trips[w.path].place, state |-> "accepted", driver |-> c]
    BY <2>2, <2>3 DEF Merge
  <2>. QED
    BY <1>1, <1>2, <1>6, <2>2, <2>4 DEF w, put
<1>. QED
  BY <1>5, <1>6 DEF Clients

LEMMA GrantOffers ==
    ASSUME TypeInv, OffersReal, NEW c \in Clients, Grant(c)
    PROVE  OffersReal'
<1>1. UNCHANGED <<outbox, heard, mainQ, pickup, engaged>>
  BY DEF Grant, ServerApply, uiVars, driverVars
<1>2. PICK p \in Passengers :
             \/ \E place \in Places :
                  trips' = [trips EXCEPT ![p] =
                              [place |-> place, state |-> "requested", driver |-> trips[p].driver]]
             \/ /\ c \in Drivers /\ p \in Listed
                /\ trips' = [trips EXCEPT ![p] =
                               [place |-> trips[p].place, state |-> "accepted", driver |-> c]]
  BY GrantEffect
<1>3. trips \in [Passengers -> Trip]
  BY DEF TypeInv, DBInv, DBTypeOK
<1>4. trips'[p] \in RealTrip /\ \A q \in Passengers \ {p} : trips'[q] = trips[q]
  <2>1. \A q \in Listed : trips[q] \in RealTrip
    BY DEF Listed, OffersReal, RiderReal
  <2>. QED
    BY <1>2, <1>3, <2>1 DEF RealTrip, Trip, TripState
<1>5. NoTrip \notin RealTrip
  BY PlacesAssumption DEF NoTrip, RealTrip
<1>6. Listed \subseteq Listed'
  BY <1>4, <1>5 DEF Listed
<1>7. ASSUME NEW d \in Drivers PROVE DriverReal(d)'
  BY <1>1, <1>6, DriverFrame DEF OffersReal
<1>8. ASSUME NEW q \in Passengers PROVE RiderReal(q)'
  <2>1. CASE q # p
    BY <2>1, <1>1, <1>4, RiderFrame DEF OffersReal
  <2>2. CASE q = p
    BY <2>2, <1>1, <1>4 DEF OffersReal, RiderReal, RequestPut, RealTrip
  <2>. QED
    BY <2>1, <2>2
<1>. QED
  BY <1>7, <1>8 DEF OffersReal

LEMMA NextOffers == TypeInv /\ OffersReal /\ [Next]_vars => OffersReal'
<1>. SUFFICES ASSUME TypeInv, OffersReal, [Next]_vars PROVE OffersReal'
  OBVIOUS
<1>1. ASSUME UNCHANGED <<trips, outbox, heard, mainQ, pickup, engaged>> PROVE OffersReal'
  BY <1>1, ListedFrame, RiderFrame, DriverFrame DEF OffersReal
<1>2. ASSUME NEW c \in Clients, SystemStep(c) PROVE OffersReal'
  <2>1. CASE Refuse(c)
    BY <2>1, <1>1 DEF Refuse, ServerReject, uiVars, driverVars
  <2>2. CASE SetupAgain(c)
    BY <2>2, <1>1 DEF SetupAgain, dbVars, driverVars
  <2>. QED
    BY <1>2, <2>1, <2>2, LibraryOffers, GrantOffers DEF SystemStep
<1>3. CASE UNCHANGED vars
  BY <1>3, <1>1 DEF vars, dbVars, driverVars
<1>. QED
  BY <1>2, <1>3, RiderOffers, DriverOffers DEF Next

LEMMA SpecOffers == Spec => []OffersReal
BY SpecType, InitOffers, NextOffers, PTL DEF Spec

\* No pickup screen, and no trip a driver sets off for, ever lacks the
\* coordinates that the app unwraps there.
THEOREM CoordinatesPresent == Spec => []PickupHasCoordinates
<1>1. OffersReal => PickupHasCoordinates
  BY PlacesAssumption DEF OffersReal, DriverReal, RealTrip, PickupHasCoordinates
<1>. QED
  BY <1>1, SpecOffers, PTL

\* Whatever the apps, the network and the retransmissions do, the records of
\* trips/ change only by requests with coordinates and by acceptances of
\* trips that exist: TripDispatch implements TripLifecycle.
THEOREM TripsFollowLifecycle == Spec => LifecycleSpec
<1>. USE DEF Lifecycle!Missing, Lifecycle!LifecycleInit, Lifecycle!LifecycleNext,
             Lifecycle!Request, Lifecycle!Accept
<1>1. Init => Lifecycle!LifecycleInit
  BY DEF Init, DBInit, NoTrip
<1>2. TypeInv /\ OffersReal /\ [Next]_vars => [Lifecycle!LifecycleNext]_trips
  <2>. SUFFICES ASSUME TypeInv, OffersReal, [Next]_vars, trips' # trips
                PROVE  Lifecycle!LifecycleNext
    OBVIOUS
  <2>1. PICK c \in Clients : Grant(c)
    <3>1. \A p \in Passengers : ~RiderStep(p)
      BY DEF RiderStep, ObserveCurrentTrip, ObserveValue, DidSelectRow, ActionButtonPressed,
             OnRide, UpdateChildValues, HandleValue, HandleUploadDone, RunBlock,
             RestartRider, Restart, dbVars
    <3>2. \A d \in Drivers : ~DriverStep(d)
      BY DEF DriverStep, ObserveTrips, ObserveChildAdded, HandleChildAdded, HandleAcceptTrip,
             UpdateChildValues, HandleDismissal, DidAcceptTrip, DismissDone, RunBlock,
             TripsEvent, ChildAdded, ChildChanged, RestartDriver, Restart, dbVars
    <3>3. \A c \in Clients : ~SetupAgain(c) /\ ~Library(c) /\ ~Refuse(c)
      BY DEF SetupAgain, Library, Deliver, Reconnect, Disconnect, Refuse, ServerReject, dbVars
    <3>. QED
      BY <3>1, <3>2, <3>3 DEF Next, SystemStep, vars, dbVars
  <2>2. PICK p \in Passengers :
             \/ \E place \in Places :
                  trips' = [trips EXCEPT ![p] =
                              [place |-> place, state |-> "requested", driver |-> trips[p].driver]]
             \/ /\ c \in Drivers /\ p \in Listed
                /\ trips' = [trips EXCEPT ![p] =
                               [place |-> trips[p].place, state |-> "accepted", driver |-> c]]
    BY <2>1, GrantEffect
  <2>3. trips \in [Passengers -> Trip]
    BY DEF TypeInv, DBInv, DBTypeOK
  <2>4. ASSUME NEW place \in Places,
               trips' = [trips EXCEPT ![p] =
                           [place |-> place, state |-> "requested", driver |-> trips[p].driver]]
        PROVE  Lifecycle!Request(p, place)
    BY <2>3, <2>4 DEF Trip
  <2>5. ASSUME c \in Drivers, p \in Listed,
               trips' = [trips EXCEPT ![p] =
                           [place |-> trips[p].place, state |-> "accepted", driver |-> c]]
        PROVE  Lifecycle!Accept(p, c)
    BY <2>3, <2>5 DEF Trip, Listed, NoTrip
  <2>. QED
    BY <2>2, <2>4, <2>5
<1>. QED
  BY <1>1, <1>2, SpecType, SpecOffers, PTL DEF Spec, LifecycleSpec, Lifecycle!LifecycleSpec

\* For any riders, drivers, places and bounds: types, and answers that match
\* the outstanding puts of every client.
THEOREM ClientsStayConsistent == Spec => []ClientsConsistent
BY TypeCorrect, AnswersCorrect, PTL DEF ClientsConsistent

-----------------------------------------------------------------------------
(* What any step does to one driver's puts, blocks and engagements.        *)

DriverIdle(d) ==
    /\ outbox'[d] = outbox[d] /\ mainQ'[d] = mainQ[d] /\ engaged'[d] = engaged[d]
    /\ sent'[d] \in {sent[d], 0}

DriverHears(d) ==
    /\ outbox'[d] = outbox[d] /\ sent'[d] = sent[d] /\ engaged'[d] = engaged[d]
    /\ \E s \in Seq(Block) : /\ mainQ'[d] = mainQ[d] \o s
                             /\ \A i \in DOMAIN s : s[i].kind = "event"

DriverRuns(d) ==
    /\ outbox'[d] = outbox[d] /\ sent'[d] = sent[d]
    /\ mainQ[d] # <<>> /\ mainQ'[d] = Tail(mainQ[d])
    /\ \/ Head(mainQ[d]).kind = "event" /\ engaged'[d] = engaged[d]
       \/ /\ Head(mainQ[d]).kind = "done"
          /\ \E e : e.of = Head(mainQ[d]).of /\ engaged'[d] = engaged[d] \cup {e}

DriverAccepts(d) ==
    /\ sent'[d] = sent[d] /\ mainQ'[d] = mainQ[d] /\ engaged'[d] = engaged[d]
    /\ \E put \in Put : outbox'[d] = Append(outbox[d], put)

DriverRestarts(d) ==
    /\ restarted'[d]
    /\ outbox'[d] = <<>> /\ mainQ'[d] = <<>> /\ engaged'[d] = {} /\ sent'[d] = 0

DriverAnswered(d) ==
    /\ outbox[d] # <<>> /\ sent[d] > 0
    /\ outbox'[d] = Tail(outbox[d]) /\ sent'[d] = sent[d] - 1
    /\ \E ok \in BOOLEAN : mainQ'[d] = Append(mainQ[d], Done(Head(outbox[d]), ok))
    /\ engaged'[d] = engaged[d]

DriverServed(d) ==
    /\ outbox'[d] = outbox[d] /\ mainQ'[d] = mainQ[d] /\ engaged'[d] = engaged[d]
    /\ sent[d] < Len(outbox[d]) /\ sent'[d] = sent[d] + 1
    /\ <<d, outbox[d][sent[d] + 1].write.path>> \in granted' \/ d \in Denied

DriverMoves(d) ==
    /\ granted \subseteq granted'
    /\ restarted[d] => restarted'[d]
    /\ \/ DriverIdle(d) \/ DriverHears(d) \/ DriverRuns(d) \/ DriverAccepts(d)
       \/ DriverRestarts(d) \/ DriverAnswered(d) \/ DriverServed(d)

\* One block per registration.
LEMMA SameEvents ==
    ASSUME NEW n \in Nat, NEW b \in Block
    PROVE  [i \in 1 .. n |-> b] \in Seq(Block)
BY SeqDef

\* A message to a driver answers its oldest processed put, or changes nothing.
LEMMA DeliverAnswers ==
    ASSUME TypeInv, NEW d \in Drivers, Deliver(d), engaged'[d] = engaged[d]
    PROVE  DriverIdle(d) \/ DriverAnswered(d)
<1>0. /\ d \in Clients /\ outbox \in [Clients -> Seq(Put)] /\ mainQ \in [Clients -> Seq(Block)]
      /\ sent \in [Clients -> Nat] /\ inbox[d] \in Seq(Message) /\ inbox[d] # <<>>
  BY DEF TypeInv, DBInv, DBTypeOK, Clients, Deliver
<1>. DEFINE m == Head(inbox[d])
            puts == IF m.ack # "none" THEN Tail(outbox[d]) ELSE outbox[d]
<1>2. inbox[d][1] = m /\ 1 \in DOMAIN inbox[d]
  BY <1>0, LenProperties, EmptySeq
<1>3. cache[d] = Unknown /\ m.data = Unknown
  BY <1>2 DEF TypeInv, DBInv, DriversHearNoValue
<1>4. RaiseValue(mainQ[d], d, View(cache[d], outbox[d]), View(m.data, puts)) = mainQ[d]
  BY <1>3, ViewUnknown, RaiseNothing
<1>5. /\ outbox'[d] = puts
      /\ sent'[d] = IF m.ack # "none" THEN sent[d] - 1 ELSE sent[d]
      /\ mainQ'[d] = IF m.ack # "none"
                     THEN Append(mainQ[d], Done(Head(outbox[d]), m.ack = "ok"))
                     ELSE mainQ[d]
  BY <1>0, <1>4 DEF Deliver
<1>6. CASE m.ack = "none"
  BY <1>5, <1>6 DEF DriverIdle
<1>7. CASE m.ack # "none"
  <2>1. outbox[d] # <<>>
    BY <1>0, <1>7, AnsweredPut DEF TypeInv
  <2>2. sent[d] > 0
    <3>1. sent' \in [Clients -> Nat]
      BY <1>0, DeliverInv DEF TypeInv, DBInv, DBTypeOK
    <3>. QED
      BY <1>0, <1>5, <1>7, <3>1
  <2>. QED
    BY <1>5, <1>7, <2>1, <2>2 DEF DriverAnswered
<1>. QED
  BY <1>6, <1>7

\* The steps of driver d itself.
LEMMA OwnMoves ==
    ASSUME TypeInv, OffersReal, NEW d \in Drivers, DriverStep(d)
    PROVE  DriverMoves(d)
<1>0. /\ d \in Clients /\ outbox \in [Clients -> Seq(Put)] /\ mainQ \in [Clients -> Seq(Block)]
      /\ sent \in [Clients -> Nat] /\ regs[d] \in Nat
      /\ pickup \in [Drivers -> SUBSET Offer] /\ engaged \in [Drivers -> SUBSET Engagement]
      /\ heard \in [Drivers -> [Passengers -> Trip]] /\ trips \in [Passengers -> Trip]
      /\ restarted \in [Clients -> BOOLEAN]
  BY DEF TypeInv, UITypeOK, DBInv, DBTypeOK, Clients
<1>1. granted' = granted /\ (restarted[d] => restarted'[d])
  BY <1>0 DEF DriverStep, ObserveTrips, HandleChildAdded, HandleAcceptTrip, HandleDismissal,
         DidAcceptTrip, DismissDone, TripsEvent, RestartDriver, history
<1>. SUFFICES \/ DriverIdle(d) \/ DriverHears(d) \/ DriverRuns(d) \/ DriverAccepts(d)
              \/ DriverRestarts(d)
  BY <1>1 DEF DriverMoves
<1>2. CASE ObserveTrips(d)
  <2>. DEFINE n == Cardinality(Known(d))
  <2>1. PICK s \in Orders(Known(d)) :
          mainQ' = [mainQ EXCEPT ![d] = @ \o [i \in 1 .. n |-> Event(s[i], heard[d][s[i]])]]
    BY <1>2 DEF ObserveTrips, ObserveChildAdded
  <2>2. Known(d) \subseteq Passengers /\ n \in Nat
    BY ClientsAssumption, FS_Subset, FS_CardinalityType DEF Known
  <2>3. \A i \in 1 .. n : s[i] \in Known(d)
    BY <2>1, <2>2 DEF Orders
  <2>. HIDE DEF n
  <2>. DEFINE q == [i \in 1 .. n |-> Event(s[i], heard[d][s[i]])]
  <2>4. \A i \in 1 .. n : Event(s[i], heard[d][s[i]]) \in Block
    BY <1>0, <2>2, <2>3, RecordTypes
  <2>5. q \in Seq(Block) /\ DOMAIN q = 1 .. n
    BY <2>2, <2>4, SeqDef
  <2>6. \A i \in DOMAIN q : q[i].kind = "event"
    BY <2>5 DEF Event
  <2>7. mainQ'[d] = mainQ[d] \o q
    BY <1>0, <2>1
  <2>. HIDE DEF q
  <2>. QED
    BY <1>2, <2>5, <2>6, <2>7 DEF ObserveTrips, ObserveChildAdded, driverVars, DriverHears
<1>3. CASE HandleChildAdded(d)
  BY <1>0, <1>3 DEF HandleChildAdded, RunBlock, DriverRuns
<1>4. CASE HandleAcceptTrip(d)
  <2>1. PICK o \in pickup[d] : UpdateChildValues(d, AcceptTrip(d, o))
    BY <1>4 DEF HandleAcceptTrip
  <2>2. AcceptTrip(d, o) \in Put
    BY <1>0, <2>1 DEF AcceptTrip, Put, Write, TripState, Offer
  <2>3. mainQ'[d] = mainQ[d]
    <3>1. cache[d] = Unknown
      BY DEF TypeInv, DBInv, DriversHearNoValue
    <3>. QED
      BY <2>1, <1>0, <3>1, ViewUnknown, RaiseNothing DEF UpdateChildValues
  <2>4. outbox'[d] = Append(outbox[d], AcceptTrip(d, o))
    BY <1>0, <2>1 DEF UpdateChildValues
  <2>. QED
    BY <1>4, <2>1, <2>2, <2>3, <2>4
    DEF HandleAcceptTrip, UpdateChildValues, driverVars, DriverAccepts
<1>5. CASE HandleDismissal(d) \/ DismissDone(d)
  BY <1>5 DEF HandleDismissal, DismissDone, dbVars, DriverIdle
<1>6. CASE DidAcceptTrip(d)
  <2>. DEFINE e == [of |-> Head(mainQ[d]).of, place |-> Head(mainQ[d]).trip.place]
  <2>1. e.of = Head(mainQ[d]).of /\ engaged'[d] = engaged[d] \cup {e}
    BY <1>0, <1>6 DEF DidAcceptTrip
  <2>. HIDE DEF e
  <2>. QED
    BY <1>0, <1>6, <2>1 DEF DidAcceptTrip, RunBlock, DriverRuns
<1>7. CASE TripsEvent(d)
  <2>1. PICK p \in Passengers : ChildAdded(d, p) \/ ChildChanged(d, p)
    BY <1>7 DEF TripsEvent
  <2>2. CASE ChildAdded(d, p)
    <3>. DEFINE q == [i \in 1 .. regs[d] |-> Event(p, trips[p])]
    <3>1. Event(p, trips[p]) \in Block
      BY <1>0, RecordTypes
    <3>2. q \in Seq(Block) /\ DOMAIN q = 1 .. regs[d]
      BY <1>0, <3>1, SameEvents
    <3>3. \A i \in DOMAIN q : q[i].kind = "event"
      BY <3>2 DEF Event
    <3>4. mainQ'[d] = mainQ[d] \o q
      BY <1>0, <2>2 DEF ChildAdded
    <3>. HIDE DEF q
    <3>. QED
      BY <1>7, <2>2, <3>2, <3>3, <3>4
      DEF TripsEvent, ChildAdded, uiVars, driverVars, DriverHears
  <2>3. CASE ChildChanged(d, p)
    BY <1>7, <2>3 DEF TripsEvent, ChildChanged, uiVars, driverVars, DriverIdle
  <2>. QED
    BY <2>1, <2>2, <2>3
<1>8. CASE RestartDriver(d)
  BY <1>0, <1>8 DEF RestartDriver, Restart, ConnectionLost, DriverRestarts
<1>. QED
  BY <1>2, <1>3, <1>4, <1>5, <1>6, <1>7, <1>8 DEF DriverStep

\* The steps of anybody.
LEMMA AnyMoves ==
    ASSUME TypeInv, OffersReal, [Next]_vars, NEW d \in Drivers
    PROVE  DriverMoves(d)
<1>0. /\ d \in Clients /\ d \notin Passengers
      /\ outbox \in [Clients -> Seq(Put)] /\ mainQ \in [Clients -> Seq(Block)]
      /\ sent \in [Clients -> Nat] /\ engaged \in [Drivers -> SUBSET Engagement]
      /\ restarted \in [Clients -> BOOLEAN]
  BY ClientsAssumption DEF TypeInv, UITypeOK, DBInv, DBTypeOK, Clients
<1>1. ASSUME NEW p \in Passengers, RiderStep(p) PROVE DriverMoves(d)
  <2>0. p # d /\ p \in Clients
    BY <1>0 DEF Clients
  <2>. USE <1>0, <2>0 DEF DriverMoves, DriverIdle, history, driverVars, dbVars
  <2>1. CASE ObserveCurrentTrip(p)
    BY <2>1 DEF ObserveCurrentTrip, ObserveValue
  <2>2. CASE DidSelectRow(p) \/ ActionButtonPressed(p)
    BY <2>2 DEF DidSelectRow, ActionButtonPressed
  <2>3. CASE \E place \in Places : OnRide(p, place)
    BY <2>3 DEF OnRide, UpdateChildValues
  <2>4. CASE HandleValue(p) \/ HandleUploadDone(p)
    BY <2>4 DEF HandleValue, HandleUploadDone, RunBlock
  <2>5. CASE RestartRider(p)
    BY <2>5 DEF RestartRider, Restart, ConnectionLost
  <2>. QED
    BY <1>1, <2>1, <2>2, <2>3, <2>4, <2>5 DEF RiderStep
<1>2. ASSUME NEW x \in Drivers, DriverStep(x), x # d PROVE DriverMoves(d)
  <2>0. x \in Clients
    BY DEF Clients
  <2>. USE <1>0, <1>2, <2>0 DEF DriverMoves, DriverIdle, history, driverVars, dbVars
  <2>1. CASE ObserveTrips(x)
    BY <2>1 DEF ObserveTrips, ObserveChildAdded
  <2>2. CASE HandleChildAdded(x) \/ DidAcceptTrip(x)
    BY <2>2 DEF HandleChildAdded, DidAcceptTrip, RunBlock
  <2>3. CASE HandleAcceptTrip(x)
    BY <2>3 DEF HandleAcceptTrip, UpdateChildValues
  <2>4. CASE HandleDismissal(x) \/ DismissDone(x)
    BY <2>4 DEF HandleDismissal, DismissDone
  <2>5. CASE TripsEvent(x)
    BY <2>5 DEF TripsEvent, ChildAdded, ChildChanged, uiVars
  <2>6. CASE RestartDriver(x)
    BY <2>6 DEF RestartDriver, Restart, ConnectionLost
  <2>. QED
    BY <1>2, <2>1, <2>2, <2>3, <2>4, <2>5, <2>6 DEF DriverStep
<1>3. ASSUME NEW c \in Clients, SystemStep(c) PROVE DriverMoves(d)
  <2>1. CASE SetupAgain(c)
    BY <2>1 DEF SetupAgain, DriverMoves, DriverIdle, history, driverVars, dbVars
  <2>2. CASE Library(c)
    <3>. /\ engaged' = engaged /\ granted' = granted /\ restarted' = restarted
      BY <2>2 DEF Library, uiVars, driverVars, history
    <3>1. CASE c = d /\ Deliver(d)
      BY <3>1, DeliverAnswers DEF DriverMoves
    <3>2. CASE c # d \/ ~Deliver(c)
      BY <1>0, <2>2, <3>2
      DEF Library, Deliver, Reconnect, Disconnect, ConnectionLost, DriverMoves, DriverIdle
    <3>. QED
      BY <3>1, <3>2
  <2>3. CASE Grant(c)
    <3>. /\ engaged' = engaged /\ restarted' = restarted /\ outbox' = outbox /\ mainQ' = mainQ
      BY <2>3 DEF Grant, ServerApply, uiVars, driverVars
    <3>1. /\ sent' = [sent EXCEPT ![c] = sent[c] + 1]
          /\ sent[c] < Len(outbox[c])
          /\ granted' = IF c \in Drivers THEN granted \cup {<<c, NextPut(c).write.path>>}
                                         ELSE granted
      BY <2>3 DEF Grant, ServerApply, Processed
    <3>2. CASE c = d
      BY <1>0, <3>1, <3>2 DEF NextPut, DriverMoves, DriverServed
    <3>3. CASE c # d
      BY <1>0, <3>1, <3>3 DEF DriverMoves, DriverIdle
    <3>. QED
      BY <3>2, <3>3
  <2>4. CASE Refuse(c)
    <3>. /\ engaged' = engaged /\ restarted' = restarted /\ outbox' = outbox /\ mainQ' = mainQ
         /\ granted' = granted
      BY <2>4 DEF Refuse, ServerReject, uiVars, driverVars, history
    <3>1. /\ sent' = [sent EXCEPT ![c] = sent[c] + 1]
          /\ sent[c] < Len(outbox[c]) /\ c \in Denied
      BY <2>4 DEF Refuse, ServerReject, Processed
    <3>2. CASE c = d
      BY <1>0, <3>1, <3>2 DEF DriverMoves, DriverServed
    <3>3. CASE c # d
      BY <1>0, <3>1, <3>3 DEF DriverMoves, DriverIdle
    <3>. QED
      BY <3>2, <3>3
  <2>. QED
    BY <1>3, <2>1, <2>2, <2>3, <2>4 DEF SystemStep
<1>4. CASE UNCHANGED vars
  BY <1>4 DEF vars, dbVars, driverVars, history, DriverMoves, DriverIdle
<1>. QED
  BY <1>1, <1>2, <1>3, <1>4, OwnMoves DEF Next

-----------------------------------------------------------------------------
(* Engagements.  handleAcceptTrip's completion block ignores its error, so *)
(* that a driver is sent off on whatever answer comes.  For a driver whose *)
(* writes the rules admit, a put that counts as processed was applied, and *)
(* only such puts are answered.                                            *)

GrantHeld(d) ==
    /\ \A i \in 1 .. sent[d] : <<d, outbox[d][i].write.path>> \in granted
    /\ \A i \in DOMAIN mainQ[d] : mainQ[d][i].kind = "done" => <<d, mainQ[d][i].of>> \in granted
    /\ \A e \in engaged[d] : <<d, e.of>> \in granted

GrantsHeld == \A d \in Drivers \ Denied : GrantHeld(d)

\* Blocks before and after the main queue grows or its head is run.
LEMMA QueueGrows ==
    ASSUME NEW q \in Seq(Block), NEW s \in Seq(Block), NEW i \in DOMAIN (q \o s)
    PROVE  \/ i \in DOMAIN q /\ (q \o s)[i] = q[i]
           \/ \E j \in DOMAIN s : (q \o s)[i] = s[j]
BY ConcatProperties, LenProperties

LEMMA QueueAppends ==
    ASSUME NEW S, NEW q \in Seq(S), NEW b \in S
    PROVE  /\ \A i \in DOMAIN Append(q, b) :
                 \/ i \in DOMAIN q /\ Append(q, b)[i] = q[i]
                 \/ i = Len(q) + 1 /\ Append(q, b)[i] = b
           /\ \A i \in DOMAIN q : i \in DOMAIN Append(q, b) /\ Append(q, b)[i] = q[i]
           /\ Len(q) + 1 \in DOMAIN Append(q, b) /\ Append(q, b)[Len(q) + 1] = b
<1>1. /\ Append(q, b) \in Seq(S)
      /\ Len(Append(q, b)) = Len(q) + 1
      /\ \A i \in 1 .. Len(q) : Append(q, b)[i] = q[i]
      /\ Append(q, b)[Len(q) + 1] = b
  BY AppendProperties
<1>2. /\ DOMAIN q = 1 .. Len(q) /\ Len(q) \in Nat
      /\ DOMAIN Append(q, b) = 1 .. (Len(q) + 1)
  BY <1>1, LenProperties
<1>. QED
  BY <1>1, <1>2

LEMMA QueueRuns ==
    ASSUME NEW S, NEW q \in Seq(S), q # <<>>
    PROVE  /\ 1 \in DOMAIN q /\ Head(q) = q[1]
           /\ Len(Tail(q)) = Len(q) - 1
           /\ \A i \in DOMAIN Tail(q) : i + 1 \in DOMAIN q /\ Tail(q)[i] = q[i + 1]
           /\ \A i \in DOMAIN q : i = 1 \/ (i - 1 \in DOMAIN Tail(q) /\ Tail(q)[i - 1] = q[i])
<1>1. /\ Tail(q) \in Seq(S)
      /\ Len(Tail(q)) = Len(q) - 1
      /\ \A i \in 1 .. Len(Tail(q)) : Tail(q)[i] = q[i + 1]
  BY HeadTailProperties
<1>2. /\ DOMAIN q = 1 .. Len(q) /\ Len(q) \in Nat \ {0}
      /\ DOMAIN Tail(q) = 1 .. (Len(q) - 1)
  BY <1>1, LenProperties, EmptySeq
<1>3. Head(q) = q[1]
  BY <1>2
<1>4. \A i \in DOMAIN q : i = 1 \/ (i - 1 \in DOMAIN Tail(q) /\ (i - 1) + 1 = i)
  BY <1>2
<1>. QED
  BY <1>1, <1>2, <1>3, <1>4

LEMMA GrantHeldKept ==
    ASSUME TypeInv, NEW d \in Drivers, d \notin Denied, GrantHeld(d), DriverMoves(d)
    PROVE  GrantHeld(d)'
<1>. DEFINE Fine(b) == b.kind = "done" => <<d, b.of>> \in granted'
            Given(put) == <<d, put.write.path>> \in granted'
<1>0. /\ d \in Clients /\ outbox[d] \in Seq(Put) /\ mainQ[d] \in Seq(Block) /\ sent[d] \in Nat
      /\ sent[d] <= Len(outbox[d]) /\ Len(outbox[d]) \in Nat /\ DOMAIN outbox[d] = 1 .. Len(outbox[d])
  BY LenProperties DEF TypeInv, DBInv, DBTypeOK, AnswersMatchPuts, Clients, DriverMoves
<1>a. /\ \A i \in 1 .. sent[d] : Given(outbox[d][i])
      /\ \A i \in DOMAIN mainQ[d] : Fine(mainQ[d][i])
      /\ \A e \in engaged[d] : <<d, e.of>> \in granted'
  BY DEF GrantHeld, DriverMoves
<1>. SUFFICES /\ \A i \in 1 .. sent'[d] : Given(outbox'[d][i])
              /\ \A i \in DOMAIN mainQ'[d] : Fine(mainQ'[d][i])
              /\ \A e \in engaged'[d] : <<d, e.of>> \in granted'
  BY DEF GrantHeld
<1>1. CASE DriverIdle(d)
  BY <1>0, <1>1, <1>a DEF DriverIdle
<1>2. CASE DriverHears(d)
  <2>1. PICK s \in Seq(Block) : /\ mainQ'[d] = mainQ[d] \o s
                                /\ \A i \in DOMAIN s : s[i].kind = "event"
    BY <1>2 DEF DriverHears
  <2>2. \A i \in DOMAIN s : Fine(s[i])
    BY <2>1
  <2>. HIDE DEF Fine, Given
  <2>3. \A i \in DOMAIN mainQ'[d] : Fine(mainQ'[d][i])
    BY <1>0, <1>a, <2>1, <2>2, QueueGrows
  <2>. QED
    BY <1>0, <1>2, <1>a, <2>3 DEF DriverHears
<1>3. CASE DriverRuns(d)
  <2>. HIDE DEF Fine, Given
  <2>1. \A i \in DOMAIN mainQ'[d] : Fine(mainQ'[d][i])
    BY <1>0, <1>3, <1>a, QueueRuns DEF DriverRuns
  <2>2. Fine(Head(mainQ[d]))
    BY <1>0, <1>3, <1>a, QueueRuns DEF DriverRuns
  <2>3. \A e \in engaged'[d] : <<d, e.of>> \in granted'
    BY <1>3, <1>a, <2>2 DEF DriverRuns, Fine
  <2>. QED
    BY <1>0, <1>3, <1>a, <2>1, <2>3 DEF DriverRuns
<1>4. CASE DriverAccepts(d)
  <2>1. PICK put \in Put : outbox'[d] = Append(outbox[d], put)
    BY <1>4 DEF DriverAccepts
  <2>2. \A i \in 1 .. sent[d] : outbox'[d][i] = outbox[d][i]
    BY <1>0, <2>1, AppendProperties
  <2>. HIDE DEF Fine, Given
  <2>. QED
    BY <1>0, <1>4, <1>a, <2>2 DEF DriverAccepts
<1>5. CASE DriverRestarts(d)
  BY <1>5 DEF DriverRestarts
<1>6. CASE DriverAnswered(d)
  <2>1. PICK ok \in BOOLEAN : mainQ'[d] = Append(mainQ[d], Done(Head(outbox[d]), ok))
    BY <1>6 DEF DriverAnswered
  <2>2. /\ Head(outbox[d]) = outbox[d][1] /\ Head(outbox[d]) \in Put
        /\ \A i \in 1 .. (Len(outbox[d]) - 1) : outbox'[d][i] = outbox[d][i + 1]
    BY <1>0, <1>6, HeadTailProperties DEF DriverAnswered
  <2>4. Given(Head(outbox[d])) /\ Fine(Done(Head(outbox[d]), ok))
    BY <1>0, <1>6, <1>a, <2>2 DEF DriverAnswered, Done
  <2>5. Done(Head(outbox[d]), ok) \in Block
    BY <2>2, RecordTypes
  <2>. HIDE DEF Fine, Given
  <2>6. \A i \in 1 .. sent'[d] : Given(outbox'[d][i])
    <3>1. \A i \in 1 .. (sent[d] - 1) : i \in 1 .. (Len(outbox[d]) - 1) /\ i + 1 \in 1 .. sent[d]
      BY <1>0
    <3>. QED
      BY <1>0, <1>6, <1>a, <2>2, <3>1 DEF DriverAnswered
  <2>7. \A i \in DOMAIN mainQ'[d] : Fine(mainQ'[d][i])
    BY <1>0, <1>a, <2>1, <2>4, <2>5, QueueAppends
  <2>. QED
    BY <1>6, <1>a, <2>6, <2>7 DEF DriverAnswered
<1>7. CASE DriverServed(d)
  <2>1. Given(outbox[d][sent[d] + 1])
    BY <1>7 DEF DriverServed
  <2>2. \A i \in 1 .. (sent[d] + 1) : i \in 1 .. sent[d] \/ i = sent[d] + 1
    BY <1>0
  <2>. HIDE DEF Fine, Given
  <2>. QED
    BY <1>7, <1>a, <2>1, <2>2 DEF DriverServed
<1>. QED
  BY <1>1, <1>2, <1>3, <1>4, <1>5, <1>6, <1>7 DEF DriverMoves

\* A driver whose writes the server never refuses is sent off to a passenger
\* only after the server recorded that acceptance, for any number of drivers,
\* retransmissions and restarts.
THEOREM EngagedAfterGrant == Spec => []EngagedOnlyAfterGrant
<1>1. Init => GrantsHeld
  BY DEF Init, DBInit, GrantsHeld, GrantHeld, Clients
<1>2. TypeInv /\ OffersReal /\ GrantsHeld /\ [Next]_vars => GrantsHeld'
  BY AnyMoves, GrantHeldKept DEF GrantsHeld
<1>3. GrantsHeld => EngagedOnlyAfterGrant
  BY DEF GrantsHeld, GrantHeld, EngagedOnlyAfterGrant
<1>. QED
  BY <1>1, <1>2, <1>3, SpecType, SpecOffers, PTL DEF Spec

-----------------------------------------------------------------------------
(* The driver a record names.                                              *)

\* Driver d still has something to do with passenger p's trip.
Holds(d, p) ==
    \/ restarted[d]
    \/ \E e \in engaged[d] : e.of = p
    \/ \E i \in DOMAIN outbox[d] : outbox[d][i].write.path = p
    \/ \E i \in DOMAIN mainQ[d] : mainQ[d][i].kind = "done" /\ mainQ[d][i].of = p

LEMMA HoldsKept ==
    ASSUME TypeInv, NEW d \in Drivers, NEW p, Holds(d, p), DriverMoves(d)
    PROVE  Holds(d, p)'
<1>0. /\ d \in Clients /\ outbox[d] \in Seq(Put) /\ mainQ[d] \in Seq(Block)
      /\ restarted[d] => restarted'[d]
  BY DEF TypeInv, DBInv, DBTypeOK, Clients, DriverMoves
<1>1. CASE DriverIdle(d) \/ DriverServed(d)
  BY <1>0, <1>1 DEF DriverIdle, DriverServed, Holds
<1>2. CASE DriverHears(d)
  <2>1. PICK s \in Seq(Block) : mainQ'[d] = mainQ[d] \o s
    BY <1>2 DEF DriverHears
  <2>2. \A i \in DOMAIN mainQ[d] : i \in DOMAIN mainQ'[d] /\ mainQ'[d][i] = mainQ[d][i]
    BY <1>0, <2>1, ConcatProperties, LenProperties
  <2>. QED
    BY <1>0, <1>2, <2>2 DEF DriverHears, Holds
<1>3. CASE DriverRuns(d)
  <2>1. \A i \in DOMAIN mainQ[d] : \/ mainQ[d][i] = Head(mainQ[d])
                                   \/ \E j \in DOMAIN mainQ'[d] : mainQ'[d][j] = mainQ[d][i]
    BY <1>0, <1>3, QueueRuns DEF DriverRuns
  <2>. QED
    BY <1>0, <1>3, <2>1 DEF DriverRuns, Holds
<1>4. CASE DriverAccepts(d)
  <2>1. \A i \in DOMAIN outbox[d] : i \in DOMAIN outbox'[d] /\ outbox'[d][i] = outbox[d][i]
    BY <1>0, <1>4, QueueAppends DEF DriverAccepts
  <2>. QED
    BY <1>0, <1>4, <2>1 DEF DriverAccepts, Holds
<1>5. CASE DriverRestarts(d)
  BY <1>5 DEF DriverRestarts, Holds
<1>6. CASE DriverAnswered(d)
  <2>1. PICK ok \in BOOLEAN : mainQ'[d] = Append(mainQ[d], Done(Head(outbox[d]), ok))
    BY <1>6 DEF DriverAnswered
  <2>2. \A i \in DOMAIN outbox[d] : \/ outbox[d][i] = Head(outbox[d])
                                    \/ \E j \in DOMAIN outbox'[d] : outbox'[d][j] = outbox[d][i]
    BY <1>0, <1>6, QueueRuns DEF DriverAnswered
  <2>3. Head(outbox[d]) \in Put
    BY <1>0, <1>6, HeadTailProperties DEF DriverAnswered
  <2>4. Done(Head(outbox[d]), ok) \in Block
    BY <2>3, RecordTypes
  <2>5. /\ \A i \in DOMAIN mainQ[d] : i \in DOMAIN mainQ'[d] /\ mainQ'[d][i] = mainQ[d][i]
        /\ \E i \in DOMAIN mainQ'[d] : mainQ'[d][i] = Done(Head(outbox[d]), ok)
    BY <1>0, <2>1, <2>4, QueueAppends
  <2>6. /\ Done(Head(outbox[d]), ok).kind = "done"
        /\ Done(Head(outbox[d]), ok).of = Head(outbox[d]).write.path
    BY DEF Done
  <2>. QED
    BY <1>0, <1>6, <2>2, <2>5, <2>6 DEF DriverAnswered, Holds
<1>. QED
  BY <1>1, <1>2, <1>3, <1>4, <1>5, <1>6 DEF DriverMoves

\* Only the server's application of a put changes a record.
LEMMA TripsMove ==
    ASSUME [Next]_vars, trips' # trips
    PROVE  \E c \in Clients : Grant(c)
<1>1. \A p \in Passengers : ~RiderStep(p)
  BY DEF RiderStep, ObserveCurrentTrip, ObserveValue, DidSelectRow, ActionButtonPressed,
         OnRide, UpdateChildValues, HandleValue, HandleUploadDone, RunBlock,
         RestartRider, Restart, dbVars
<1>2. \A d \in Drivers : ~DriverStep(d)
  BY DEF DriverStep, ObserveTrips, ObserveChildAdded, HandleChildAdded, HandleAcceptTrip,
         UpdateChildValues, HandleDismissal, DidAcceptTrip, DismissDone, RunBlock,
         TripsEvent, ChildAdded, ChildChanged, RestartDriver, Restart, dbVars
<1>3. \A c \in Clients : ~SetupAgain(c) /\ ~Library(c) /\ ~Refuse(c)
  BY DEF SetupAgain, Library, Deliver, Reconnect, Disconnect, Refuse, ServerReject, dbVars
<1>. QED
  BY <1>1, <1>2, <1>3 DEF Next, SystemStep, vars, dbVars

\* Whatever is lost or sent twice, the driver named in an accepted record
\* knows of it or is about to, unless its process died.
THEOREM AssignmentsAreKnown == Spec => []AssignedDriverKnows
<1>1. Init => AssignedDriverKnows
  BY DEF Init, DBInit, AssignedDriverKnows, NoTrip
<1>2. TypeInv /\ OffersReal /\ AssignedDriverKnows /\ [Next]_vars => AssignedDriverKnows'
  <2>. SUFFICES ASSUME TypeInv, OffersReal, AssignedDriverKnows, [Next]_vars,
                       NEW p \in Passengers, NEW d \in Drivers,
                       trips'[p].state = "accepted", trips'[p].driver = d
                PROVE  Holds(d, p)'
    BY DEF AssignedDriverKnows, Holds
  <2>1. CASE trips'[p] = trips[p]
    BY <2>1, AnyMoves, HoldsKept DEF AssignedDriverKnows, Holds
  <2>2. CASE trips'[p] # trips[p]
    <3>1. PICK c \in Clients : Grant(c)
      BY <2>2, TripsMove
    <3>2. PICK q \in Passengers :
             /\ q = NextPut(c).write.path
             /\ \/ /\ c = q
                   /\ \E place \in Places :
                        trips' = [trips EXCEPT ![q] =
                                    [place |-> place, state |-> "requested", driver |-> trips[q].driver]]
                \/ /\ c \in Drivers /\ q \in Listed
                   /\ trips' = [trips EXCEPT ![q] =
                                  [place |-> trips[q].place, state |-> "accepted", driver |-> c]]
      BY <3>1, GrantEffect
    <3>3. trips \in [Passengers -> Trip]
      BY DEF TypeInv, DBInv, DBTypeOK
    <3>4. q = p
      BY <2>2, <3>2, <3>3
    <3>7. c = d
      BY <3>2, <3>3, <3>4
    <3>5. /\ outbox' = outbox /\ sent[c] < Len(outbox[c])
          /\ sent[c] \in Nat /\ outbox[c] \in Seq(Put)
      BY <3>1 DEF Grant, ServerApply, TypeInv, DBInv, DBTypeOK
    <3>6. sent[c] + 1 \in DOMAIN outbox[c]
      BY <3>5, LenProperties
    <3>. QED
      BY <3>2, <3>4, <3>5, <3>6, <3>7 DEF NextPut, Holds
  <2>. QED
    BY <2>1, <2>2
<1>. QED
  BY <1>1, <1>2, SpecType, SpecOffers, PTL DEF Spec

-----------------------------------------------------------------------------
(* What any step does to one rider: its record, its library, its screens.  *)

ScreenStill(p) ==
    /\ trip'[p] = trip[p] /\ loading'[p] = loading[p] /\ hasDest'[p] = hasDest[p]
    /\ uploadFailed'[p] = uploadFailed[p] /\ taps'[p] = taps[p]

LinkStill(p) == online'[p] = online[p] /\ regs'[p] = regs[p] /\ drops'[p] = drops[p]

PutsStill(p) == outbox'[p] = outbox[p] /\ sent'[p] = sent[p]

RiderIdle(p) ==
    /\ LinkStill(p) /\ PutsStill(p) /\ trips'[p] = trips[p]
    /\ inbox'[p] = inbox[p] /\ cache'[p] = cache[p] /\ mainQ'[p] = mainQ[p]
    /\ trip'[p] = trip[p] /\ uploadFailed'[p] = uploadFailed[p] /\ taps'[p] = taps[p]
    /\ loading'[p] => loading[p]
    /\ hasDest'[p] => hasDest[p] \/ regs[p] > 0

RiderObserves(p) ==
    /\ PutsStill(p) /\ ScreenStill(p) /\ trips'[p] = trips[p] /\ cache'[p] = cache[p]
    /\ online'[p] = online[p] /\ drops'[p] = drops[p]
    /\ regs'[p] = regs[p] + 1
    /\ inbox'[p] = IF online[p] /\ regs[p] = 0
                   THEN Append(inbox[p], [ack |-> "none", data |-> trips[p]])
                   ELSE inbox[p]
    /\ mainQ'[p] = IF cache[p] # Unknown
                   THEN Append(mainQ[p], Event(p, View(cache[p], outbox[p])))
                   ELSE mainQ[p]

RiderRides(p) ==
    /\ LinkStill(p) /\ trips'[p] = trips[p] /\ inbox'[p] = inbox[p] /\ cache'[p] = cache[p]
    /\ sent'[p] = sent[p] /\ trip'[p] = trip[p] /\ hasDest'[p] = hasDest[p]
    /\ hasDest[p] /\ loading'[p] /\ ~uploadFailed'[p] /\ taps'[p] = taps[p] + 1
    /\ \E put \in RequestPut(p) :
         /\ outbox'[p] = Append(outbox[p], put)
         /\ mainQ'[p] = RaiseValue(mainQ[p], p, View(cache[p], outbox[p]),
                                   View(cache[p], Append(outbox[p], put)))

\* What running the oldest block leaves alone.
BlockRun(p) ==
    /\ LinkStill(p) /\ PutsStill(p) /\ trips'[p] = trips[p]
    /\ inbox'[p] = inbox[p] /\ cache'[p] = cache[p]
    /\ mainQ[p] # <<>> /\ mainQ'[p] = Tail(mainQ[p])
    /\ hasDest'[p] = hasDest[p] /\ taps'[p] = taps[p]

RiderHandlesValue(p) ==
    /\ BlockRun(p) /\ uploadFailed'[p] = uploadFailed[p]
    /\ Head(mainQ[p]).kind = "event"
    /\ LET t == Head(mainQ[p]).trip
       IN  /\ trip'[p] = IF t = NoTrip THEN trip[p] ELSE t
           /\ loading'[p] = IF t.state = "accepted" THEN FALSE ELSE loading[p]

RiderHandlesDone(p) ==
    /\ BlockRun(p) /\ trip'[p] = trip[p] /\ loading'[p] = loading[p]
    /\ Head(mainQ[p]).kind = "done"
    /\ uploadFailed'[p] = IF Head(mainQ[p]).ok THEN uploadFailed[p] ELSE TRUE

RiderRestarts(p) ==
    /\ trips'[p] = trips[p] /\ drops'[p] = drops[p] + 1
    /\ ~online'[p] /\ regs'[p] = 0 /\ outbox'[p] = <<>> /\ sent'[p] = 0
    /\ inbox'[p] = <<>> /\ cache'[p] = Unknown /\ mainQ'[p] = <<>>
    /\ trip'[p] = NoTrip /\ ~loading'[p] /\ ~hasDest'[p] /\ ~uploadFailed'[p]

RiderInformed(p) ==
    /\ LinkStill(p) /\ ScreenStill(p) /\ trips'[p] = trips[p]
    /\ online[p] /\ inbox[p] # <<>> /\ inbox'[p] = Tail(inbox[p])
    /\ cache'[p] = Head(inbox[p]).data
    /\ LET m == Head(inbox[p])
           after == View(m.data, outbox'[p])
           queue == RaiseValue(mainQ[p], p, View(cache[p], outbox[p]), after)
       IN  \/ /\ m.ack = "none" /\ PutsStill(p)
              /\ mainQ'[p] = queue
           \/ /\ m.ack # "none" /\ outbox[p] # <<>> /\ sent[p] > 0
              /\ outbox'[p] = Tail(outbox[p]) /\ sent'[p] = sent[p] - 1
              /\ mainQ'[p] = Append(queue, Done(Head(outbox[p]), m.ack = "ok"))

RiderCutOff(p) ==
    /\ ScreenStill(p) /\ trips'[p] = trips[p] /\ cache'[p] = cache[p] /\ mainQ'[p] = mainQ[p]
    /\ regs'[p] = regs[p] /\ outbox'[p] = outbox[p] /\ drops'[p] = drops[p] + 1
    /\ ~online'[p] /\ sent'[p] = 0 /\ inbox'[p] = <<>>

RiderReconnects(p) ==
    /\ ScreenStill(p) /\ PutsStill(p) /\ trips'[p] = trips[p]
    /\ cache'[p] = cache[p] /\ mainQ'[p] = mainQ[p]
    /\ regs'[p] = regs[p] /\ drops'[p] = drops[p]
    /\ ~online[p] /\ online'[p]
    /\ inbox'[p] = IF regs[p] > 0
                   THEN Append(inbox[p], [ack |-> "none", data |-> trips[p]])
                   ELSE inbox[p]

\* The server's answer to the rider's own put.
RiderServed(p) ==
    /\ ScreenStill(p) /\ LinkStill(p) /\ cache'[p] = cache[p] /\ mainQ'[p] = mainQ[p]
    /\ outbox'[p] = outbox[p] /\ sent[p] < Len(outbox[p]) /\ sent'[p] = sent[p] + 1
    /\ \/ /\ \E place \in Places :
               trips'[p] = [place |-> place, state |-> "requested", driver |-> trips[p].driver]
          /\ inbox'[p] = Append(inbox[p], [ack |-> "ok", data |-> trips'[p]])
       \/ /\ trips'[p] = trips[p]
          /\ inbox'[p] = Append(inbox[p], [ack |-> "err", data |-> trips[p]])

\* A driver's acceptance is applied to the rider's record.
RiderTaken(p) ==
    /\ ScreenStill(p) /\ LinkStill(p) /\ PutsStill(p)
    /\ cache'[p] = cache[p] /\ mainQ'[p] = mainQ[p]
    /\ trips[p] # NoTrip
    /\ \E d \in Drivers :
         trips'[p] = [place |-> trips[p].place, state |-> "accepted", driver |-> d]
    /\ inbox'[p] = IF online[p] /\ regs[p] > 0 /\ trips'[p] # trips[p]
                   THEN Append(inbox[p], [ack |-> "none", data |-> trips'[p]])
                   ELSE inbox[p]

RiderMoves(p) ==
    \/ RiderIdle(p) \/ RiderObserves(p) \/ RiderRides(p)
    \/ RiderHandlesValue(p) \/ RiderHandlesDone(p) \/ RiderRestarts(p)
    \/ RiderInformed(p) \/ RiderCutOff(p) \/ RiderReconnects(p)
    \/ RiderServed(p) \/ RiderTaken(p)

\* The state of one rider, as the steps below use its types.
LEMMA RiderTypes ==
    ASSUME TypeInv, NEW p \in Passengers
    PROVE  /\ p \in Clients /\ p \notin Drivers
           /\ trips \in [Passengers -> Trip] /\ online \in [Clients -> BOOLEAN]
           /\ regs \in [Clients -> Nat] /\ outbox \in [Clients -> Seq(Put)]
           /\ sent \in [Clients -> Nat] /\ inbox \in [Clients -> Seq(Message)]
           /\ cache \in [Clients -> Trip] /\ mainQ \in [Clients -> Seq(Block)]
           /\ drops \in [Clients -> Nat]
           /\ trip \in [Passengers -> Trip] /\ loading \in [Passengers -> BOOLEAN]
           /\ hasDest \in [Passengers -> BOOLEAN] /\ uploadFailed \in [Passengers -> BOOLEAN]
           /\ taps \in [Clients -> Nat]
<1>1. drops \in [Clients -> Nat]
  BY DropsAssumption DEF TypeInv, DBInv, DBTypeOK
<1>. QED
  BY <1>1, ClientsAssumption DEF TypeInv, UITypeOK, DBInv, DBTypeOK, Clients

\* The steps of rider p itself.
LEMMA OwnRiderMoves ==
    ASSUME TypeInv, NEW p \in Passengers, RiderStep(p)
    PROVE  RiderMoves(p)
<1>. USE RiderTypes DEF ScreenStill, LinkStill, PutsStill, riderVars, dbVars
<1>1. CASE ObserveCurrentTrip(p)
  <2>1. RiderObserves(p)
    BY <1>1 DEF ObserveCurrentTrip, ObserveValue, RiderObserves
  <2>. QED
    BY <2>1 DEF RiderMoves
<1>2. CASE DidSelectRow(p)
  <2>1. RiderIdle(p)
    BY <1>2 DEF DidSelectRow, RiderIdle
  <2>. QED
    BY <2>1 DEF RiderMoves
<1>3. CASE ActionButtonPressed(p)
  <2>1. RiderIdle(p)
    BY <1>3 DEF ActionButtonPressed, RiderIdle
  <2>. QED
    BY <2>1 DEF RiderMoves
<1>4. CASE \E place \in Places : OnRide(p, place)
  <2>1. PICK place \in Places : OnRide(p, place)
    BY <1>4
  <2>2. UploadTrip(p, place) \in RequestPut(p)
    BY RecordTypes DEF UploadTrip, RequestPut, Put, Write, TripState
  <2>3. /\ outbox'[p] = Append(outbox[p], UploadTrip(p, place))
        /\ mainQ'[p] = RaiseValue(mainQ[p], p, View(cache[p], outbox[p]),
                                  View(cache[p], Append(outbox[p], UploadTrip(p, place))))
    BY <2>1 DEF OnRide, UpdateChildValues
  <2>4. /\ LinkStill(p) /\ trips'[p] = trips[p] /\ inbox'[p] = inbox[p] /\ cache'[p] = cache[p]
        /\ sent'[p] = sent[p] /\ trip'[p] = trip[p] /\ hasDest'[p] = hasDest[p]
        /\ hasDest[p] /\ loading'[p] /\ ~uploadFailed'[p] /\ taps'[p] = taps[p] + 1
    BY <2>1 DEF OnRide, UpdateChildValues, ShouldPresentLoadingView
  <2>5. RiderRides(p)
    BY <2>2, <2>3, <2>4 DEF RiderRides
  <2>. QED
    BY <2>5 DEF RiderMoves
<1>5. CASE HandleValue(p)
  <2>1. BlockRun(p) /\ uploadFailed'[p] = uploadFailed[p] /\ Head(mainQ[p]).kind = "event"
    BY <1>5 DEF HandleValue, RunBlock, BlockRun
  <2>2. trip'[p] = IF Head(mainQ[p]).trip = NoTrip THEN trip[p] ELSE Head(mainQ[p]).trip
    BY <1>5 DEF HandleValue
  <2>3. loading'[p] = IF Head(mainQ[p]).trip.state = "accepted" THEN FALSE ELSE loading[p]
    BY <1>5 DEF HandleValue, ShouldPresentLoadingView
  <2>4. RiderHandlesValue(p)
    BY <2>1, <2>2, <2>3 DEF RiderHandlesValue
  <2>. QED
    BY <2>4 DEF RiderMoves
<1>6. CASE HandleUploadDone(p)
  <2>1. RiderHandlesDone(p)
    BY <1>6 DEF HandleUploadDone, RunBlock, BlockRun, RiderHandlesDone
  <2>. QED
    BY <2>1 DEF RiderMoves
<1>7. CASE RestartRider(p)
  <2>1. RiderRestarts(p)
    BY <1>7 DEF RestartRider, Restart, ConnectionLost, RiderRestarts
  <2>. QED
    BY <2>1 DEF RiderMoves
<1>. QED
  BY <1>1, <1>2, <1>3, <1>4, <1>5, <1>6, <1>7 DEF RiderStep

\* A message for rider p.
LEMMA RiderDeliver ==
    ASSUME TypeInv, NEW p \in Passengers, Deliver(p), ScreenStill(p)
    PROVE  RiderInformed(p)
<1>. DEFINE m == Head(inbox[p])
            puts == IF m.ack # "none" THEN Tail(outbox[p]) ELSE outbox[p]
            queue == RaiseValue(mainQ[p], p, View(cache[p], outbox[p]), View(m.data, puts))
<1>1. /\ online[p] /\ inbox[p] # <<>> /\ inbox'[p] = Tail(inbox[p]) /\ cache'[p] = m.data
      /\ outbox'[p] = puts
      /\ sent'[p] = IF m.ack # "none" THEN sent[p] - 1 ELSE sent[p]
      /\ mainQ'[p] = IF m.ack # "none"
                     THEN Append(queue, Done(Head(outbox[p]), m.ack = "ok"))
                     ELSE queue
      /\ LinkStill(p) /\ trips'[p] = trips[p]
  BY RiderTypes DEF Deliver, LinkStill
<1>2. ASSUME m.ack # "none" PROVE outbox[p] # <<>> /\ sent[p] > 0
  <2>1. p \in Clients /\ sent[p] \in Nat
    BY RiderTypes
  <2>2. outbox[p] # <<>>
    BY <1>2, <2>1, AnsweredPut DEF TypeInv
  <2>3. sent' \in [Clients -> Nat]
    BY <2>1, DeliverInv DEF TypeInv, DBInv, DBTypeOK
  <2>. QED
    BY <1>1, <1>2, <2>1, <2>2, <2>3
<1>3. CASE m.ack = "none"
  BY <1>1, <1>3 DEF RiderInformed, PutsStill
<1>4. CASE m.ack # "none"
  BY <1>1, <1>2, <1>4 DEF RiderInformed
<1>. QED
  BY <1>3, <1>4

\* The server applies a put: the rider's own, or a driver's on its record.
LEMMA RiderGrant ==
    ASSUME TypeInv, OffersReal, NEW p \in Passengers, NEW c \in Clients, Grant(c)
    PROVE  RiderMoves(p)
<1>0. ScreenStill(p) /\ LinkStill(p) /\ outbox' = outbox /\ cache' = cache /\ mainQ' = mainQ
  BY DEF Grant, ServerApply, uiVars, riderVars, ScreenStill, LinkStill
<1>1. PICK q \in Passengers :
           /\ q = NextPut(c).write.path
           /\ \/ /\ c = q
                 /\ \E place \in Places :
                      trips' = [trips EXCEPT ![q] =
                                  [place |-> place, state |-> "requested", driver |-> trips[q].driver]]
              \/ /\ c \in Drivers /\ q \in Listed
                 /\ trips' = [trips EXCEPT ![q] =
                                [place |-> trips[q].place, state |-> "accepted", driver |-> c]]
  BY GrantEffect
<1>. DEFINE t == Merge(trips[q], NextPut(c).write)
<1>2. /\ trips' = [trips EXCEPT ![q] = t]
      /\ Answer(c, q, "ok", t)
      /\ sent' = [sent EXCEPT ![c] = sent[c] + 1] /\ sent[c] < Len(outbox[c])
  BY <1>1 DEF Grant, ServerApply, Processed
<1>3. trips'[q] = t
  BY <1>2, RiderTypes
<1>. HIDE DEF t
<1>4. CASE p # q
  <2>1. p # c
    BY <1>1, <1>4, RiderTypes
  <2>2. inbox'[p] = inbox[p]
    BY <1>2, <1>4, <2>1, RiderTypes DEF Answer
  <2>3. RiderIdle(p)
    BY <1>0, <1>2, <1>4, <2>1, <2>2, RiderTypes DEF RiderIdle, PutsStill, ScreenStill, LinkStill
  <2>. QED
    BY <2>3 DEF RiderMoves
<1>5. CASE p = q /\ c = q
  <2>1. inbox'[p] = Append(inbox[p], [ack |-> "ok", data |-> trips'[p]])
    BY <1>2, <1>3, <1>5, RiderTypes DEF Answer
  <2>2. \E place \in Places :
           trips'[p] = [place |-> place, state |-> "requested", driver |-> trips[p].driver]
    BY <1>1, <1>5, RiderTypes
  <2>3. RiderServed(p)
    BY <1>0, <1>2, <1>5, <2>1, <2>2, RiderTypes DEF RiderServed
  <2>. QED
    BY <2>3 DEF RiderMoves
<1>6. CASE p = q /\ c # q
  <2>1. inbox'[p] = IF online[p] /\ regs[p] > 0 /\ trips'[p] # trips[p]
                    THEN Append(inbox[p], [ack |-> "none", data |-> trips'[p]])
                    ELSE inbox[p]
    BY <1>2, <1>3, <1>6, RiderTypes DEF Answer
  <2>2. /\ trips[p] # NoTrip
        /\ \E d \in Drivers :
             trips'[p] = [place |-> trips[p].place, state |-> "accepted", driver |-> d]
    BY <1>1, <1>6, RiderTypes DEF Listed
  <2>3. RiderTaken(p)
    BY <1>0, <1>2, <1>6, <2>1, <2>2, RiderTypes DEF RiderTaken, PutsStill
  <2>. QED
    BY <2>3 DEF RiderMoves
<1>. QED
  BY <1>4, <1>5, <1>6

LEMMA RiderRefuse ==
    ASSUME TypeInv, OffersReal, NEW p \in Passengers, NEW c \in Clients, Refuse(c)
    PROVE  RiderMoves(p)
<1>0. /\ ScreenStill(p) /\ LinkStill(p) /\ trips' = trips
      /\ outbox' = outbox /\ cache' = cache /\ mainQ' = mainQ
  BY DEF Refuse, ServerReject, uiVars, riderVars, ScreenStill, LinkStill
<1>. DEFINE q == NextPut(c).write.path
<1>1. /\ Answer(c, q, "err", trips[q])
      /\ sent' = [sent EXCEPT ![c] = sent[c] + 1] /\ sent[c] < Len(outbox[c])
  BY DEF Refuse, ServerReject, Processed
<1>2. CASE c # p
  <2>1. inbox'[p] = inbox[p]
    BY <1>1, <1>2, RiderTypes DEF Answer
  <2>2. RiderIdle(p)
    BY <1>0, <1>1, <1>2, <2>1, RiderTypes DEF RiderIdle, PutsStill, ScreenStill, LinkStill
  <2>. QED
    BY <2>2 DEF RiderMoves
<1>3. CASE c = p
  <2>1. q = p
    <3>1. sent[p] + 1 \in 1 .. Len(outbox[p])
      BY <1>1, <1>3, RiderTypes, LenProperties
    <3>2. outbox[p][sent[p] + 1] \in RequestPut(p)
      BY <3>1, ElementOfSeq DEF OffersReal, RiderReal
    <3>. QED
      BY <1>3, <3>2 DEF NextPut, RequestPut
  <2>. HIDE DEF q
  <2>2. inbox'[p] = Append(inbox[p], [ack |-> "err", data |-> trips[p]])
    BY <1>1, <1>3, <2>1, RiderTypes DEF Answer
  <2>3. RiderServed(p)
    BY <1>0, <1>1, <1>3, <2>2, RiderTypes DEF RiderServed
  <2>. QED
    BY <2>3 DEF RiderMoves
<1>. QED
  BY <1>2, <1>3

\* The steps of anybody, as rider p sees them.
LEMMA AnyRiderMoves ==
    ASSUME TypeInv, OffersReal, [Next]_vars, NEW p \in Passengers
    PROVE  RiderMoves(p)
<1>. SUFFICES ASSUME ~RiderIdle(p) PROVE RiderMoves(p)
  BY DEF RiderMoves
<1>. USE DEF ScreenStill, LinkStill, PutsStill
<1>1. ASSUME NEW x \in Passengers, RiderStep(x) PROVE RiderMoves(p)
  <2>0. CASE x = p
    BY <1>1, <2>0, OwnRiderMoves
  <2>. SUFFICES ASSUME x # p PROVE RiderIdle(p)
    BY <2>0
  <2>. x \in Clients
    BY DEF Clients
  <2>. USE RiderTypes DEF RiderIdle, riderVars, dbVars
  <2>1. CASE ObserveCurrentTrip(x)
    BY <2>1 DEF ObserveCurrentTrip, ObserveValue
  <2>2. CASE DidSelectRow(x) \/ ActionButtonPressed(x)
    BY <2>2 DEF DidSelectRow, ActionButtonPressed
  <2>3. CASE \E place \in Places : OnRide(x, place)
    <3>1. PICK place \in Places : OnRide(x, place)
      BY <2>3
    <3>. QED
      BY <3>1 DEF OnRide, UpdateChildValues, ShouldPresentLoadingView
  <2>4. CASE HandleValue(x)
    BY <2>4 DEF HandleValue, RunBlock, ShouldPresentLoadingView
  <2>5. CASE HandleUploadDone(x)
    BY <2>5 DEF HandleUploadDone, RunBlock
  <2>6. CASE RestartRider(x)
    BY <2>6 DEF RestartRider, Restart, ConnectionLost
  <2>. QED
    BY <1>1, <2>1, <2>2, <2>3, <2>4, <2>5, <2>6 DEF RiderStep
<1>2. ASSUME NEW d \in Drivers, DriverStep(d) PROVE RiderIdle(p)
  <2>0. d \in Clients /\ d # p
    BY RiderTypes DEF Clients
  <2>. USE <2>0, RiderTypes DEF RiderIdle, riderVars, dbVars
  <2>1. CASE ObserveTrips(d)
    BY <2>1 DEF ObserveTrips, ObserveChildAdded
  <2>2. CASE HandleChildAdded(d) \/ DidAcceptTrip(d)
    BY <2>2 DEF HandleChildAdded, DidAcceptTrip, RunBlock
  <2>3. CASE HandleAcceptTrip(d)
    BY <2>3 DEF HandleAcceptTrip, UpdateChildValues
  <2>4. CASE HandleDismissal(d) \/ DismissDone(d)
    BY <2>4 DEF HandleDismissal, DismissDone
  <2>5. CASE TripsEvent(d)
    BY <2>5 DEF TripsEvent, ChildAdded, ChildChanged, uiVars
  <2>6. CASE RestartDriver(d)
    BY <2>6 DEF RestartDriver, Restart, ConnectionLost
  <2>. QED
    BY <1>2, <2>1, <2>2, <2>3, <2>4, <2>5, <2>6 DEF DriverStep
<1>3. ASSUME NEW c \in Clients, SystemStep(c) PROVE RiderMoves(p)
  <2>1. CASE SetupAgain(c)
    <3>1. RiderIdle(p)
      BY <2>1, RiderTypes DEF SetupAgain, RiderIdle, dbVars
    <3>. QED
      BY <3>1 DEF RiderMoves
  <2>2. CASE Library(c)
    <3>0. ScreenStill(p)
      BY <2>2 DEF Library, uiVars, riderVars
    <3>1. CASE c # p
      <4>1. RiderIdle(p)
        BY <2>2, <3>0, <3>1, RiderTypes
        DEF Library, Deliver, Reconnect, Disconnect, ConnectionLost, RiderIdle
      <4>. QED
        BY <4>1 DEF RiderMoves
    <3>2. CASE c = p /\ Deliver(p)
      BY <3>0, <3>2, RiderDeliver DEF RiderMoves
    <3>3. CASE c = p /\ Reconnect(p)
      <4>1. RiderReconnects(p)
        BY <3>0, <3>3, RiderTypes DEF Reconnect, RiderReconnects
      <4>. QED
        BY <4>1 DEF RiderMoves
    <3>4. CASE c = p /\ Disconnect(p)
      <4>1. RiderCutOff(p)
        BY <3>0, <3>4, RiderTypes DEF Disconnect, ConnectionLost, RiderCutOff
      <4>. QED
        BY <4>1 DEF RiderMoves
    <3>. QED
      BY <2>2, <3>1, <3>2, <3>3, <3>4 DEF Library
  <2>. QED
    BY <1>3, <2>1, <2>2, RiderGrant, RiderRefuse DEF SystemStep
<1>4. CASE UNCHANGED vars
  BY <1>4 DEF vars, dbVars, riderVars, RiderIdle
<1>. QED
  BY <1>1, <1>2, <1>3, <1>4 DEF Next

-----------------------------------------------------------------------------
(* Requests.  While a rider's connection holds, every CONFIRM UBERX tap is *)
(* one put, and every put creates or resets the record at most once.       *)

RequestsCounted(p) ==
    drops[p] = 0 => (Len(outbox[p]) - sent[p]) + (IF trips[p] = NoTrip THEN 0 ELSE 1) <= taps[p]

LEMMA RequestsKept ==
    ASSUME TypeInv, NEW p \in Passengers, RequestsCounted(p), RiderMoves(p)
    PROVE  RequestsCounted(p)'
<1>0. /\ outbox[p] \in Seq(Put) /\ Len(outbox[p]) \in Nat /\ sent[p] \in Nat /\ taps[p] \in Nat
      /\ drops[p] \in Nat /\ sent[p] <= Len(outbox[p])
  BY RiderTypes, LenProperties DEF TypeInv, DBInv, AnswersMatchPuts
<1>. SUFFICES ASSUME drops'[p] = 0
              PROVE  (Len(outbox'[p]) - sent'[p]) + (IF trips'[p] = NoTrip THEN 0 ELSE 1) <= taps'[p]
  BY DEF RequestsCounted
<1>. USE DEF ScreenStill, LinkStill, PutsStill
<1>1. CASE RiderIdle(p) \/ RiderObserves(p) \/ RiderReconnects(p) \/ RiderTaken(p)
  BY <1>0, <1>1 DEF RequestsCounted, RiderIdle, RiderObserves, RiderReconnects, RiderTaken
<1>2. CASE RiderHandlesValue(p) \/ RiderHandlesDone(p)
  BY <1>0, <1>2 DEF RequestsCounted, RiderHandlesValue, RiderHandlesDone, BlockRun
<1>3. CASE RiderRestarts(p) \/ RiderCutOff(p)
  BY <1>0, <1>3 DEF RiderRestarts, RiderCutOff
<1>4. CASE RiderRides(p)
  <2>1. PICK put \in RequestPut(p) : outbox'[p] = Append(outbox[p], put)
    BY <1>4 DEF RiderRides
  <2>2. Len(outbox'[p]) = Len(outbox[p]) + 1
    BY <1>0, <2>1, AppendProperties DEF RequestPut
  <2>. QED
    BY <1>0, <1>4, <2>2 DEF RequestsCounted, RiderRides
<1>5. CASE RiderInformed(p)
  <2>1. \/ Len(outbox'[p]) = Len(outbox[p]) /\ sent'[p] = sent[p]
        \/ Len(outbox'[p]) = Len(outbox[p]) - 1 /\ sent'[p] = sent[p] - 1
    <3>1. \/ outbox'[p] = outbox[p] /\ sent'[p] = sent[p]
          \/ outbox[p] # <<>> /\ outbox'[p] = Tail(outbox[p]) /\ sent'[p] = sent[p] - 1
      BY <1>5 DEF RiderInformed
    <3>. QED
      BY <1>0, <3>1, HeadTailProperties
  <2>2. trips'[p] = trips[p] /\ taps'[p] = taps[p] /\ drops'[p] = drops[p]
    BY <1>5 DEF RiderInformed
  <2>. QED
    BY <1>0, <2>1, <2>2 DEF RequestsCounted
<1>6. CASE RiderServed(p)
  <2>1. /\ outbox'[p] = outbox[p] /\ sent[p] < Len(outbox[p]) /\ sent'[p] = sent[p] + 1
        /\ taps'[p] = taps[p] /\ drops'[p] = drops[p]
    BY <1>6 DEF RiderServed
  <2>. QED
    BY <1>0, <2>1 DEF RequestsCounted
<1>. QED
  BY <1>1, <1>2, <1>3, <1>4, <1>5, <1>6 DEF RiderMoves

LEMMA SpecRequests == Spec => [](\A p \in Passengers : RequestsCounted(p))
<1>1. Init => \A p \in Passengers : RequestsCounted(p)
  BY EmptySeq DEF Init, DBInit, RequestsCounted, Clients
<1>2. TypeInv /\ OffersReal /\ (\A p \in Passengers : RequestsCounted(p)) /\ [Next]_vars
        => (\A p \in Passengers : RequestsCounted(p))'
  BY AnyRiderMoves, RequestsKept
<1>. QED
  BY <1>1, <1>2, SpecType, SpecOffers, PTL DEF Spec

\* Unless its rider asked again or lost its connection, no acceptance is
\* overwritten by a request, however the other puts and answers interleave.
THEOREM AcceptancesStand == Spec => AcceptanceStands
<1>1. ASSUME TypeInv, OffersReal, \A p \in Passengers : RequestsCounted(p), [Next]_vars,
             NEW p \in Passengers,
             trips[p].state = "accepted", trips'[p].state = "requested"
      PROVE  taps[p] > 1 \/ drops[p] > 0
  <2>0. /\ Len(outbox[p]) \in Nat /\ sent[p] \in Nat /\ taps[p] \in Nat /\ drops[p] \in Nat
    BY <1>1, RiderTypes, LenProperties
  <2>1. trips'[p] # trips[p] /\ trips[p] # NoTrip
    BY <1>1 DEF NoTrip
  <2>2. RiderMoves(p)
    BY <1>1, AnyRiderMoves
  <2>3. RiderServed(p)
    <3>1. ~RiderTaken(p)
      <4>1. \A d \in Drivers :
              trips'[p] # [place |-> trips[p].place, state |-> "accepted", driver |-> d]
        BY <1>1
      <4>. QED
        BY <4>1 DEF RiderTaken
    <3>. QED
      BY <2>1, <2>2, <3>1
      DEF RiderMoves, RiderIdle, RiderObserves, RiderRides, RiderHandlesValue, RiderHandlesDone,
          BlockRun, RiderRestarts, RiderInformed, RiderCutOff, RiderReconnects
  <2>4. sent[p] < Len(outbox[p])
    BY <2>3 DEF RiderServed
  <2>. QED
    BY <1>1, <2>0, <2>1, <2>4 DEF RequestsCounted
<1>2. TypeInv /\ OffersReal /\ (\A p \in Passengers : RequestsCounted(p)) /\ [Next]_vars
        => [\A p \in Passengers :
              trips[p].state = "accepted" /\ trips'[p].state = "requested" =>
                 taps[p] > 1 \/ drops[p] > 0]_vars
  BY <1>1
<1>. QED
  BY <1>2, SpecType, SpecOffers, SpecRequests, PTL DEF Spec, AcceptanceStands

-----------------------------------------------------------------------------
(* What a rider is told.  The last value event on its way to the screen,   *)
(* or the screen itself when none is, shows the library's view of the      *)
(* record; and the last message on its way from the server, or the         *)
(* library's snapshot when none is, holds the record.                      *)

Events(q) == {i \in DOMAIN q : q[i].kind = "event"}

\* Once its blocks have run, a queue leaves v on a screen that shows t.
Tells(q, t, v) ==
    \/ Events(q) = {} /\ t = v
    \/ \E i \in Events(q) : q[i].trip = v /\ \A j \in Events(q) : j <= i

\* A process that observes nothing has nothing on its way, and no destination.
Started(p) ==
    regs[p] = 0 => /\ outbox[p] = <<>> /\ inbox[p] = <<>> /\ mainQ[p] = <<>>
                   /\ cache[p] = Unknown /\ ~hasDest[p]

Delivered(p) ==
    online[p] /\ regs[p] > 0 =>
       trips[p] = IF inbox[p] = <<>> THEN cache[p] ELSE inbox[p][Len(inbox[p])].data

Told(p) ==
    cache[p] # Unknown /\ View(cache[p], outbox[p]) # NoTrip =>
       Tells(mainQ[p], trip[p], View(cache[p], outbox[p]))

ViewInv(p) == Started(p) /\ Delivered(p) /\ Told(p)

\* Events at the end of the queue are the last ones.
LEMMA TellsEvents ==
    ASSUME NEW q \in Seq(Block), NEW n \in Nat \ {0}, NEW p \in Passengers, NEW v \in Trip, NEW t
    PROVE  Tells(q \o [i \in 1 .. n |-> Event(p, v)], t, v)
<1>. DEFINE s == [i \in 1 .. n |-> Event(p, v)]
            r == q \o s
<1>0. Event(p, v) \in Block /\ Event(p, v).kind = "event" /\ Event(p, v).trip = v
  BY RecordTypes DEF Event
<1>1. s \in Seq(Block) /\ DOMAIN s = 1 .. n /\ s[n] = Event(p, v)
  BY <1>0, SameEvents
<1>2. Len(s) = n
  BY <1>1, LenProperties
<1>. HIDE DEF s
<1>3. /\ r \in Seq(Block) /\ Len(r) = Len(q) + n /\ r[Len(q) + n] = s[n]
      /\ DOMAIN r = 1 .. (Len(q) + n) /\ Len(q) \in Nat
  <2>0. /\ r \in Seq(Block) /\ Len(r) = Len(q) + Len(s)
        /\ \A i \in 1 .. Len(q) + Len(s) : r[i] = IF i <= Len(q) THEN q[i] ELSE s[i - Len(q)]
    BY <1>1, ConcatProperties
  <2>. HIDE DEF r
  <2>1. /\ r \in Seq(Block) /\ Len(r) = Len(q) + n /\ Len(q) \in Nat
        /\ \A i \in 1 .. Len(r) : r[i] = IF i <= Len(q) THEN q[i] ELSE s[i - Len(q)]
    BY <1>2, <2>0, LenProperties
  <2>2. Len(q) + n \in 1 .. Len(r) /\ ~(Len(q) + n <= Len(q)) /\ (Len(q) + n) - Len(q) = n
    BY <2>1
  <2>. QED
    BY <2>1, <2>2, LenProperties
<1>4. Len(q) + n \in Events(r) /\ \A j \in Events(r) : j <= Len(q) + n
  BY <1>0, <1>1, <1>3 DEF Events
<1>. HIDE DEF r
<1>. QED
  BY <1>0, <1>1, <1>3, <1>4 DEF Tells, r, s

LEMMA TellsEvent ==
    ASSUME NEW q \in Seq(Block), NEW b \in Block, b.kind = "event", NEW t
    PROVE  Tells(Append(q, b), t, b.trip)
<1>1. /\ Append(q, b)[Len(q) + 1] = b /\ DOMAIN Append(q, b) = 1 .. (Len(q) + 1) /\ Len(q) \in Nat
  BY AppendProperties, LenProperties
<1>2. Len(q) + 1 \in Events(Append(q, b)) /\ \A j \in Events(Append(q, b)) : j <= Len(q) + 1
  BY <1>1 DEF Events
<1>. QED
  BY <1>1, <1>2 DEF Tells

\* Completion blocks tell nothing.
LEMMA EventsDone ==
    ASSUME NEW q \in Seq(Block), NEW b \in Block, b.kind = "done"
    PROVE  /\ Events(Append(q, b)) = Events(q)
           /\ \A i \in Events(q) : Append(q, b)[i] = q[i]
<1>1. /\ \A i \in 1 .. Len(q) : Append(q, b)[i] = q[i]
      /\ Append(q, b)[Len(q) + 1] = b
      /\ DOMAIN Append(q, b) = 1 .. (Len(q) + 1)
      /\ DOMAIN q = 1 .. Len(q) /\ Len(q) \in Nat
  BY AppendProperties, LenProperties
<1>2. \A i : i \in Events(Append(q, b)) <=> i \in Events(q)
  BY <1>1 DEF Events
<1>. QED
  BY <1>1, <1>2 DEF Events

LEMMA TellsDone ==
    ASSUME NEW q \in Seq(Block), NEW b \in Block, b.kind = "done", NEW t, NEW v, Tells(q, t, v)
    PROVE  Tells(Append(q, b), t, v)
BY EventsDone DEF Tells

\* The events of a queue whose head was run.
LEMMA EventsTail ==
    ASSUME NEW q \in Seq(Block), q # <<>>
    PROVE  /\ \A i \in Events(Tail(q)) : i \in Nat /\ i + 1 \in Events(q) /\ Tail(q)[i] = q[i + 1]
           /\ \A i \in Events(q) :
                \/ i = 1 /\ Head(q) = q[1] /\ Head(q).kind = "event"
                \/ i \in Nat /\ i - 1 \in Events(Tail(q)) /\ Tail(q)[i - 1] = q[i]
           /\ Head(q).kind = "event" => 1 \in Events(q) /\ Head(q) = q[1]
<1>1. /\ 1 \in DOMAIN q /\ Head(q) = q[1]
      /\ \A i \in DOMAIN Tail(q) : i + 1 \in DOMAIN q /\ Tail(q)[i] = q[i + 1]
      /\ \A i \in DOMAIN q : i = 1 \/ (i - 1 \in DOMAIN Tail(q) /\ Tail(q)[i - 1] = q[i])
  BY QueueRuns
<1>2. Tail(q) \in Seq(Block)
  BY HeadTailProperties
<1>3. /\ \A i \in DOMAIN q : i \in Nat /\ i >= 1
      /\ \A i \in DOMAIN Tail(q) : i \in Nat /\ i >= 1
  BY <1>2, LenProperties
<1>. QED
  BY <1>1, <1>3 DEF Events

LEMMA TellsTail ==
    ASSUME NEW q \in Seq(Block), q # <<>>, NEW t, NEW v, v # NoTrip, Tells(q, t, v)
    PROVE  Tells(Tail(q), IF Head(q).kind = "event" /\ Head(q).trip # NoTrip
                          THEN Head(q).trip ELSE t, v)
<1>1. CASE Events(q) = {}
  <2>1. Events(Tail(q)) = {} /\ Head(q).kind # "event"
    BY <1>1, EventsTail
  <2>. QED
    BY <1>1, <2>1 DEF Tells
<1>2. CASE Events(q) # {}
  <2>1. PICK i \in Events(q) : q[i].trip = v /\ \A j \in Events(q) : j <= i
    BY <1>2 DEF Tells
  <2>2. CASE i - 1 \in Events(Tail(q)) /\ Tail(q)[i - 1] = q[i] /\ i \in Nat
    <3>1. \A j \in Events(Tail(q)) : j <= i - 1
      <4>. SUFFICES ASSUME NEW j \in Events(Tail(q)) PROVE j <= i - 1
        OBVIOUS
      <4>1. j \in Nat /\ j + 1 \in Events(q)
        BY EventsTail
      <4>2. j + 1 <= i
        BY <2>1, <4>1
      <4>. QED
        BY <2>2, <4>1, <4>2
    <3>. QED
      BY <2>1, <2>2, <3>1 DEF Tells
  <2>3. CASE i = 1 /\ Head(q) = q[1] /\ Head(q).kind = "event"
    <3>1. Events(Tail(q)) = {}
      <4>. SUFFICES ASSUME NEW j \in Events(Tail(q)) PROVE FALSE
        OBVIOUS
      <4>1. j \in Nat /\ j + 1 \in Events(q) /\ j \in DOMAIN Tail(q)
        BY EventsTail DEF Events
      <4>2. j >= 1
        BY <4>1, HeadTailProperties, LenProperties
      <4>3. j + 1 <= i
        BY <2>1, <4>1
      <4>. QED
        BY <2>3, <4>1, <4>2, <4>3
    <3>. QED
      BY <2>1, <2>3, <3>1 DEF Tells
  <2>. QED
    BY <2>1, <2>2, <2>3, EventsTail
<1>. QED
  BY <1>1, <1>2

\* Raising a value event tells the listener the new view.
LEMMA TellsRaised ==
    ASSUME NEW p \in Passengers, regs[p] \in Nat \ {0}, NEW q \in Seq(Block),
           NEW t, NEW u, NEW v \in Trip, u = v => Tells(q, t, v)
    PROVE  Tells(RaiseValue(q, p, u, v), t, v)
<1>1. CASE u = v
  BY <1>1, RaiseNothing
<1>2. CASE u # v
  <2>1. RaiseValue(q, p, u, v) = q \o [i \in 1 .. regs[p] |-> Event(p, v)]
    BY <1>2 DEF RaiseValue
  <2>. QED
    BY <2>1, TellsEvents
<1>. QED
  BY <1>1, <1>2

-----------------------------------------------------------------------------
LEMMA StartedKept ==
    ASSUME TypeInv, NEW p \in Passengers, Started(p), RiderMoves(p)
    PROVE  Started(p)'
<1>0. /\ outbox[p] \in Seq(Put) /\ Len(outbox[p]) \in Nat /\ sent[p] \in Nat /\ regs[p] \in Nat
      /\ outbox[p] = <<>> => Len(outbox[p]) = 0
  BY RiderTypes, LenProperties
<1>. USE DEF ScreenStill, LinkStill, PutsStill
<1>1. CASE RiderIdle(p) \/ RiderCutOff(p) \/ RiderRestarts(p)
  BY <1>0, <1>1 DEF Started, RiderIdle, RiderCutOff, RiderRestarts
<1>2. CASE RiderObserves(p)
  BY <1>0, <1>2 DEF Started, RiderObserves
<1>3. CASE RiderRides(p)
  BY <1>0, <1>3 DEF Started, RiderRides
<1>4. CASE RiderHandlesValue(p) \/ RiderHandlesDone(p)
  BY <1>0, <1>4 DEF Started, RiderHandlesValue, RiderHandlesDone, BlockRun
<1>5. CASE RiderInformed(p)
  BY <1>0, <1>5 DEF Started, RiderInformed
<1>6. CASE RiderReconnects(p)
  BY <1>0, <1>6 DEF Started, RiderReconnects
<1>7. CASE RiderServed(p)
  BY <1>0, <1>7 DEF Started, RiderServed
<1>8. CASE RiderTaken(p)
  BY <1>0, <1>8 DEF Started, RiderTaken
<1>. QED
  BY <1>1, <1>2, <1>3, <1>4, <1>5, <1>6, <1>7, <1>8 DEF RiderMoves

LEMMA LastAppend ==
    ASSUME NEW s \in Seq(Message), NEW m \in Message
    PROVE  /\ Append(s, m) # <<>>
           /\ Append(s, m)[Len(Append(s, m))] = m
BY AppendProperties, EmptySeq, LenProperties

LEMMA DeliveredKept ==
    ASSUME TypeInv, TypeInv', NEW p \in Passengers, Started(p), Delivered(p), RiderMoves(p)
    PROVE  Delivered(p)'
<1>0. /\ inbox[p] \in Seq(Message) /\ regs[p] \in Nat /\ trips[p] \in Trip
  BY RiderTypes
<1>a. trips'[p] \in Trip
  BY DEF TypeInv, DBInv, DBTypeOK
<1>b. \A t \in Trip, a \in {"none", "ok", "err"} : [ack |-> a, data |-> t] \in Message
  BY DEF Message
<1>c. ASSUME NEW t \in Trip, NEW a \in {"none", "ok", "err"},
             inbox'[p] = Append(inbox[p], [ack |-> a, data |-> t]), trips'[p] = t
      PROVE  Delivered(p)'
  <2>. DEFINE m == [ack |-> a, data |-> t]
  <2>1. m \in Message /\ m.data = t
    BY <1>b
  <2>2. inbox'[p] # <<>> /\ inbox'[p][Len(inbox'[p])] = m
    BY <1>0, <1>c, <2>1, LastAppend
  <2>. QED
    BY <1>c, <2>1, <2>2 DEF Delivered
<1>. USE DEF ScreenStill, LinkStill, PutsStill
<1>1. CASE RiderIdle(p)
  BY <1>1 DEF Delivered, RiderIdle
<1>2. CASE RiderObserves(p)
  <2>1. CASE online[p] /\ regs[p] = 0
    BY <1>0, <1>2, <1>c, <2>1 DEF RiderObserves
  <2>2. CASE ~(online[p] /\ regs[p] = 0)
    BY <1>0, <1>2, <2>2 DEF Delivered, RiderObserves
  <2>. QED
    BY <2>1, <2>2
<1>3. CASE RiderRides(p)
  BY <1>3 DEF Delivered, RiderRides
<1>4. CASE RiderHandlesValue(p) \/ RiderHandlesDone(p)
  BY <1>4 DEF Delivered, RiderHandlesValue, RiderHandlesDone, BlockRun
<1>5. CASE RiderInformed(p)
  <2>1. /\ online[p] /\ inbox[p] # <<>> /\ inbox'[p] = Tail(inbox[p])
        /\ cache'[p] = Head(inbox[p]).data /\ trips'[p] = trips[p]
    BY <1>5 DEF RiderInformed
  <2>2. regs[p] > 0
    BY <1>0, <2>1 DEF Started
  <2>3. trips[p] = inbox[p][Len(inbox[p])].data
    BY <2>1, <2>2 DEF Delivered
  <2>4. /\ Tail(inbox[p]) \in Seq(Message) /\ Len(Tail(inbox[p])) = Len(inbox[p]) - 1
        /\ \A i \in 1 .. Len(Tail(inbox[p])) : Tail(inbox[p])[i] = inbox[p][i + 1]
        /\ Len(inbox[p]) \in Nat \ {0} /\ Head(inbox[p]) = inbox[p][1]
    BY <1>0, <2>1, HeadTailProperties, LenProperties, EmptySeq
  <2>5. CASE Tail(inbox[p]) = <<>>
    <3>1. Len(inbox[p]) = 1
      <4>1. Len(Tail(inbox[p])) = 0
        BY <2>4, <2>5, EmptySeq
      <4>. QED
        BY <2>4, <4>1
    <3>. QED
      BY <2>1, <2>3, <2>4, <2>5, <3>1 DEF Delivered
  <2>6. CASE Tail(inbox[p]) # <<>>
    <3>1. Len(Tail(inbox[p])) \in 1 .. Len(Tail(inbox[p]))
      BY <2>4, <2>6, LenProperties, EmptySeq
    <3>2. Tail(inbox[p])[Len(Tail(inbox[p]))] = inbox[p][Len(inbox[p])]
      BY <2>4, <3>1
    <3>. QED
      BY <2>1, <2>3, <2>6, <3>2 DEF Delivered
  <2>. QED
    BY <2>5, <2>6
<1>6. CASE RiderReconnects(p)
  <2>1. CASE regs[p] > 0
    BY <1>0, <1>6, <1>c, <2>1 DEF RiderReconnects
  <2>2. CASE ~(regs[p] > 0)
    BY <1>6, <2>2 DEF Delivered, RiderReconnects
  <2>. QED
    BY <2>1, <2>2
<1>7. CASE RiderServed(p)
  BY <1>7, <1>a, <1>c DEF RiderServed
<1>8. CASE RiderTaken(p)
  <2>1. CASE online[p] /\ regs[p] > 0 /\ trips'[p] # trips[p]
    BY <1>8, <1>a, <1>c, <2>1 DEF RiderTaken
  <2>2. CASE ~(online[p] /\ regs[p] > 0 /\ trips'[p] # trips[p])
    BY <1>8, <2>2 DEF Delivered, RiderTaken
  <2>. QED
    BY <2>1, <2>2
<1>9. CASE RiderCutOff(p) \/ RiderRestarts(p)
  BY <1>9 DEF Delivered, RiderCutOff, RiderRestarts
<1>. QED
  BY <1>1, <1>2, <1>3, <1>4, <1>5, <1>6, <1>7, <1>8, <1>9 DEF RiderMoves

\* Only a location without a snapshot looks like one.
LEMMA ViewKnown ==
    ASSUME NEW p, NEW t \in Trip, t # Unknown, NEW puts \in Seq(RequestPut(p))
    PROVE  View(t, puts) # Unknown
<1>1. CASE puts = <<>>
  BY <1>1 DEF View
<1>2. CASE puts # <<>>
  <2>1. puts[Len(puts)] \in RequestPut(p)
    BY <1>2, LenProperties, EmptySeq, ElementOfSeq
  <2>2. puts[Len(puts)].write.state = "requested"
    BY <2>1 DEF RequestPut
  <2>. QED
    BY <1>2, <2>2 DEF View, Merge, Unknown
<1>. QED
  BY <1>1, <1>2

LEMMA ToldKept ==
    ASSUME TypeInv, TypeInv', OffersReal', NEW p \in Passengers, Started(p), Told(p), RiderMoves(p)
    PROVE  Told(p)'
<1>0. /\ mainQ[p] \in Seq(Block) /\ regs[p] \in Nat /\ cache[p] \in Trip
      /\ outbox[p] \in Seq(Put) /\ inbox[p] \in Seq(Message)
  BY RiderTypes
<1>a. /\ View(cache'[p], outbox'[p]) \in Trip /\ cache'[p] \in Trip
      /\ outbox'[p] \in Seq(RequestPut(p))
  <2>1. cache'[p] \in Trip /\ outbox'[p] \in Seq(Put)
    BY DEF TypeInv, DBInv, DBTypeOK, Clients
  <2>2. RequestPut(p)' = RequestPut(p)
    BY DEF RequestPut
  <2>. QED
    BY <2>1, <2>2, ViewType DEF OffersReal, RiderReal
<1>. DEFINE before == View(cache[p], outbox[p])
            after == View(cache'[p], outbox'[p])
<1>. SUFFICES ASSUME cache'[p] # Unknown, after # NoTrip
              PROVE  Tells(mainQ'[p], trip'[p], after)
  BY DEF Told
<1>b. cache[p] # Unknown /\ before # NoTrip => Tells(mainQ[p], trip[p], before)
  BY DEF Told
<1>. HIDE DEF before, after
<1>c. ASSUME cache'[p] = cache[p], outbox'[p] = outbox[p]
      PROVE  before = after /\ Tells(mainQ[p], trip[p], after)
  BY <1>b, <1>c DEF before, after
<1>. USE DEF ScreenStill, LinkStill, PutsStill
<1>1. CASE RiderIdle(p) \/ RiderCutOff(p) \/ RiderReconnects(p) \/ RiderServed(p) \/ RiderTaken(p)
  BY <1>1, <1>c DEF RiderIdle, RiderCutOff, RiderReconnects, RiderServed, RiderTaken
<1>2. CASE RiderObserves(p)
  <2>1. /\ cache'[p] = cache[p] /\ outbox'[p] = outbox[p] /\ trip'[p] = trip[p]
        /\ mainQ'[p] = Append(mainQ[p], Event(p, View(cache[p], outbox[p])))
    BY <1>2 DEF RiderObserves
  <2>2. mainQ'[p] = Append(mainQ[p], Event(p, after))
    BY <2>1, <1>c DEF before
  <2>3. Event(p, after) \in Block /\ Event(p, after).kind = "event" /\ Event(p, after).trip = after
    BY <1>a, RecordTypes DEF Event, after
  <2>. QED
    BY <1>0, <2>2, <2>3, TellsEvent
<1>3. CASE RiderRides(p)
  <2>1. regs[p] # 0 /\ cache'[p] = cache[p] /\ trip'[p] = trip[p]
    BY <1>3 DEF RiderRides, Started
  <2>2. mainQ'[p] = RaiseValue(mainQ[p], p, before, after)
    BY <1>3, <2>1 DEF RiderRides, before, after
  <2>3. before = after => Tells(mainQ[p], trip[p], after)
    BY <1>b, <2>1
  <2>. QED
    BY <1>0, <1>a, <2>1, <2>2, <2>3, TellsRaised DEF after
<1>4. CASE RiderHandlesValue(p)
  <2>1. /\ mainQ[p] # <<>> /\ mainQ'[p] = Tail(mainQ[p])
        /\ trip'[p] = IF Head(mainQ[p]).kind = "event" /\ Head(mainQ[p]).trip # NoTrip
                      THEN Head(mainQ[p]).trip ELSE trip[p]
        /\ cache'[p] = cache[p] /\ outbox'[p] = outbox[p]
    BY <1>4 DEF RiderHandlesValue, BlockRun
  <2>. QED
    BY <1>0, <1>c, <2>1, TellsTail
<1>5. CASE RiderHandlesDone(p)
  <2>1. /\ mainQ[p] # <<>> /\ mainQ'[p] = Tail(mainQ[p])
        /\ trip'[p] = IF Head(mainQ[p]).kind = "event" /\ Head(mainQ[p]).trip # NoTrip
                      THEN Head(mainQ[p]).trip ELSE trip[p]
        /\ cache'[p] = cache[p] /\ outbox'[p] = outbox[p]
    BY <1>5 DEF RiderHandlesDone, BlockRun
  <2>. QED
    BY <1>0, <1>c, <2>1, TellsTail
<1>6. CASE RiderRestarts(p)
  BY <1>6 DEF RiderRestarts
<1>7. CASE RiderInformed(p)
  <2>. DEFINE queue == RaiseValue(mainQ[p], p, before, after)
  <2>1. regs[p] # 0 /\ trip'[p] = trip[p] /\ cache'[p] = Head(inbox[p]).data
    BY <1>7 DEF RiderInformed, Started
  <2>2. \/ mainQ'[p] = queue
        \/ /\ outbox[p] # <<>>
           /\ mainQ'[p] = Append(queue, Done(Head(outbox[p]), Head(inbox[p]).ack = "ok"))
    BY <1>7, <2>1 DEF RiderInformed, before, after
  <2>3. before = after => Tells(mainQ[p], trip[p], after)
    <3>1. after # Unknown
      BY <1>a, ViewKnown DEF after
    <3>2. cache[p] = Unknown => before = Unknown
      BY ViewUnknown DEF before
    <3>. QED
      BY <1>b, <3>1, <3>2
  <2>4. Tells(queue, trip[p], after)
    BY <1>0, <1>a, <2>1, <2>3, TellsRaised DEF after
  <2>5. queue \in Seq(Block)
    BY <1>0, <1>a, RaiseType DEF after
  <2>. HIDE DEF queue
  <2>6. CASE outbox[p] # <<>> /\ mainQ'[p] = Append(queue, Done(Head(outbox[p]), Head(inbox[p]).ack = "ok"))
    <3>. DEFINE b == Done(Head(outbox[p]), Head(inbox[p]).ack = "ok")
    <3>1. Head(outbox[p]) \in Put
      BY <1>0, <2>6, HeadTailProperties
    <3>2. b \in Block /\ b.kind = "done"
      BY <3>1, RecordTypes DEF Done
    <3>. HIDE DEF b
    <3>3. mainQ'[p] = Append(queue, b)
      BY <2>6 DEF b
    <3>. QED
      BY <2>1, <2>4, <2>5, <3>2, <3>3, TellsDone
  <2>. QED
    BY <2>1, <2>2, <2>4, <2>6
<1>. QED
  BY <1>1, <1>2, <1>3, <1>4, <1>5, <1>6, <1>7 DEF RiderMoves

LEMMA SpecView == Spec => [](\A p \in Passengers : ViewInv(p))
<1>1. Init => \A p \in Passengers : ViewInv(p)
  BY DEF Init, DBInit, ViewInv, Started, Delivered, Told, Clients
<1>2. TypeInv /\ OffersReal /\ (\A p \in Passengers : ViewInv(p)) /\ [Next]_vars
        => (\A p \in Passengers : ViewInv(p))'
  BY NextType, NextOffers, AnyRiderMoves, StartedKept, DeliveredKept, ToldKept DEF ViewInv
<1>. QED
  BY <1>1, <1>2, SpecType, SpecOffers, PTL DEF Spec

\* A record is never what stands for a missing snapshot.
LEMMA RecordKnown ==
    ASSUME OffersReal, NEW p \in Passengers PROVE trips[p] # Unknown
BY PlacesAssumption DEF OffersReal, RiderReal, RealTrip, Unknown, NoTrip

\* However writes, answers, lost connections and restarts interleave, a rider
\* with nothing on its way shows exactly what the database holds.
THEOREM ViewsConverge == Spec => []ViewConverges
<1>1. OffersReal /\ (\A p \in Passengers : ViewInv(p)) => ViewConverges
  <2>. SUFFICES ASSUME OffersReal, \A p \in Passengers : ViewInv(p),
                       NEW p \in Passengers, Quiet(p), trips[p] # NoTrip
                PROVE  trip[p] = trips[p]
    BY DEF ViewConverges
  <2>1. trips[p] = cache[p] /\ cache[p] # Unknown
    BY RecordKnown DEF ViewInv, Delivered, Quiet
  <2>2. View(cache[p], outbox[p]) = cache[p]
    BY DEF View, Quiet
  <2>3. Tells(<<>>, trip[p], cache[p])
    BY <2>1, <2>2 DEF ViewInv, Told, Quiet
  <2>4. Events(<<>>) = {}
    BY DEF Events
  <2>. QED
    BY <2>1, <2>3, <2>4 DEF Tells
<1>. QED
  BY <1>1, SpecOffers, SpecView, PTL

-----------------------------------------------------------------------------
(* The loading view.  It goes when a value event says "accepted".  The     *)
(* record of a trip is never removed, so that what a rider is told never   *)
(* falls back from a trip to none; a screen that shows an acceptance while *)
(* the rider waits again has the event of the new request on its way.      *)

Real(t) == t \notin {NoTrip, Unknown}
Accepted(t) == t.state = "accepted"

\* No event of q reports that there is no trip; none does after an acceptance.
Clean(q) == \A i \in Events(q) : q[i].trip # NoTrip
Ordered(q) ==
    \A i, j \in Events(q) : Accepted(q[i].trip) /\ i < j => q[j].trip # NoTrip
TellsAcceptance(q) == \E i \in Events(q) : Accepted(q[i].trip)

\* The record, the messages on their way, the snapshot, the queue and the
\* screen are ever older: what an older one knows, the younger ones know.
Chronicle(p) ==
    /\ Accepted(trip[p]) => Real(cache[p]) /\ Clean(mainQ[p])
    /\ TellsAcceptance(mainQ[p]) => Real(cache[p])
    /\ Ordered(mainQ[p])

Remembered(p) ==
    /\ Real(cache[p]) => Real(trips[p]) /\ \A i \in DOMAIN inbox[p] : Real(inbox[p][i].data)
    /\ \A i \in DOMAIN inbox[p] : Real(inbox[p][i].data) =>
          Real(trips[p]) /\ \A j \in DOMAIN inbox[p] : i < j => Real(inbox[p][j].data)

Waits(p) == loading[p] /\ Events(mainQ[p]) = {} => ~Accepted(trip[p])

Refused(q) == \E i \in DOMAIN q : q[i].kind = "done" /\ ~q[i].ok

Answered(p) ==
    /\ \A i \in DOMAIN inbox[p] : inbox[p][i].ack = "ok" => trips[p] # NoTrip
    /\ loading[p] /\ trips[p] = NoTrip =>
          uploadFailed[p] \/ outbox[p] # <<>> \/ Refused(mainQ[p])
    /\ trips[p] = NoTrip \/ trips[p].state \in {"requested", "accepted"}

WaitInv(p) == Chronicle(p) /\ Remembered(p) /\ Waits(p) /\ Answered(p)

\* r is q with events that report u, and completion blocks, behind it.
Grows(q, r, u) ==
    /\ \A i \in DOMAIN q : i \in DOMAIN r /\ r[i] = q[i]
    /\ \A i \in Events(r) : \/ i \in Events(q)
                            \/ r[i].trip = u /\ \A k \in DOMAIN q : k < i

LEMMA GrowsStill == ASSUME NEW q, NEW u PROVE Grows(q, q, u)
BY DEF Grows, Events

LEMMA GrowsRaised ==
    ASSUME NEW p \in Passengers, regs[p] \in Nat, NEW q \in Seq(Block), NEW u, NEW v \in Trip
    PROVE  Grows(q, RaiseValue(q, p, u, v), v)
<1>. DEFINE s == [i \in 1 .. regs[p] |-> Event(p, v)]
            r == q \o s
<1>0. Event(p, v) \in Block /\ Event(p, v).trip = v
  BY RecordTypes DEF Event
<1>1. s \in Seq(Block) /\ DOMAIN s = 1 .. regs[p] /\ \A i \in 1 .. regs[p] : s[i].trip = v
  BY <1>0, SameEvents
<1>2. Len(s) = regs[p]
  BY <1>1, LenProperties
<1>. HIDE DEF s
<1>3. /\ r \in Seq(Block) /\ Len(r) = Len(q) + regs[p] /\ Len(q) \in Nat
      /\ \A i \in 1 .. Len(r) : r[i] = IF i <= Len(q) THEN q[i] ELSE s[i - Len(q)]
  <2>1. Len(q) \in Nat
    BY LenProperties
  <2>2. /\ r \in Seq(Block) /\ Len(r) = Len(q) + Len(s)
        /\ \A i \in 1 .. Len(q) + Len(s) : r[i] = IF i <= Len(q) THEN q[i] ELSE s[i - Len(q)]
    BY <1>1, ConcatProperties
  <2>. HIDE DEF r
  <2>. QED
    BY <1>2, <2>1, <2>2
<1>. HIDE DEF r
<1>4. DOMAIN r = 1 .. Len(r) /\ DOMAIN q = 1 .. Len(q)
  BY <1>3, LenProperties
<1>5. \A i \in DOMAIN q : i \in DOMAIN r /\ r[i] = q[i]
  BY <1>3, <1>4
<1>6. ASSUME NEW i \in DOMAIN r, i \notin DOMAIN q
      PROVE  r[i].trip = v /\ \A k \in DOMAIN q : k < i
  <2>1. i \in 1 .. Len(r) /\ ~(i <= Len(q)) /\ i - Len(q) \in 1 .. regs[p]
    BY <1>3, <1>4, <1>6
  <2>. QED
    BY <1>1, <1>3, <1>4, <2>1
<1>7. Grows(q, r, v)
  BY <1>5, <1>6 DEF Grows, Events
<1>. QED
  BY <1>7, GrowsStill DEF RaiseValue, r, s

LEMMA GrowsEvent ==
    ASSUME NEW q \in Seq(Block), NEW b \in Block
    PROVE  Grows(q, Append(q, b), b.trip)
<1>1. /\ \A i \in 1 .. Len(q) : Append(q, b)[i] = q[i]
      /\ Append(q, b)[Len(q) + 1] = b
      /\ DOMAIN Append(q, b) = 1 .. (Len(q) + 1)
      /\ DOMAIN q = 1 .. Len(q) /\ Len(q) \in Nat
  BY AppendProperties, LenProperties
<1>2. \A i \in DOMAIN Append(q, b) : i \in DOMAIN q \/ i = Len(q) + 1
  BY <1>1
<1>. QED
  BY <1>1, <1>2 DEF Grows, Events

LEMMA GrowsDone ==
    ASSUME NEW q, NEW r \in Seq(Block), NEW b \in Block, b.kind = "done", NEW u, Grows(q, r, u)
    PROVE  Grows(q, Append(r, b), u)
<1>1. /\ Events(Append(r, b)) = Events(r)
      /\ \A i \in Events(r) : Append(r, b)[i] = r[i]
  BY EventsDone
<1>2. \A i \in DOMAIN r : i \in DOMAIN Append(r, b) /\ Append(r, b)[i] = r[i]
  BY QueueAppends
<1>. QED
  BY <1>1, <1>2 DEF Grows

\* What a queue that grows keeps.
LEMMA GrowsKeeps ==
    ASSUME NEW q \in Seq(Block), NEW r \in Seq(Block), NEW u, Grows(q, r, u)
    PROVE  /\ Clean(q) /\ u # NoTrip => Clean(r)
           /\ TellsAcceptance(r) => TellsAcceptance(q) \/ Accepted(u)
           /\ Ordered(q) /\ (TellsAcceptance(q) => u # NoTrip) => Ordered(r)
           /\ Events(r) = {} => Events(q) = {}
           /\ Refused(q) => Refused(r)
<1>1. /\ \A i \in Events(q) : i \in Events(r) /\ r[i] = q[i]
      /\ \A i \in Events(r) : \/ i \in Events(q) /\ r[i] = q[i]
                              \/ r[i].trip = u /\ \A k \in DOMAIN q : k < i
  BY DEF Grows, Events
<1>2. \A i \in Events(r) : i \in Nat
  BY LenProperties DEF Events
<1>3. ASSUME Ordered(q), TellsAcceptance(q) => u # NoTrip PROVE Ordered(r)
  <2>. SUFFICES ASSUME NEW i \in Events(r), NEW j \in Events(r), Accepted(r[i].trip), i < j
                PROVE  r[j].trip # NoTrip
    BY DEF Ordered
  <2>1. CASE i \in Events(q) /\ r[i] = q[i] /\ j \in Events(q) /\ r[j] = q[j]
    BY <1>3, <2>1 DEF Ordered
  <2>2. CASE i \in Events(q) /\ r[i] = q[i] /\ r[j].trip = u
    BY <1>3, <2>2 DEF TellsAcceptance
  <2>3. CASE r[i].trip = u /\ r[j].trip = u
    BY <2>3 DEF Accepted, NoTrip
  <2>4. CASE j \in Events(q) /\ \A k \in DOMAIN q : k < i
    BY <1>2, <2>4 DEF Events
  <2>. QED
    BY <1>1, <2>1, <2>2, <2>3, <2>4
<1>4. Clean(q) /\ u # NoTrip => Clean(r)
  BY <1>1 DEF Clean
<1>5. TellsAcceptance(r) => TellsAcceptance(q) \/ Accepted(u)
  BY <1>1 DEF TellsAcceptance
<1>6. Events(r) = {} => Events(q) = {}
  BY <1>1
<1>7. Refused(q) => Refused(r)
  BY DEF Refused, Grows
<1>. QED
  BY <1>3, <1>4, <1>5, <1>6, <1>7

\* What a queue keeps whose head is run.
LEMMA TailKeeps ==
    ASSUME NEW q \in Seq(Block), q # <<>>
    PROVE  /\ Clean(q) => Clean(Tail(q)) /\ (Head(q).kind = "event" => Head(q).trip # NoTrip)
           /\ TellsAcceptance(Tail(q)) => TellsAcceptance(q)
           /\ Ordered(q) => Ordered(Tail(q))
           /\ Ordered(q) /\ Head(q).kind = "event" /\ Accepted(Head(q).trip) =>
                TellsAcceptance(q) /\ Clean(Tail(q))
           /\ Head(q).kind # "event" /\ Events(Tail(q)) = {} => Events(q) = {}
           /\ Refused(q) => Refused(Tail(q)) \/ (Head(q).kind = "done" /\ ~Head(q).ok)
<1>0. \A i \in Events(Tail(q)) : i \in Nat /\ 1 <= i
  BY HeadTailProperties, LenProperties DEF Events
<1>1. /\ \A i \in Events(Tail(q)) : i + 1 \in Events(q) /\ Tail(q)[i] = q[i + 1]
      /\ \A i \in Events(q) :
           \/ i = 1 /\ Head(q) = q[1] /\ Head(q).kind = "event"
           \/ i \in Nat /\ i - 1 \in Events(Tail(q)) /\ Tail(q)[i - 1] = q[i]
      /\ Head(q).kind = "event" => 1 \in Events(q) /\ Head(q) = q[1]
  BY EventsTail
<1>2. Clean(q) => Clean(Tail(q)) /\ (Head(q).kind = "event" => Head(q).trip # NoTrip)
  <2>1. ASSUME Clean(q), NEW i \in Events(Tail(q)) PROVE Tail(q)[i].trip # NoTrip
    <3>1. i + 1 \in Events(q) /\ Tail(q)[i] = q[i + 1]
      BY <1>1
    <3>. QED
      BY <2>1, <3>1 DEF Clean
  <2>2. Clean(q) /\ 1 \in Events(q) => q[1].trip # NoTrip
    BY DEF Clean
  <2>3. Clean(q) => Clean(Tail(q))
    BY <2>1 DEF Clean
  <2>. QED
    BY <1>1, <2>2, <2>3
<1>3. TellsAcceptance(Tail(q)) => TellsAcceptance(q)
  <2>1. ASSUME NEW i \in Events(Tail(q)), Accepted(Tail(q)[i].trip)
        PROVE  i + 1 \in Events(q) /\ Accepted(q[i + 1].trip)
    BY <1>1, <2>1
  <2>. QED
    BY <2>1 DEF TellsAcceptance
<1>4. ASSUME Ordered(q) PROVE Ordered(Tail(q))
  <2>. SUFFICES ASSUME NEW i \in Events(Tail(q)), NEW j \in Events(Tail(q)),
                       Accepted(Tail(q)[i].trip), i < j
                PROVE  Tail(q)[j].trip # NoTrip
    BY DEF Ordered
  <2>1. i + 1 \in Events(q) /\ j + 1 \in Events(q) /\ i + 1 < j + 1
    BY <1>0, <1>1
  <2>2. Tail(q)[i] = q[i + 1] /\ Tail(q)[j] = q[j + 1]
    BY <1>1
  <2>. QED
    BY <1>4, <2>1, <2>2 DEF Ordered
<1>5. ASSUME Ordered(q), Head(q).kind = "event", Accepted(Head(q).trip)
      PROVE  TellsAcceptance(q) /\ Clean(Tail(q))
  <2>1. 1 \in Events(q) /\ Accepted(q[1].trip)
    BY <1>1, <1>5
  <2>2. \A i \in Events(Tail(q)) : i + 1 \in Events(q) /\ 1 < i + 1 /\ Tail(q)[i] = q[i + 1]
    <3>1. \A i \in Events(Tail(q)) : 1 < i + 1
      BY <1>0
    <3>. QED
      BY <1>1, <3>1
  <2>3. \A i \in Events(Tail(q)) : q[i + 1].trip # NoTrip
    BY <1>5, <2>1, <2>2 DEF Ordered
  <2>. QED
    BY <2>1, <2>2, <2>3 DEF TellsAcceptance, Clean
<1>6. Head(q).kind # "event" /\ Events(Tail(q)) = {} => Events(q) = {}
  BY <1>1
<1>7. Refused(q) => Refused(Tail(q)) \/ (Head(q).kind = "done" /\ ~Head(q).ok)
  <2>. SUFFICES ASSUME NEW i \in DOMAIN q, q[i].kind = "done", ~q[i].ok,
                       ~(Head(q).kind = "done" /\ ~Head(q).ok)
                PROVE  Refused(Tail(q))
    BY DEF Refused
  <2>1. i = 1 \/ (i - 1 \in DOMAIN Tail(q) /\ Tail(q)[i - 1] = q[i])
    BY QueueRuns
  <2>2. i # 1
    BY QueueRuns
  <2>. QED
    BY <2>1, <2>2 DEF Refused
<1>. QED
  BY <1>2, <1>3, <1>4, <1>5, <1>6, <1>7

\* Pending requests hide neither that there is a trip nor that there is none.
LEMMA ViewReal ==
    ASSUME NEW p, NEW t \in Trip, NEW puts \in Seq(RequestPut(p))
    PROVE  /\ Real(t) => View(t, puts) # NoTrip
           /\ Accepted(View(t, puts)) => Real(t)
<1>1. CASE puts = <<>>
  BY <1>1 DEF View, Real, Accepted, NoTrip, Unknown
<1>2. CASE puts # <<>>
  <2>1. puts[Len(puts)] \in RequestPut(p)
    BY <1>2, LenProperties, EmptySeq, ElementOfSeq
  <2>2. puts[Len(puts)].write.state = "requested"
    BY <2>1 DEF RequestPut
  <2>3. t = Unknown \/ View(t, puts).state = "requested"
    BY <1>2, <2>2 DEF View, Merge
  <2>4. t = Unknown => View(t, puts) = Unknown
    BY ViewUnknown
  <2>. QED
    BY <2>3, <2>4 DEF Real, Accepted, NoTrip, Unknown
<1>. QED
  BY <1>1, <1>2

-----------------------------------------------------------------------------
\* The records of rider p over a step: a trip never vanishes.
LEMMA RecordKept ==
    ASSUME TypeInv, OffersReal', NEW p \in Passengers, RiderMoves(p)
    PROVE  /\ trips'[p] = NoTrip => trips[p] = NoTrip
           /\ Real(trips[p]) => Real(trips'[p])
           /\ trips'[p] # NoTrip => Real(trips'[p])
           /\ trips'[p] = trips[p] \/ trips'[p].state \in {"requested", "accepted"}
<1>1. trips'[p] # Unknown
  BY PlacesAssumption DEF OffersReal, RiderReal, RealTrip, Unknown, NoTrip
<1>2. \/ trips'[p] = trips[p]
      \/ trips'[p].state \in {"requested", "accepted"}
  <2>1. CASE RiderServed(p)
    <3>1. \/ trips'[p] = trips[p]
          \/ \E place \in Places :
               trips'[p] = [place |-> place, state |-> "requested", driver |-> trips[p].driver]
      BY <2>1 DEF RiderServed
    <3>2. ASSUME NEW place \in Places,
                 trips'[p] = [place |-> place, state |-> "requested", driver |-> trips[p].driver]
          PROVE  trips'[p].state = "requested"
      BY <3>2
    <3>. QED
      BY <3>1, <3>2
  <2>2. CASE RiderTaken(p)
    BY <2>2 DEF RiderTaken
  <2>3. CASE ~RiderServed(p) /\ ~RiderTaken(p)
    BY <2>3 DEF RiderMoves, RiderIdle, RiderObserves, RiderRides, RiderHandlesValue,
                RiderHandlesDone, BlockRun, RiderRestarts, RiderInformed, RiderCutOff,
                RiderReconnects
  <2>. QED
    BY <2>1, <2>2, <2>3
<1>3. ASSUME trips'[p] # trips[p] PROVE trips'[p] # NoTrip
  BY <1>2, <1>3 DEF NoTrip
<1>. QED
  BY <1>1, <1>2, <1>3 DEF Real

\* Messages about the record follow one another as the record changed.
LEMMA RememberedKept ==
    ASSUME TypeInv, TypeInv', OffersReal', NEW p \in Passengers, Remembered(p), RiderMoves(p)
    PROVE  Remembered(p)'
<1>0. inbox[p] \in Seq(Message) /\ trips'[p] \in Trip
  <2>1. trips'[p] \in Trip
    BY DEF TypeInv, DBInv, DBTypeOK
  <2>. QED
    BY <2>1, RiderTypes
<1>a. Real(trips[p]) => Real(trips'[p])
  BY RecordKept
<1>b. ASSUME NEW a \in {"none", "ok", "err"}, cache'[p] = cache[p],
             inbox'[p] = Append(inbox[p], [ack |-> a, data |-> trips'[p]])
      PROVE  Remembered(p)'
  <2>. DEFINE m == [ack |-> a, data |-> trips'[p]]
  <2>1. m \in Message /\ m.data = trips'[p]
    BY <1>0 DEF Message
  <2>. HIDE DEF m
  <2>2. /\ \A i \in DOMAIN inbox'[p] :
              \/ i \in DOMAIN inbox[p] /\ inbox'[p][i] = inbox[p][i]
              \/ i = Len(inbox[p]) + 1 /\ inbox'[p][i] = m
    BY <1>0, <1>b, <2>1, QueueAppends DEF m
  <2>3. \A i \in DOMAIN inbox[p] : i \in Nat /\ i <= Len(inbox[p]) /\ Len(inbox[p]) \in Nat
    BY <1>0, LenProperties
  <2>4. Real(cache'[p]) => Real(trips'[p]) /\ \A i \in DOMAIN inbox'[p] : Real(inbox'[p][i].data)
    BY <1>a, <1>b, <2>1, <2>2 DEF Remembered
  <2>5. ASSUME NEW i \in DOMAIN inbox'[p], Real(inbox'[p][i].data)
        PROVE  Real(trips'[p]) /\ \A j \in DOMAIN inbox'[p] : i < j => Real(inbox'[p][j].data)
    <3>1. CASE i \in DOMAIN inbox[p] /\ inbox'[p][i] = inbox[p][i]
      <4>1. Real(trips'[p]) /\ \A j \in DOMAIN inbox[p] : i < j => Real(inbox[p][j].data)
        BY <1>a, <2>5, <3>1 DEF Remembered
      <4>. QED
        BY <2>1, <2>2, <4>1
    <3>2. CASE i = Len(inbox[p]) + 1 /\ inbox'[p][i] = m
      <4>1. Real(trips'[p])
        BY <2>1, <2>5, <3>2
      <4>2. \A j \in DOMAIN inbox'[p] : ~(i < j)
        BY <2>2, <2>3, <3>2, <1>0, LenProperties
      <4>. QED
        BY <4>1, <4>2
    <3>. QED
      BY <2>2, <3>1, <3>2
  <2>. QED
    BY <2>4, <2>5 DEF Remembered
<1>c. ASSUME cache'[p] = cache[p], inbox'[p] = inbox[p] PROVE Remembered(p)'
  BY <1>a, <1>c DEF Remembered
<1>. USE DEF ScreenStill, LinkStill, PutsStill
<1>1. CASE RiderIdle(p) \/ RiderRides(p) \/ RiderHandlesValue(p) \/ RiderHandlesDone(p)
  BY <1>1, <1>c DEF RiderIdle, RiderRides, RiderHandlesValue, RiderHandlesDone, BlockRun
<1>2. CASE RiderObserves(p)
  BY <1>2, <1>b, <1>c DEF RiderObserves
<1>3. CASE RiderReconnects(p)
  BY <1>3, <1>b, <1>c DEF RiderReconnects
<1>4. CASE RiderServed(p)
  BY <1>4, <1>b DEF RiderServed
<1>5. CASE RiderTaken(p)
  BY <1>5, <1>b, <1>c DEF RiderTaken
<1>6. CASE RiderCutOff(p)
  BY <1>6, <1>a DEF RiderCutOff, Remembered
<1>7. CASE RiderRestarts(p)
  BY <1>7 DEF RiderRestarts, Remembered, Real
<1>8. CASE RiderInformed(p)
  <2>1. /\ inbox[p] # <<>> /\ inbox'[p] = Tail(inbox[p])
        /\ cache'[p] = Head(inbox[p]).data /\ trips'[p] = trips[p]
    BY <1>8 DEF RiderInformed
  <2>2. /\ 1 \in DOMAIN inbox[p] /\ Head(inbox[p]) = inbox[p][1]
        /\ \A i \in DOMAIN inbox'[p] : i + 1 \in DOMAIN inbox[p] /\ inbox'[p][i] = inbox[p][i + 1]
    BY <1>0, <2>1, QueueRuns
  <2>3. Tail(inbox[p]) \in Seq(Message)
    BY <1>0, <2>1, HeadTailProperties
  <2>4. \A i \in DOMAIN inbox'[p] : i \in Nat /\ 1 < i + 1
    BY <2>1, <2>3, LenProperties
  <2>5. Real(cache'[p]) => Real(trips'[p]) /\ \A i \in DOMAIN inbox'[p] : Real(inbox'[p][i].data)
    BY <2>1, <2>2, <2>4 DEF Remembered
  <2>6. ASSUME NEW i \in DOMAIN inbox'[p], Real(inbox'[p][i].data)
        PROVE  Real(trips'[p]) /\ \A j \in DOMAIN inbox'[p] : i < j => Real(inbox'[p][j].data)
    <3>1. i + 1 \in DOMAIN inbox[p] /\ Real(inbox[p][i + 1].data)
      BY <2>2, <2>6
    <3>2. Real(trips[p]) /\ \A j \in DOMAIN inbox[p] : i + 1 < j => Real(inbox[p][j].data)
      BY <3>1 DEF Remembered
    <3>3. \A j \in DOMAIN inbox'[p] : i < j => i + 1 < j + 1
      BY <2>4
    <3>. QED
      BY <2>1, <2>2, <3>2, <3>3
  <2>. QED
    BY <2>5, <2>6 DEF Remembered
<1>. QED
  BY <1>1, <1>2, <1>3, <1>4, <1>5, <1>6, <1>7, <1>8 DEF RiderMoves

LEMMA AnsweredKept ==
    ASSUME TypeInv, OffersReal', NEW p \in Passengers, Answered(p), RiderMoves(p)
    PROVE  Answered(p)'
<1>0. /\ inbox[p] \in Seq(Message) /\ mainQ[p] \in Seq(Block) /\ outbox[p] \in Seq(Put)
      /\ regs[p] \in Nat /\ cache[p] \in Trip
  BY RiderTypes
<1>a. /\ trips'[p] = NoTrip => trips[p] = NoTrip
      /\ trips'[p] = NoTrip \/ trips'[p].state \in {"requested", "accepted"}
  BY RecordKept DEF Answered
<1>b. ASSUME NEW a, NEW t,
             inbox'[p] = Append(inbox[p], [ack |-> a, data |-> t]), a \in {"none", "ok", "err"},
             t \in Trip, a = "ok" => trips'[p] # NoTrip
      PROVE  \A i \in DOMAIN inbox'[p] : inbox'[p][i].ack = "ok" => trips'[p] # NoTrip
  <2>. DEFINE m == [ack |-> a, data |-> t]
  <2>1. m \in Message /\ m.ack = a
    BY <1>b DEF Message
  <2>. HIDE DEF m
  <2>2. \A i \in DOMAIN inbox'[p] : \/ i \in DOMAIN inbox[p] /\ inbox'[p][i] = inbox[p][i]
                                    \/ inbox'[p][i] = m
    BY <1>0, <1>b, <2>1, QueueAppends DEF m
  <2>. QED
    BY <1>a, <1>b, <2>1, <2>2 DEF Answered
<1>c. ASSUME inbox'[p] \in {inbox[p], <<>>}
      PROVE  \A i \in DOMAIN inbox'[p] : inbox'[p][i].ack = "ok" => trips'[p] # NoTrip
  BY <1>a, <1>c DEF Answered
<1>. USE DEF ScreenStill, LinkStill, PutsStill
<1>1. \A i \in DOMAIN inbox'[p] : inbox'[p][i].ack = "ok" => trips'[p] # NoTrip
  <2>0. trips[p] \in Trip
    BY RiderTypes
  <2>1. CASE RiderIdle(p) \/ RiderRides(p) \/ RiderHandlesValue(p) \/ RiderHandlesDone(p)
    BY <2>1, <1>c DEF RiderIdle, RiderRides, RiderHandlesValue, RiderHandlesDone, BlockRun
  <2>2. CASE RiderCutOff(p) \/ RiderRestarts(p)
    BY <2>2, <1>c DEF RiderCutOff, RiderRestarts
  <2>3. CASE RiderObserves(p)
    BY <2>0, <2>3, <1>b, <1>c DEF RiderObserves
  <2>4. CASE RiderReconnects(p)
    BY <2>0, <2>4, <1>b, <1>c DEF RiderReconnects
  <2>5. CASE RiderServed(p)
    <3>1. CASE inbox'[p] = Append(inbox[p], [ack |-> "err", data |-> trips[p]])
      BY <2>0, <3>1, <1>b
    <3>2. CASE \E place \in Places :
                 /\ trips'[p] = [place |-> place, state |-> "requested", driver |-> trips[p].driver]
                 /\ inbox'[p] = Append(inbox[p], [ack |-> "ok", data |-> trips'[p]])
      <4>1. PICK place \in Places :
                   /\ trips'[p] = [place |-> place, state |-> "requested", driver |-> trips[p].driver]
                   /\ inbox'[p] = Append(inbox[p], [ack |-> "ok", data |-> trips'[p]])
        BY <3>2
      <4>2. trips'[p] # NoTrip
        BY <4>1 DEF NoTrip
      <4>3. trips'[p] \in Trip
        BY <2>0, <4>1 DEF Trip, TripState
      <4>. QED
        BY <4>1, <4>2, <4>3, <1>b
    <3>. QED
      BY <2>5, <3>1, <3>2 DEF RiderServed
  <2>6. CASE RiderTaken(p)
    <3>1. trips'[p] \in Trip
      BY <2>0, <2>6 DEF RiderTaken, Trip, TripState
    <3>. QED
      BY <2>6, <3>1, <1>b, <1>c DEF RiderTaken
  <2>7. CASE RiderInformed(p)
    <3>1. inbox[p] # <<>> /\ inbox'[p] = Tail(inbox[p]) /\ trips'[p] = trips[p]
      BY <2>7 DEF RiderInformed
    <3>2. \A i \in DOMAIN inbox'[p] : i + 1 \in DOMAIN inbox[p] /\ inbox'[p][i] = inbox[p][i + 1]
      BY <1>0, <3>1, QueueRuns
    <3>. QED
      BY <3>1, <3>2 DEF Answered
  <2>. QED
    BY <2>1, <2>2, <2>3, <2>4, <2>5, <2>6, <2>7 DEF RiderMoves
<1>2. ASSUME loading'[p], trips'[p] = NoTrip
      PROVE  uploadFailed'[p] \/ outbox'[p] # <<>> \/ Refused(mainQ'[p])
  <2>0. loading[p] => uploadFailed[p] \/ outbox[p] # <<>> \/ Refused(mainQ[p])
    BY <1>2, <1>a DEF Answered
  <2>1. CASE RiderIdle(p) \/ RiderCutOff(p) \/ RiderReconnects(p) \/ RiderServed(p) \/ RiderTaken(p)
    BY <1>2, <2>0, <2>1 DEF RiderIdle, RiderCutOff, RiderReconnects, RiderServed, RiderTaken
  <2>2. CASE RiderObserves(p)
    <3>1. Refused(mainQ[p]) => Refused(mainQ'[p])
      <4>1. Event(p, View(cache[p], outbox[p])) \in Block
        BY <1>0, ViewType, RecordTypes
      <4>2. mainQ'[p] = mainQ[p] \/ mainQ'[p] = Append(mainQ[p], Event(p, View(cache[p], outbox[p])))
        BY <2>2 DEF RiderObserves
      <4>. QED
        BY <1>0, <4>1, <4>2, QueueAppends DEF Refused
    <3>. QED
      BY <1>2, <2>0, <2>2, <3>1 DEF RiderObserves
  <2>3. CASE RiderRides(p)
    <3>1. PICK put \in RequestPut(p) : outbox'[p] = Append(outbox[p], put)
      BY <2>3 DEF RiderRides
    <3>2. Len(outbox'[p]) = Len(outbox[p]) + 1 /\ Len(outbox[p]) \in Nat /\ outbox'[p] \in Seq(Put)
      BY <1>0, <3>1, AppendProperties, LenProperties DEF RequestPut
    <3>. QED
      BY <3>2, EmptySeq
  <2>4. CASE RiderHandlesValue(p)
    <3>1. /\ mainQ[p] # <<>> /\ mainQ'[p] = Tail(mainQ[p]) /\ Head(mainQ[p]).kind = "event"
          /\ outbox'[p] = outbox[p] /\ uploadFailed'[p] = uploadFailed[p]
          /\ loading[p]
      BY <1>2, <2>4 DEF RiderHandlesValue, BlockRun
    <3>2. Refused(mainQ[p]) => Refused(mainQ'[p])
      BY <1>0, <3>1, TailKeeps
    <3>. QED
      BY <2>0, <3>1, <3>2
  <2>5. CASE RiderHandlesDone(p)
    <3>1. /\ mainQ[p] # <<>> /\ mainQ'[p] = Tail(mainQ[p]) /\ outbox'[p] = outbox[p] /\ loading[p]
          /\ uploadFailed'[p] = IF Head(mainQ[p]).ok THEN uploadFailed[p] ELSE TRUE
      BY <1>2, <2>5 DEF RiderHandlesDone, BlockRun
    <3>2. Refused(mainQ[p]) => Refused(mainQ'[p]) \/ ~Head(mainQ[p]).ok
      BY <1>0, <3>1, TailKeeps
    <3>. QED
      BY <2>0, <3>1, <3>2
  <2>6. CASE RiderRestarts(p)
    BY <1>2, <2>6 DEF RiderRestarts
  <2>7. CASE RiderInformed(p)
    <3>. DEFINE m == Head(inbox[p])
                after == View(m.data, outbox'[p])
                queue == RaiseValue(mainQ[p], p, View(cache[p], outbox[p]), after)
    <3>1. /\ trips'[p] = trips[p] /\ uploadFailed'[p] = uploadFailed[p] /\ loading[p]
          /\ inbox[p] # <<>>
          /\ \/ m.ack = "none" /\ outbox'[p] = outbox[p] /\ mainQ'[p] = queue
             \/ /\ m.ack # "none" /\ outbox[p] # <<>> /\ outbox'[p] = Tail(outbox[p])
                /\ mainQ'[p] = Append(queue, Done(Head(outbox[p]), m.ack = "ok"))
      BY <1>2, <2>7 DEF RiderInformed
    <3>2. m \in Message /\ m = inbox[p][1] /\ 1 \in DOMAIN inbox[p]
      BY <1>0, <3>1, HeadTailProperties, QueueRuns
    <3>3. m.ack # "ok"
      BY <1>2, <3>1, <3>2 DEF Answered
    <3>4. after \in Trip /\ (outbox[p] # <<>> => Head(outbox[p]) \in Put)
      BY <1>0, <3>1, <3>2, HeadTailProperties, ViewType DEF Message
    <3>5. queue \in Seq(Block) /\ Grows(mainQ[p], queue, after)
      BY <1>0, <3>4, RaiseType, GrowsRaised
    <3>. HIDE DEF queue, after
    <3>6. Refused(mainQ[p]) => Refused(queue)
      BY <1>0, <3>5, GrowsKeeps
    <3>7. CASE m.ack = "none"
      BY <2>0, <3>1, <3>6, <3>7
    <3>8. CASE m.ack # "none"
      <4>. DEFINE b == Done(Head(outbox[p]), m.ack = "ok")
      <4>1. b \in Block /\ b.kind = "done" /\ ~b.ok
        BY <3>1, <3>3, <3>4, <3>8, RecordTypes DEF Done
      <4>. HIDE DEF b
      <4>2. mainQ'[p] = Append(queue, b)
        BY <3>1, <3>8 DEF b
      <4>3. Len(queue) + 1 \in DOMAIN mainQ'[p] /\ mainQ'[p][Len(queue) + 1] = b
        BY <3>5, <4>1, <4>2, QueueAppends
      <4>. QED
        BY <4>1, <4>3 DEF Refused
    <3>. QED
      BY <3>7, <3>8
  <2>. QED
    BY <2>1, <2>2, <2>3, <2>4, <2>5, <2>6, <2>7 DEF RiderMoves
<1>. QED
  BY <1>1, <1>2, <1>a DEF Answered

-----------------------------------------------------------------------------
\* A queue that grew with events reporting u: the screen's part of WaitInv.
LEMMA ChronicleGrows ==
    ASSUME NEW p \in Passengers, Chronicle(p), NEW u,
           mainQ[p] \in Seq(Block), mainQ'[p] \in Seq(Block), trip'[p] = trip[p],
           Grows(mainQ[p], mainQ'[p], u),
           Real(cache[p]) => Real(cache'[p]) /\ u # NoTrip,
           Accepted(u) => Real(cache'[p])
    PROVE  Chronicle(p)'
<1>1. /\ Clean(mainQ[p]) /\ u # NoTrip => Clean(mainQ'[p])
      /\ TellsAcceptance(mainQ'[p]) => TellsAcceptance(mainQ[p]) \/ Accepted(u)
      /\ Ordered(mainQ[p]) /\ (TellsAcceptance(mainQ[p]) => u # NoTrip) => Ordered(mainQ'[p])
  BY GrowsKeeps
<1>2. Accepted(trip'[p]) => Real(cache'[p]) /\ Clean(mainQ'[p])
  BY <1>1 DEF Chronicle
<1>3. TellsAcceptance(mainQ'[p]) => Real(cache'[p])
  BY <1>1 DEF Chronicle
<1>4. Ordered(mainQ'[p])
  BY <1>1 DEF Chronicle
<1>5. Chronicle(p)' <=> /\ Accepted(trip'[p]) => Real(cache'[p]) /\ Clean(mainQ'[p])
                        /\ TellsAcceptance(mainQ'[p]) => Real(cache'[p])
                        /\ Ordered(mainQ'[p])
  BY DEF Chronicle, Accepted, Real, Clean, TellsAcceptance, Ordered, Events
<1>. QED
  BY <1>2, <1>3, <1>4, <1>5

LEMMA ChronicleFrame ==
    ASSUME NEW p, Chronicle(p), mainQ'[p] = mainQ[p], trip'[p] = trip[p], cache'[p] = cache[p]
    PROVE  Chronicle(p)'
BY DEF Chronicle

LEMMA ChronicleKept ==
    ASSUME TypeInv, TypeInv', OffersReal, OffersReal', NEW p \in Passengers,
           Chronicle(p), Remembered(p), RiderMoves(p)
    PROVE  Chronicle(p)'
<1>0. /\ inbox[p] \in Seq(Message) /\ mainQ[p] \in Seq(Block) /\ outbox[p] \in Seq(RequestPut(p))
      /\ regs[p] \in Nat /\ cache[p] \in Trip /\ outbox[p] \in Seq(Put)
  BY RiderTypes DEF OffersReal, RiderReal
<1>a. /\ mainQ'[p] \in Seq(Block) /\ cache'[p] \in Trip
      /\ outbox'[p] \in Seq(RequestPut(p)) /\ View(cache'[p], outbox'[p]) \in Trip
  <2>1. cache'[p] \in Trip /\ outbox'[p] \in Seq(Put) /\ mainQ'[p] \in Seq(Block)
    BY DEF TypeInv, DBInv, DBTypeOK, Clients
  <2>2. RequestPut(p)' = RequestPut(p)
    BY DEF RequestPut
  <2>. QED
    BY <2>1, <2>2, ViewType DEF OffersReal, RiderReal
<1>b. /\ Real(cache'[p]) => View(cache'[p], outbox'[p]) # NoTrip
      /\ Accepted(View(cache'[p], outbox'[p])) => Real(cache'[p])
  BY <1>a, ViewReal
<1>. DEFINE after == View(cache'[p], outbox'[p])
<1>. HIDE DEF after
<1>c. /\ after \in Trip /\ (Real(cache'[p]) => after # NoTrip)
      /\ Accepted(after) => Real(cache'[p])
  BY <1>a, <1>b DEF after
<1>. USE DEF ScreenStill, LinkStill, PutsStill
<1>1. CASE RiderIdle(p) \/ RiderCutOff(p) \/ RiderReconnects(p) \/ RiderServed(p) \/ RiderTaken(p)
  <2>1. mainQ'[p] = mainQ[p] /\ trip'[p] = trip[p] /\ cache'[p] = cache[p]
    BY <1>1 DEF RiderIdle, RiderCutOff, RiderReconnects, RiderServed, RiderTaken
  <2>. QED
    BY <2>1, ChronicleFrame
<1>2. CASE RiderObserves(p)
  <2>1. /\ cache'[p] = cache[p] /\ outbox'[p] = outbox[p] /\ trip'[p] = trip[p]
        /\ mainQ'[p] = mainQ[p] \/ mainQ'[p] = Append(mainQ[p], Event(p, after))
    BY <1>2 DEF RiderObserves, after
  <2>2. Event(p, after) \in Block /\ Event(p, after).trip = after
    BY <1>c, RecordTypes DEF Event
  <2>3. Grows(mainQ[p], mainQ'[p], after)
    BY <1>0, <2>1, <2>2, GrowsEvent, GrowsStill
  <2>. QED
    BY <1>0, <1>a, <1>c, <2>1, <2>3, ChronicleGrows
<1>3. CASE RiderRides(p)
  <2>1. /\ cache'[p] = cache[p] /\ trip'[p] = trip[p]
        /\ mainQ'[p] = RaiseValue(mainQ[p], p, View(cache[p], outbox[p]), after)
    BY <1>3 DEF RiderRides, after
  <2>2. Grows(mainQ[p], mainQ'[p], after)
    BY <1>0, <1>c, <2>1, GrowsRaised
  <2>. QED
    BY <1>0, <1>a, <1>c, <2>1, <2>2, ChronicleGrows
<1>4. CASE RiderHandlesValue(p) \/ RiderHandlesDone(p)
  <2>. DEFINE h == Head(mainQ[p])
  <2>1. /\ mainQ[p] # <<>> /\ mainQ'[p] = Tail(mainQ[p]) /\ cache'[p] = cache[p]
        /\ \/ trip'[p] = trip[p]
           \/ h.kind = "event" /\ trip'[p] = h.trip
    BY <1>4 DEF RiderHandlesValue, RiderHandlesDone, BlockRun
  <2>2. /\ Clean(mainQ[p]) => Clean(mainQ'[p])
        /\ TellsAcceptance(mainQ'[p]) => TellsAcceptance(mainQ[p])
        /\ Ordered(mainQ[p]) => Ordered(mainQ'[p])
        /\ Ordered(mainQ[p]) /\ h.kind = "event" /\ Accepted(h.trip) =>
             TellsAcceptance(mainQ[p]) /\ Clean(mainQ'[p])
    BY <1>0, <2>1, TailKeeps
  <2>3. Accepted(trip'[p]) => Real(cache'[p]) /\ Clean(mainQ'[p])
    BY <2>1, <2>2 DEF Chronicle
  <2>4. (TellsAcceptance(mainQ'[p]) => Real(cache'[p])) /\ Ordered(mainQ'[p])
    BY <2>1, <2>2 DEF Chronicle
  <2>5. Chronicle(p)' <=> /\ Accepted(trip'[p]) => Real(cache'[p]) /\ Clean(mainQ'[p])
                          /\ TellsAcceptance(mainQ'[p]) => Real(cache'[p])
                          /\ Ordered(mainQ'[p])
    BY DEF Chronicle, Accepted, Real, Clean, TellsAcceptance, Ordered, Events
  <2>. QED
    BY <2>3, <2>4, <2>5
<1>5. CASE RiderRestarts(p)
  BY <1>5
  DEF RiderRestarts, Chronicle, Accepted, NoTrip, TellsAcceptance, Ordered, Events
<1>6. CASE RiderInformed(p)
  <2>. DEFINE queue == RaiseValue(mainQ[p], p, View(cache[p], outbox[p]), after)
  <2>1. /\ trip'[p] = trip[p] /\ cache'[p] = Head(inbox[p]).data /\ inbox[p] # <<>>
        /\ \/ mainQ'[p] = queue
           \/ /\ outbox[p] # <<>>
              /\ mainQ'[p] = Append(queue, Done(Head(outbox[p]), Head(inbox[p]).ack = "ok"))
    BY <1>6 DEF RiderInformed, after
  <2>2. Head(inbox[p]) = inbox[p][1] /\ 1 \in DOMAIN inbox[p]
    BY <1>0, <2>1, QueueRuns
  <2>3. Real(cache[p]) => Real(cache'[p])
    BY <2>1, <2>2 DEF Remembered
  <2>4. queue \in Seq(Block) /\ Grows(mainQ[p], queue, after)
    BY <1>0, <1>c, RaiseType, GrowsRaised
  <2>. HIDE DEF queue
  <2>5. Grows(mainQ[p], mainQ'[p], after)
    <3>1. CASE outbox[p] # <<>> /\ mainQ'[p] = Append(queue, Done(Head(outbox[p]), Head(inbox[p]).ack = "ok"))
      <4>. DEFINE b == Done(Head(outbox[p]), Head(inbox[p]).ack = "ok")
      <4>1. Head(outbox[p]) \in Put
        BY <1>0, <3>1, HeadTailProperties
      <4>2. b \in Block /\ b.kind = "done"
        BY <4>1, RecordTypes DEF Done
      <4>. HIDE DEF b
      <4>3. mainQ'[p] = Append(queue, b)
        BY <3>1 DEF b
      <4>. QED
        BY <2>4, <4>2, <4>3, GrowsDone
    <3>. QED
      BY <2>1, <2>4, <3>1
  <2>. QED
    BY <1>0, <1>a, <1>c, <2>1, <2>3, <2>5, ChronicleGrows
<1>. QED
  BY <1>1, <1>2, <1>3, <1>4, <1>5, <1>6 DEF RiderMoves

LEMMA WaitsKept ==
    ASSUME TypeInv, TypeInv', OffersReal', NEW p \in Passengers,
           Started(p), Told(p), Chronicle(p), Waits(p), RiderMoves(p)
    PROVE  Waits(p)'
<1>0. /\ inbox[p] \in Seq(Message) /\ mainQ[p] \in Seq(Block) /\ outbox[p] \in Seq(Put)
      /\ regs[p] \in Nat /\ cache[p] \in Trip
  BY RiderTypes
<1>a. /\ cache'[p] \in Trip /\ outbox'[p] \in Seq(RequestPut(p)) /\ View(cache'[p], outbox'[p]) \in Trip
      /\ mainQ'[p] \in Seq(Block)
  <2>1. cache'[p] \in Trip /\ outbox'[p] \in Seq(Put) /\ mainQ'[p] \in Seq(Block)
    BY DEF TypeInv, DBInv, DBTypeOK, Clients
  <2>2. RequestPut(p)' = RequestPut(p)
    BY DEF RequestPut
  <2>. QED
    BY <2>1, <2>2, ViewType DEF OffersReal, RiderReal
<1>. SUFFICES ASSUME loading'[p], Events(mainQ'[p]) = {}, Accepted(trip'[p])
              PROVE  FALSE
  BY DEF Waits
<1>b. ~(loading[p] /\ Events(mainQ[p]) = {} /\ Accepted(trip[p]))
  BY DEF Waits
<1>. DEFINE after == View(cache'[p], outbox'[p])
<1>. HIDE DEF after
<1>. USE DEF ScreenStill, LinkStill, PutsStill
<1>1. CASE RiderIdle(p) \/ RiderCutOff(p) \/ RiderReconnects(p) \/ RiderServed(p) \/ RiderTaken(p)
  <2>1. mainQ'[p] = mainQ[p] /\ trip'[p] = trip[p] /\ loading[p]
    BY <1>1 DEF RiderIdle, RiderCutOff, RiderReconnects, RiderServed, RiderTaken
  <2>. QED
    BY <1>b, <2>1
<1>2. CASE RiderObserves(p)
  <2>1. /\ trip'[p] = trip[p] /\ loading[p]
        /\ mainQ'[p] = mainQ[p] \/ mainQ'[p] = Append(mainQ[p], Event(p, after))
    BY <1>2 DEF RiderObserves, after
  <2>2. Event(p, after) \in Block
    BY <1>a, RecordTypes DEF after
  <2>3. Grows(mainQ[p], mainQ'[p], Event(p, after).trip)
    BY <1>0, <2>1, <2>2, GrowsEvent, GrowsStill
  <2>4. Events(mainQ[p]) = {}
    BY <1>0, <1>a, <2>3, GrowsKeeps
  <2>. QED
    BY <1>b, <2>1, <2>4
<1>3. CASE RiderRides(p)
  <2>1. /\ regs[p] # 0 /\ cache'[p] = cache[p] /\ trip'[p] = trip[p]
        /\ mainQ'[p] = RaiseValue(mainQ[p], p, View(cache[p], outbox[p]), after)
        /\ \E put \in RequestPut(p) : outbox'[p] = Append(outbox[p], put)
    BY <1>3 DEF RiderRides, Started, after
  <2>2. Real(cache[p])
    BY <2>1 DEF Chronicle
  <2>3. after.state = "requested"
    <3>1. PICK put \in RequestPut(p) : outbox'[p] = Append(outbox[p], put)
      BY <2>1
    <3>2. put \in Put /\ put.write.state = "requested"
      BY <3>1 DEF RequestPut
    <3>3. /\ outbox'[p] \in Seq(Put) /\ Len(outbox'[p]) = Len(outbox[p]) + 1
          /\ outbox'[p][Len(outbox[p]) + 1] = put /\ Len(outbox[p]) \in Nat
      BY <1>0, <3>1, <3>2, AppendProperties, LenProperties
    <3>4. outbox'[p] # <<>> /\ outbox'[p][Len(outbox'[p])] = put
      BY <3>3, EmptySeq
    <3>5. cache'[p] # Unknown
      BY <2>1, <2>2 DEF Real
    <3>. QED
      BY <3>2, <3>4, <3>5 DEF after, View, Merge
  <2>4. after # NoTrip /\ ~Accepted(after)
    BY <2>3 DEF NoTrip, Accepted
  <2>5. cache[p] # Unknown
    BY <2>2 DEF Real
  <2>6. View(cache[p], outbox[p]) = after => Tells(mainQ[p], trip[p], after)
    BY <2>4, <2>5 DEF Told
  <2>7. Tells(mainQ'[p], trip[p], after)
    BY <1>0, <1>a, <2>1, <2>6, TellsRaised DEF after
  <2>. QED
    BY <2>1, <2>4, <2>7 DEF Tells
<1>4. CASE RiderHandlesValue(p)
  <2>1. /\ mainQ[p] # <<>> /\ mainQ'[p] = Tail(mainQ[p]) /\ Head(mainQ[p]).kind = "event"
        /\ trip'[p] = IF Head(mainQ[p]).trip = NoTrip THEN trip[p] ELSE Head(mainQ[p]).trip
        /\ ~Accepted(Head(mainQ[p]).trip)
    BY <1>4 DEF RiderHandlesValue, BlockRun, Accepted
  <2>2. Head(mainQ[p]).trip = NoTrip /\ Accepted(trip[p])
    BY <2>1
  <2>3. Clean(mainQ[p])
    BY <2>2 DEF Chronicle
  <2>. QED
    BY <1>0, <2>1, <2>2, <2>3, TailKeeps
<1>5. CASE RiderHandlesDone(p)
  <2>1. /\ mainQ[p] # <<>> /\ mainQ'[p] = Tail(mainQ[p]) /\ Head(mainQ[p]).kind = "done"
        /\ trip'[p] = trip[p] /\ loading[p]
    BY <1>5 DEF RiderHandlesDone, BlockRun
  <2>2. Events(mainQ[p]) = {}
    BY <1>0, <2>1, TailKeeps
  <2>. QED
    BY <1>b, <2>1, <2>2
<1>6. CASE RiderRestarts(p)
  BY <1>6 DEF RiderRestarts
<1>7. CASE RiderInformed(p)
  <2>. DEFINE queue == RaiseValue(mainQ[p], p, View(cache[p], outbox[p]), after)
  <2>1. /\ trip'[p] = trip[p] /\ loading[p]
        /\ \/ mainQ'[p] = queue
           \/ /\ outbox[p] # <<>>
              /\ mainQ'[p] = Append(queue, Done(Head(outbox[p]), Head(inbox[p]).ack = "ok"))
    BY <1>7 DEF RiderInformed, after
  <2>2. queue \in Seq(Block) /\ Grows(mainQ[p], queue, after)
    BY <1>0, <1>a, RaiseType, GrowsRaised DEF after
  <2>. HIDE DEF queue
  <2>3. Events(queue) = {}
    <3>1. CASE outbox[p] # <<>> /\ mainQ'[p] = Append(queue, Done(Head(outbox[p]), Head(inbox[p]).ack = "ok"))
      <4>. DEFINE b == Done(Head(outbox[p]), Head(inbox[p]).ack = "ok")
      <4>1. Head(outbox[p]) \in Put
        BY <1>0, <3>1, HeadTailProperties
      <4>2. b \in Block /\ b.kind = "done"
        BY <4>1, RecordTypes DEF Done
      <4>. HIDE DEF b
      <4>3. mainQ'[p] = Append(queue, b)
        BY <3>1 DEF b
      <4>. QED
        BY <2>2, <4>2, <4>3, EventsDone
    <3>. QED
      BY <2>1, <3>1
  <2>4. Events(mainQ[p]) = {}
    BY <1>0, <2>2, <2>3, GrowsKeeps
  <2>. QED
    BY <1>b, <2>1, <2>4
<1>. QED
  BY <1>1, <1>2, <1>3, <1>4, <1>5, <1>6, <1>7 DEF RiderMoves

LEMMA SpecWait == Spec => [](\A p \in Passengers : WaitInv(p))
<1>1. Init => \A p \in Passengers : WaitInv(p)
  <2>. SUFFICES ASSUME Init, NEW p \in Passengers PROVE WaitInv(p)
    OBVIOUS
  <2>1. /\ trip[p] = NoTrip /\ trips[p] = NoTrip /\ cache[p] = Unknown /\ ~loading[p]
        /\ mainQ[p] = <<>> /\ inbox[p] = <<>>
    BY DEF Init, DBInit, Clients
  <2>2. Chronicle(p)
    BY <2>1 DEF Chronicle, Accepted, NoTrip, TellsAcceptance, Ordered, Events
  <2>. QED
    BY <2>1, <2>2 DEF WaitInv, Remembered, Waits, Answered, Real
<1>2. TypeInv /\ OffersReal /\ (\A p \in Passengers : ViewInv(p)) /\ (\A p \in Passengers : WaitInv(p))
        /\ [Next]_vars
        => (\A p \in Passengers : WaitInv(p))'
  BY NextType, NextOffers, AnyRiderMoves, ChronicleKept, RememberedKept, WaitsKept, AnsweredKept
  DEF ViewInv, WaitInv
<1>. QED
  BY <1>1, <1>2, SpecType, SpecOffers, SpecView, PTL DEF Spec

\* A rider with nothing on its way never waits behind the loading view for a
\* trip that a driver has taken: its record is still a request, or its upload
\* was refused.
THEOREM WaitingStaysReal == Spec => []WaitingIsReal
<1>1. ViewConverges /\ (\A p \in Passengers : WaitInv(p)) => WaitingIsReal
  <2>. SUFFICES ASSUME ViewConverges, \A p \in Passengers : WaitInv(p),
                       NEW p \in Passengers, Quiet(p), loading[p]
                PROVE  \/ trips[p].state = "requested"
                       \/ uploadFailed[p] /\ trips[p].state # "accepted"
    BY DEF WaitingIsReal
  <2>1. Events(mainQ[p]) = {} /\ ~Refused(mainQ[p]) /\ outbox[p] = <<>>
    BY DEF Quiet, Events, Refused
  <2>2. CASE trips[p] = NoTrip
    <3>1. uploadFailed[p]
      BY <2>1, <2>2 DEF WaitInv, Answered
    <3>. QED
      BY <2>2, <3>1 DEF NoTrip
  <2>3. CASE trips[p] # NoTrip
    <3>1. trip[p] = trips[p]
      BY <2>3 DEF ViewConverges
    <3>2. ~Accepted(trip[p])
      BY <2>1 DEF WaitInv, Waits
    <3>3. trips[p].state \in {"requested", "accepted"}
      BY <2>3 DEF WaitInv, Answered
    <3>. QED
      BY <3>1, <3>2, <3>3 DEF Accepted
  <2>. QED
    BY <2>2, <2>3
<1>. QED
  BY <1>1, ViewsConverge, SpecWait, PTL
=============================================================================
