----------------------------- MODULE RealtimeDB -----------------------------
(***************************************************************************)
(* The Firebase Realtime Database as the app uses it: the trips/ subtree   *)
(* on the server, and for every running app the client library's state.    *)
(*                                                                         *)
(* One app is one client.  Its library runs on a queue of its own: a write *)
(* made by the app joins outstandingPuts and the pending write tree at     *)
(* once and is answered later; server messages arrive in order on one      *)
(* connection; every event and every completion block is dispatched to the *)
(* main queue, where the app's handlers run one at a time.  A connection   *)
(* that breaks is retried for ever, and every put that was not answered is *)
(* sent again, whether or not the server had already applied it.           *)
(***************************************************************************)
EXTENDS Naturals, Sequences, FiniteSets

CONSTANTS
    Passengers,     \* rider accounts; also the keys of trips/
    Drivers,        \* driver accounts
    Places,         \* coordinates a trip may carry
    NoPlace,        \* no coordinates in the dictionary
    NoDriver,       \* no driverUid in the dictionary (Trip.init reads "")
    Denied,         \* clients whose writes the server's rules may refuse
    Flaky,          \* clients whose connection may break and process die
    MaxDrops,       \* bound: how often, per client
    Eager           \* clients whose process calls observe twice: a driver's sign-up
                    \* does, and so does a second tap on Log In before the first
                    \* is answered

Clients == Passengers \cup Drivers

ASSUME ClientsAssumption ==
    /\ Passengers \cap Drivers = {}
    /\ IsFiniteSet(Passengers)
ASSUME PlacesAssumption == NoPlace \notin Places
ASSUME NoDriverAssumption == NoDriver \notin Drivers
ASSUME DeniedAssumption == Denied \subseteq Clients
ASSUME DropsAssumption == Flaky \subseteq Clients /\ MaxDrops \in Nat
ASSUME EagerAssumption == Eager \subseteq Clients

-----------------------------------------------------------------------------
(* Trips and writes.                                                       *)

TripState == {"requested", "accepted", "inProgress", "completed"}

\* A child of trips/ as Trip.init reads it.  State "none" is a missing child,
\* "unknown" a location the client has no server data for.
Trip == [place : Places \cup {NoPlace},
         state : TripState \cup {"none", "unknown"},
         driver : Drivers \cup {NoDriver}]

NoTrip == [place |-> NoPlace, state |-> "none", driver |-> NoDriver]
Unknown == [place |-> NoPlace, state |-> "unknown", driver |-> NoDriver]

\* The dictionary of an updateChildValues call on trips/<path>; NoPlace and
\* NoDriver stand for keys the dictionary does not have.
Write == [path : Passengers,
          place : Places \cup {NoPlace},
          state : TripState,
          driver : Drivers \cup {NoDriver}]

\* Mutant: setValue, which replaces the whole child.
MergeReplaces(t, w) == [place |-> w.place, state |-> w.state, driver |-> w.driver]

\* updateChildValues replaces the children it names and keeps the others.
Merge(t, w) ==
    [place |-> IF w.place = NoPlace THEN t.place ELSE w.place,
     state |-> w.state,
     driver |-> IF w.driver = NoDriver THEN t.driver ELSE w.driver]

\* An outstanding put: the write and the Trip its completion block captured.
Put == [write : Write, trip : Trip]

\* A server message: fresh data for the observed location, the answer to the
\* oldest unanswered put, or both (data for a put precedes its answer).
Message == [ack : {"none", "ok", "err"}, data : Trip]

\* A block on the main queue: a data event, or a write's completion block.
Block == [kind : {"event", "done"}, ok : BOOLEAN, of : Passengers, trip : Trip]

Event(p, t) == [kind |-> "event", ok |-> TRUE, of |-> p, trip |-> t]
Done(put, ok) ==
    [kind |-> "done", ok |-> ok, of |-> put.write.path, trip |-> put.trip]

-----------------------------------------------------------------------------
VARIABLES
    trips,      \* server: the children of trips/
    online,     \* client: the connection is established
    regs,       \* client: registrations made by observe(.value) / (.childAdded)
    outbox,     \* client: outstandingPuts, oldest first
    sent,       \* how many of them the server processed on this connection
    inbox,      \* messages on their way from the server
    cache,      \* client: server snapshot of the location it observes by value
    heard,      \* driver: its view of trips/, NoTrip for a child not in it
    mainQ,      \* client: blocks dispatched to the main queue
    drops       \* lost connections and process deaths so far

dbVars == <<trips, online, regs, outbox, sent, inbox, cache, heard, mainQ, drops>>

DBTypeOK ==
    /\ trips \in [Passengers -> Trip]
    /\ online \in [Clients -> BOOLEAN]
    /\ regs \in [Clients -> Nat]
    /\ outbox \in [Clients -> Seq(Put)]
    /\ sent \in [Clients -> Nat]
    /\ inbox \in [Clients -> Seq(Message)]
    /\ cache \in [Clients -> Trip]
    /\ heard \in [Drivers -> [Passengers -> Trip]]
    /\ mainQ \in [Clients -> Seq(Block)]
    /\ drops \in [Clients -> 0 .. MaxDrops]

DBInit ==
    /\ trips = [p \in Passengers |-> NoTrip]
    /\ online = [c \in Clients |-> FALSE]
    /\ regs = [c \in Clients |-> 0]
    /\ outbox = [c \in Clients |-> <<>>]
    /\ sent = [c \in Clients |-> 0]
    /\ inbox = [c \in Clients |-> <<>>]
    /\ cache = [c \in Clients |-> Unknown]
    /\ heard = [d \in Drivers |-> [p \in Passengers |-> NoTrip]]
    /\ mainQ = [c \in Clients |-> <<>>]
    /\ drops = [c \in Clients |-> 0]

-----------------------------------------------------------------------------
(* The client library.                                                     *)

\* Bound: observe calls of one process.
MaxRegs(c) == IF c \in Eager THEN 2 ELSE 1

\* Mutant: pending writes are not shown to the client's own listener.
ViewUnshadowed(snapshot, puts) == snapshot

\* What a value listener sees: the server snapshot shadowed by the pending
\* writes.  A rider's writes all name the same keys, so the latest shadows
\* the earlier ones.  Without a server snapshot the view is incomplete.
View(snapshot, puts) ==
    IF snapshot = Unknown \/ puts = <<>>
    THEN snapshot
    ELSE Merge(snapshot, puts[Len(puts)].write)

\* Mutant: observeSingleEvent, which hears the first snapshot only.
RaiseValueOnce(queue, c, before, after) ==
    IF before = Unknown /\ after # before
    THEN queue \o [i \in 1 .. regs[c] |-> Event(c, after)]
    ELSE queue

\* A value event is raised, once per registration, when the view becomes
\* complete or changes.
RaiseValue(queue, c, before, after) ==
    IF after = before
    THEN queue
    ELSE queue \o [i \in 1 .. regs[c] |-> Event(c, after)]

\* Mutant: the write is queued when it is made and again when it is sent.
UpdateChildValuesTwice(c, put) ==
    /\ outbox' = [outbox EXCEPT ![c] = @ \o <<put, put>>]
    /\ mainQ' = [mainQ EXCEPT
                   ![c] = RaiseValue(@, c, View(cache[c], outbox[c]),
                                     View(cache[c], Append(outbox[c], put)))]
    /\ UNCHANGED <<trips, online, regs, sent, inbox, cache, heard, drops>>

\* updateChildValues: the write is pending, and visible to this client's own
\* listener, before the server hears of it.
UpdateChildValues(c, put) ==
    /\ outbox' = [outbox EXCEPT ![c] = Append(@, put)]
    /\ mainQ' = [mainQ EXCEPT
                   ![c] = RaiseValue(@, c, View(cache[c], outbox[c]),
                                     View(cache[c], Append(outbox[c], put)))]
    /\ UNCHANGED <<trips, online, regs, sent, inbox, cache, heard, drops>>

\* observe(.value) on the rider's own trip.  The first registration sends a
\* listen; a further one is told at once what the view shows, if it is
\* complete.
ObserveValue(p) ==
    /\ regs[p] < MaxRegs(p)
    /\ regs' = [regs EXCEPT ![p] = @ + 1]
    /\ inbox' = IF online[p] /\ regs[p] = 0
                THEN [inbox EXCEPT ![p] = Append(@, [ack |-> "none", data |-> trips[p]])]
                ELSE inbox
    /\ mainQ' = IF cache[p] # Unknown
                THEN [mainQ EXCEPT ![p] = Append(@, Event(p, View(cache[p], outbox[p])))]
                ELSE mainQ
    /\ UNCHANGED <<trips, online, outbox, sent, cache, heard, drops>>

\* The ways to list a set of children; key order is one of them.
Orders(S) == {s \in [1 .. Cardinality(S) -> S] :
                \A i, j \in 1 .. Cardinality(S) : s[i] = s[j] => i = j}

Known(d) == {p \in Passengers : heard[d][p] # NoTrip}

\* observe(.childAdded) on trips/.  A further registration is at once sent an
\* event for every child the view already holds.
ObserveChildAdded(d) ==
    /\ regs[d] < MaxRegs(d)
    /\ regs' = [regs EXCEPT ![d] = @ + 1]
    /\ \E s \in Orders(Known(d)) :
         mainQ' = [mainQ EXCEPT
                     ![d] = @ \o [i \in 1 .. Cardinality(Known(d)) |->
                                    Event(s[i], heard[d][s[i]])]]
    /\ UNCHANGED <<trips, online, outbox, sent, inbox, cache, heard, drops>>

\* A child of trips/ enters the driver's view: one event per registration,
\* and never again for this child, because children are never removed.
ChildAdded(d, p) ==
    /\ online[d] /\ regs[d] > 0
    /\ trips[p] # NoTrip
    /\ heard[d][p] = NoTrip
    /\ heard' = [heard EXCEPT ![d][p] = trips[p]]
    /\ mainQ' = [mainQ EXCEPT ![d] = @ \o [i \in 1 .. regs[d] |-> Event(p, trips[p])]]
    /\ UNCHANGED <<trips, online, regs, outbox, sent, inbox, cache, drops>>

\* A child already in the view changes: nobody registered for .childChanged,
\* so that only a further registration will read it.
ChildChanged(d, p) ==
    /\ online[d] /\ regs[d] \in 1 .. (MaxRegs(d) - 1)
    /\ heard[d][p] \notin {NoTrip, trips[p]}
    /\ heard' = [heard EXCEPT ![d][p] = trips[p]]
    /\ UNCHANGED <<trips, online, regs, outbox, sent, inbox, cache, mainQ, drops>>

\* A message arrives: data updates the snapshot, an answer retires the oldest
\* put; the view's change is raised before the completion block.
Deliver(c) ==
    /\ online[c]
    /\ inbox[c] # <<>>
    /\ LET m == Head(inbox[c])
           answered == m.ack # "none"
           puts == IF answered THEN Tail(outbox[c]) ELSE outbox[c]
           queue == RaiseValue(mainQ[c], c, View(cache[c], outbox[c]), View(m.data, puts))
       IN  /\ inbox' = [inbox EXCEPT ![c] = Tail(@)]
           /\ cache' = [cache EXCEPT ![c] = m.data]
           /\ outbox' = [outbox EXCEPT ![c] = puts]
           /\ sent' = [sent EXCEPT ![c] = IF answered THEN @ - 1 ELSE @]
           /\ mainQ' = [mainQ EXCEPT
                          ![c] = IF answered
                                 THEN Append(queue, Done(Head(outbox[c]), m.ack = "ok"))
                                 ELSE queue]
    /\ UNCHANGED <<trips, online, regs, heard, drops>>

\* The main queue runs its oldest block; what the block does to the app is
\* up to the handler.
RunBlock(c, kind) ==
    /\ mainQ[c] # <<>>
    /\ Head(mainQ[c]).kind = kind
    /\ mainQ' = [mainQ EXCEPT ![c] = Tail(@)]
    /\ UNCHANGED <<trips, online, regs, outbox, sent, inbox, cache, heard, drops>>

\* Mutant: the restored connection resumes after the puts sent on the old one.
ConnectionLostKeepsSent(c) ==
    /\ c \in Flaky /\ drops[c] < MaxDrops
    /\ drops' = [drops EXCEPT ![c] = @ + 1]
    /\ online' = [online EXCEPT ![c] = FALSE]
    /\ inbox' = [inbox EXCEPT ![c] = <<>>]
    /\ UNCHANGED sent

\* Answers on their way are lost, and no put counts as sent any more.
ConnectionLost(c) ==
    /\ c \in Flaky /\ drops[c] < MaxDrops
    /\ drops' = [drops EXCEPT ![c] = @ + 1]
    /\ online' = [online EXCEPT ![c] = FALSE]
    /\ inbox' = [inbox EXCEPT ![c] = <<>>]
    /\ sent' = [sent EXCEPT ![c] = 0]

\* Mutant: puts are cancelled with the connection, as transactions are.
DisconnectCancelsPuts(c) ==
    /\ online[c]
    /\ ConnectionLost(c)
    /\ outbox' = [outbox EXCEPT ![c] = <<>>]
    /\ UNCHANGED <<trips, regs, cache, heard, mainQ>>

\* onDisconnect: the puts stay outstanding.
Disconnect(c) ==
    /\ online[c]
    /\ ConnectionLost(c)
    /\ UNCHANGED <<trips, regs, outbox, cache, heard, mainQ>>

\* restoreState: listens are restored first, then every outstanding put.
Reconnect(c) ==
    /\ ~online[c]
    /\ online' = [online EXCEPT ![c] = TRUE]
    /\ inbox' = IF c \in Passengers /\ regs[c] > 0
                THEN [inbox EXCEPT ![c] = Append(@, [ack |-> "none", data |-> trips[c]])]
                ELSE inbox
    /\ UNCHANGED <<trips, regs, outbox, sent, cache, heard, mainQ, drops>>

\* The process dies and is started again.  Persistence is off: nothing of the
\* library's state survives.
Restart(c) ==
    /\ ConnectionLost(c)
    /\ regs' = [regs EXCEPT ![c] = 0]
    /\ outbox' = [outbox EXCEPT ![c] = <<>>]
    /\ cache' = [cache EXCEPT ![c] = Unknown]
    /\ heard' = [d \in Drivers |->
                  IF d = c THEN [p \in Passengers |-> NoTrip] ELSE heard[d]]
    /\ mainQ' = [mainQ EXCEPT ![c] = <<>>]
    /\ UNCHANGED trips

-----------------------------------------------------------------------------
(* The server.                                                             *)

\* The answer to client c's write on trips/p leaves together with the data c
\* observes there, t; a rider who observes p and did not write is sent t.
Answer(c, p, ack, t) ==
    inbox' = [x \in Clients |->
                IF x = c
                THEN Append(inbox[x], [ack |-> ack, data |-> IF c = p THEN t ELSE Unknown])
                ELSE IF x = p /\ online[x] /\ regs[x] > 0 /\ t # trips[p]
                THEN Append(inbox[x], [ack |-> "none", data |-> t])
                ELSE inbox[x]]

\* Puts are sent oldest first.
NextPut(c) == outbox[c][sent[c] + 1]

\* The server has processed that put; it is not sent again on this connection.
Processed(c) == sent' = [sent EXCEPT ![c] = @ + 1]

\* The next put of client c is merged into its location.
ServerApply(c) ==
    /\ online[c]
    /\ sent[c] < Len(outbox[c])
    /\ LET w == NextPut(c).write
           t == Merge(trips[w.path], w)
       IN  /\ trips' = [trips EXCEPT ![w.path] = t]
           /\ Answer(c, w.path, "ok", t)
    /\ Processed(c)
    /\ UNCHANGED <<online, regs, outbox, cache, heard, mainQ, drops>>

\* The next put of client c is refused by the server's rules.
ServerReject(c) ==
    /\ c \in Denied
    /\ online[c]
    /\ sent[c] < Len(outbox[c])
    /\ LET p == NextPut(c).write.path
       IN  Answer(c, p, "err", trips[p])
    /\ Processed(c)
    /\ UNCHANGED <<trips, online, regs, outbox, cache, heard, mainQ, drops>>

-----------------------------------------------------------------------------
(* Properties of the library, whatever the app does with it.               *)

\* The answers among messages.
Acks(msgs) == {i \in DOMAIN msgs : msgs[i].ack # "none"}

\* Of the puts that a client has outstanding the server has processed, on this
\* connection, exactly those whose answers are on their way: none is answered
\* twice, none is passed over when the connection is restored.
AnswersMatchPuts ==
    \A c \in Clients :
       /\ sent[c] = Cardinality(Acks(inbox[c]))
       /\ sent[c] <= Len(outbox[c])
=============================================================================
