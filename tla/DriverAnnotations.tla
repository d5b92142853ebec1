------------------------- MODULE DriverAnnotations -------------------------
(***************************************************************************)
(* The drivers on a rider's map: HomeViewController.fetchDrivers,          *)
(* FirebaseService.fetchDrivers and fetchUserData, GeoFire's circle query  *)
(* and the listeners of the database client under them.                    *)
(*                                                                         *)
(* A rider observes driver-locations/.  Every change of it makes another   *)
(* GeoFire query, which lives for ever and reports each key that enters    *)
(* its circle; each report reads the driver's profile once and puts a pin  *)
(* on the map.  A driver signs up with two writes, its position and then   *)
(* its profile, and the two reach the rider's process separately.          *)
(***************************************************************************)
EXTENDS LocationServices, Sequences, FiniteSets

CONSTANTS
    Drivers,        \* driver accounts
    Near,           \* those whose position is within 50 km of the rider
    MaxCalls,       \* bound: calls of fetchDrivers in one process
    MaxLaunches     \* bound: relaunches

ASSUME NearAssumption == Near \subseteq Drivers
ASSUME DriversAssumption == IsFiniteSet(Drivers) /\ "driver-locations" \notin Drivers
ASSUME CallsAssumption == MaxCalls \in Nat /\ MaxLaunches \in Nat

VARIABLES
    located,        \* server: the keys of driver-locations/
    profiles,       \* server: the drivers with a record in users/
    asks,           \* listens on their way to the server
    listens,        \* server: what it pushes to this rider
    inbox,          \* data on its way to the rider, in order
    libQ,           \* calls into the database client, on its own queue
    regs,           \* value registrations on driver-locations/
    loaded,         \* client: it has a snapshot of driver-locations/
    cache,          \* client: the keys in that snapshot
    reads,          \* single-event registrations on users/<d>
    waiting,        \* those of them that have had no event
    seen,           \* client: what it knows of users/<d>
    mainQ,          \* blocks dispatched to the main queue
    queries,        \* GFQuery objects: keys in locationInfos
    annotations,    \* DriverAnnotations on the map
    calls,          \* calls of fetchDrivers in this process
    launches,       \* relaunches so far
    entered,        \* history: key-entered reports in this process
    followed        \* history: drivers with a profile when the server last sent
                    \* positions

serverVars == <<located, profiles>>
linkVars == <<asks, listens, inbox>>
clientVars == <<regs, loaded, cache, reads, waiting, seen>>
queryVars == <<queries, annotations, entered>>
annotationVars == <<locationVars, serverVars, linkVars, libQ, clientVars, mainQ, queryVars, calls,
          launches, followed>>

\* Paths a client listens at.
Path == {"driver-locations"} \cup Drivers

Message == [at : Path, keys : SUBSET Drivers]
Task == [op : {"observe", "query", "read", "unread"}, of : Drivers \cup Nat]
Block == [kind : {"value", "initial", "added", "entered", "user"}, q : Nat,
          of : Drivers \cup Nat, found : BOOLEAN]

\* Every record of a kind in a queue is fully given by these.
Value == [kind |-> "value", q |-> 0, of |-> 0, found |-> FALSE]
Initial(q) == [kind |-> "initial", q |-> q, of |-> 0, found |-> FALSE]
Added(q, d) == [kind |-> "added", q |-> q, of |-> d, found |-> FALSE]
Entered(d) == [kind |-> "entered", q |-> 0, of |-> d, found |-> FALSE]
User(d, found) == [kind |-> "user", q |-> 0, of |-> d, found |-> found]

MapTypeOK ==
    /\ LocationTypeOK
    /\ profiles \subseteq located /\ located \subseteq Drivers
    /\ asks \subseteq Path /\ listens \subseteq Path
    /\ inbox \in Seq(Message)
    /\ libQ \in Seq(Task)
    /\ regs \in 0 .. MaxCalls
    /\ loaded \in BOOLEAN
    /\ cache \subseteq located
    /\ reads \in [Drivers -> Nat] /\ waiting \in [Drivers -> Nat]
    /\ seen \in [Drivers -> {"unknown", "none", "profile"}]
    /\ mainQ \in Seq(Block)
    /\ queries \in Seq(SUBSET located)
    /\ annotations \in Seq(Drivers)
    /\ calls \in 0 .. MaxCalls
    /\ launches \in 0 .. MaxLaunches
    /\ entered \in [Drivers -> Nat]
    /\ followed \subseteq profiles

MapInit ==
    /\ LocationInit
    /\ \E early \in SUBSET Drivers : located = early /\ profiles = early
    /\ launches = 0
    /\ asks = {} /\ listens = {} /\ inbox = <<>>
    /\ libQ = <<>>
    /\ regs = 0 /\ loaded = FALSE /\ cache = {}
    /\ reads = [d \in Drivers |-> 0] /\ waiting = [d \in Drivers |-> 0]
    /\ seen = [d \in Drivers |-> "unknown"]
    /\ mainQ = <<>>
    /\ queries = <<>> /\ annotations = <<>>
    /\ calls = 0
    /\ entered = [d \in Drivers |-> 0]
    /\ followed = {}

-----------------------------------------------------------------------------
(* The server, and the drivers who sign up.                                *)

Data(path) == IF path = "driver-locations" THEN located ELSE profiles \cap {path}

Push(path, keys) ==
    inbox' = IF path \in listens
             THEN Append(inbox, [at |-> path, keys |-> keys])
             ELSE inbox

ServerListen(path) ==
    /\ path \in asks
    /\ asks' = asks \ {path}
    /\ listens' = listens \cup {path}
    /\ inbox' = Append(inbox, [at |-> path, keys |-> Data(path)])
    /\ followed' = IF path = "driver-locations" THEN profiles ELSE followed
    /\ UNCHANGED <<locationVars, serverVars, libQ, clientVars, mainQ, queryVars, calls, launches>>

\* A driver's sign-up, first write.
DriverLocated(d) ==
    /\ d \notin located
    /\ located' = located \cup {d}
    /\ Push("driver-locations", located')
    /\ followed' = IF "driver-locations" \in listens THEN profiles ELSE followed
    /\ UNCHANGED <<locationVars, profiles, asks, listens, libQ, clientVars, mainQ, queryVars,
                   calls, launches>>

\* Its second write.
DriverUploaded(d) ==
    /\ d \in located \ profiles
    /\ profiles' = profiles \cup {d}
    /\ Push(d, {d})
    /\ UNCHANGED <<locationVars, located, asks, listens, libQ, clientVars, mainQ, queryVars,
                   calls, launches, followed>>

-----------------------------------------------------------------------------
(* The database client.                                                    *)

Call(op, of) == [op |-> op, of |-> of]

\* The ways to list a set; key order is one of them.
Orders(S) == {s \in [1 .. Cardinality(S) -> S] :
                \A i, j \in 1 .. Cardinality(S) : s[i] = s[j] => i = j}

NextTask(op) ==
    /\ libQ # <<>>
    /\ Head(libQ).op = op
    /\ libQ' = Tail(libQ)

\* observe(.value) on driver-locations/.
Observe ==
    /\ NextTask("observe")
    /\ regs' = regs + 1
    /\ asks' = IF regs = 0 THEN asks \cup {"driver-locations"} ELSE asks
    /\ mainQ' = IF loaded THEN Append(mainQ, Value) ELSE mainQ
    /\ UNCHANGED <<locationVars, serverVars, listens, inbox, loaded, cache, reads, waiting,
                   seen, queryVars, calls, launches, followed>>

\* Mutant: the snapshot of the value listener is not used for the query.
QueryEventsNone(q) == UNCHANGED mainQ

\* The value listener's snapshot covers the query's: its children are raised
\* at once.
QueryEvents(q) ==
    \E s \in Orders(cache) :
       mainQ' = mainQ \o [i \in 1 .. Cardinality(cache) |-> Added(q, s[i])]

\* GFQuery's listeners, made by updateQueries.
RegisterQuery ==
    /\ NextTask("query")
    /\ QueryEvents(Head(libQ).of)
    /\ UNCHANGED <<locationVars, serverVars, linkVars, clientVars, queryVars, calls, launches,
                   followed>>

\* observeSingleEvent on users/<d>.
Read ==
    /\ NextTask("read")
    /\ LET d == Head(libQ).of
       IN  /\ reads' = [reads EXCEPT ![d] = @ + 1]
           /\ IF seen[d] # "unknown"
              THEN /\ mainQ' = Append(mainQ, User(d, seen[d] = "profile"))
                   /\ UNCHANGED <<waiting, asks>>
              ELSE /\ waiting' = [waiting EXCEPT ![d] = @ + 1]
                   /\ asks' = IF reads[d] = 0 THEN asks \cup {d} ELSE asks
                   /\ UNCHANGED mainQ
    /\ UNCHANGED <<locationVars, serverVars, listens, inbox, regs, loaded, cache, seen,
                   queryVars, calls, launches, followed>>

\* removeObserver: the last one ends the listen and drops the data.
Unread ==
    /\ NextTask("unread")
    /\ LET d == Head(libQ).of
       IN  /\ reads' = [reads EXCEPT ![d] = @ - 1]
           /\ seen' = IF reads[d] = 1 THEN [seen EXCEPT ![d] = "unknown"] ELSE seen
           /\ listens' = IF reads[d] = 1 THEN listens \ {d} ELSE listens
    /\ UNCHANGED <<locationVars, serverVars, asks, inbox, regs, loaded, cache, waiting,
                   mainQ, queryVars, calls, launches, followed>>

\* The queries that the client has registered.
Registered == {q \in DOMAIN queries : \A i \in DOMAIN libQ : libQ[i] # Call("query", q)}

\* A snapshot of driver-locations/: a value event for every registration and
\* a child event for every new key and query, the two kinds in either order.
DeliverLocations ==
    /\ inbox # <<>> /\ Head(inbox).at = "driver-locations"
    /\ inbox' = Tail(inbox)
    /\ loaded' = TRUE
    /\ cache' = Head(inbox).keys
    /\ LET news == Registered \X (cache' \ cache)
           values == IF loaded /\ cache' = cache THEN 0 ELSE regs
           value == [i \in 1 .. values |-> Value]
       IN  \E s \in Orders(news) :
             LET added == [i \in 1 .. Cardinality(news) |-> Added(s[i][1], s[i][2])]
             IN  \/ mainQ' = mainQ \o value \o added
                 \/ mainQ' = mainQ \o added \o value
    /\ UNCHANGED <<locationVars, serverVars, asks, listens, libQ, regs, reads, waiting, seen,
                   queryVars, calls, launches, followed>>

\* observeSingleEvent takes the first event only.
Answered(d) == [waiting EXCEPT ![d] = 0]

\* Data of users/<d>; without a listener it is ignored.
DeliverUser ==
    /\ inbox # <<>> /\ Head(inbox).at \in Drivers
    /\ inbox' = Tail(inbox)
    /\ LET d == Head(inbox).at
           found == d \in Head(inbox).keys
       IN  IF reads[d] = 0
           THEN UNCHANGED <<seen, waiting, mainQ>>
           ELSE /\ seen' = [seen EXCEPT ![d] = IF found THEN "profile" ELSE "none"]
                /\ waiting' = Answered(d)
                /\ mainQ' = mainQ \o [i \in 1 .. waiting[d] |-> User(d, found)]
    /\ UNCHANGED <<locationVars, serverVars, asks, listens, libQ, regs, loaded, cache, reads,
                   queryVars, calls, launches, followed>>

-----------------------------------------------------------------------------
(* The rider's process, on the main queue.                                 *)

\* HomeViewController.fetchDrivers, from user.didSet: without a location it
\* returns, and nothing calls it again.
FetchDrivers ==
    /\ calls < MaxCalls
    /\ calls' = calls + 1
    /\ libQ' = IF fix THEN Append(libQ, Call("observe", 0)) ELSE libQ
    /\ UNCHANGED <<locationVars, serverVars, linkVars, clientVars, mainQ, queryVars, launches,
                   followed>>

RunBlock(kind) ==
    /\ mainQ # <<>>
    /\ Head(mainQ).kind = kind

\* Mutant: observeSingleEvent, one query for the first snapshot.
NewQueryOnce == queries = <<>>

\* Does the closure of observe(.value) make a query?
NewQuery == TRUE

\* GFQuery.observe(.keyEntered): a block for the keys that are known now, and
\* the listeners.
HandleValue ==
    /\ RunBlock("value")
    /\ LET q == Len(queries) + 1
       IN  IF NewQuery
           THEN /\ queries' = Append(queries, {})
                /\ mainQ' = Append(Tail(mainQ), Initial(q))
                /\ libQ' = Append(libQ, Call("query", q))
           ELSE /\ mainQ' = Tail(mainQ)
                /\ UNCHANGED <<queries, libQ>>
    /\ UNCHANGED <<locationVars, serverVars, linkVars, clientVars, annotations, entered,
                   calls, launches, followed>>

\* The closure of observe(.keyEntered): fetchUserData.
Report(keys) ==
    \E s \in Orders(keys) :
       /\ libQ' = libQ \o [i \in 1 .. Cardinality(keys) |-> Call("read", s[i])]
       /\ entered' = [d \in Drivers |-> entered[d] + (IF d \in keys THEN 1 ELSE 0)]

\* The block that observe(.keyEntered) dispatched.
HandleInitial ==
    /\ RunBlock("initial")
    /\ mainQ' = Tail(mainQ)
    /\ Report(queries[Head(mainQ).q] \cap Near)
    /\ UNCHANGED <<locationVars, serverVars, linkVars, clientVars, queries, annotations,
                   calls, launches, followed>>

\* locationIsInQuery.
LocationIsInQuery(d) == d \in Near

\* childAdded -> updateLocationInfo: a key that is new and in the circle
\* is reported in a block of its own.
HandleAdded ==
    /\ RunBlock("added")
    /\ LET q == Head(mainQ).q
           d == Head(mainQ).of
       IN  /\ queries' = [queries EXCEPT ![q] = @ \cup {d}]
           /\ mainQ' = IF d \notin queries[q] /\ LocationIsInQuery(d)
                       THEN Append(Tail(mainQ), Entered(d))
                       ELSE Tail(mainQ)
    /\ UNCHANGED <<locationVars, serverVars, linkVars, libQ, clientVars, annotations, entered,
                   calls, launches, followed>>

HandleEntered ==
    /\ RunBlock("entered")
    /\ mainQ' = Tail(mainQ)
    /\ Report({Head(mainQ).of})
    /\ UNCHANGED <<locationVars, serverVars, linkVars, clientVars, queries, annotations,
                   calls, launches, followed>>

Pins == {annotations[i] : i \in DOMAIN annotations}

\* driverIsVisible; the position of one that is found is set again.
DriverIsVisible(d) == d \in Pins

\* fetchUserData's closure: the observer goes, a snapshot without a dictionary
\* is ignored, a driver that is not on the map is added.
HandleUser ==
    /\ RunBlock("user")
    /\ mainQ' = Tail(mainQ)
    /\ LET d == Head(mainQ).of
       IN  /\ libQ' = Append(libQ, Call("unread", d))
           /\ annotations' = IF Head(mainQ).found /\ ~DriverIsVisible(d)
                             THEN Append(annotations, d)
                             ELSE annotations
    /\ UNCHANGED <<locationVars, serverVars, linkVars, clientVars, queries, entered, calls,
                   launches, followed>>

\* The process dies and is launched again.
Relaunch ==
    /\ launches < MaxLaunches
    /\ launches' = launches + 1
    /\ EnableLocationServices(auth)
    /\ fix' = FALSE
    /\ asks' = {} /\ listens' = {} /\ inbox' = <<>>
    /\ libQ' = <<>>
    /\ regs' = 0 /\ loaded' = FALSE /\ cache' = {}
    /\ reads' = [d \in Drivers |-> 0] /\ waiting' = [d \in Drivers |-> 0]
    /\ seen' = [d \in Drivers |-> "unknown"]
    /\ mainQ' = <<>>
    /\ queries' = <<>> /\ annotations' = <<>>
    /\ calls' = 0
    /\ entered' = [d \in Drivers |-> 0]
    /\ followed' = {}
    /\ UNCHANGED <<auth, changes, serverVars>>

-----------------------------------------------------------------------------
Environment ==
    \/ \E d \in Drivers : DriverLocated(d) \/ DriverUploaded(d)
    \/ /\ LocationFix \/ \E s \in Authorization : LocationManagerDidChangeAuthorization(s)
       /\ UNCHANGED <<serverVars, linkVars, libQ, clientVars, mainQ, queryVars, calls, launches,
                      followed>>

Server == \E path \in Path : ServerListen(path)

Library == Observe \/ RegisterQuery \/ Read \/ Unread \/ DeliverLocations \/ DeliverUser

Main == HandleValue \/ HandleInitial \/ HandleAdded \/ HandleEntered \/ HandleUser

MapNext == Environment \/ Server \/ Library \/ Main \/ FetchDrivers \/ Relaunch

MapSpec == MapInit /\ [][MapNext]_annotationVars

\* The server answers, the client and the main queue run what they are given.
MapFairness ==
    /\ \A path \in Path : WF_annotationVars(ServerListen(path))
    /\ WF_annotationVars(Observe \/ RegisterQuery \/ Read \/ Unread)
    /\ WF_annotationVars(DeliverLocations \/ DeliverUser)
    /\ WF_annotationVars(Main)

-----------------------------------------------------------------------------
(* Properties.                                                             *)

\* However many queries report the same driver and whatever fetches overlap,
\* a driver has one pin, and only a driver in the circle whose profile was
\* found has one.
PinsAreDrivers ==
    /\ \A i, j \in DOMAIN annotations : annotations[i] = annotations[j] => i = j
    /\ Pins \subseteq Near \cap profiles

\* Nothing is on its way to the map.
Quiet == asks = {} /\ inbox = <<>> /\ libQ = <<>> /\ mainQ = <<>>

\* A driver is missing from the map of a rider who observes positions only if
\* its profile came after the last position that was sent: the next driver
\* who signs up, or the next launch, brings it back.  The connection keeps
\* the order of the two, and a fetch that overlaps another reads no older data.
MissingIsNewest ==
    Quiet /\ regs > 0 => Near \cap followed \subseteq Pins

\* A query reports a driver once: a driver is fetched at most once for every
\* change of driver-locations/ and registration, never again and again.
ReportedOncePerQuery == \A d \in Drivers : entered[d] <= Len(queries)

\* A driver in the circle that was complete when positions were last sent
\* appears, unless the process dies first.
DriverAppears ==
    \A d \in Near : (regs > 0 /\ d \in followed) ~> (d \in Pins \/ regs = 0)

\* The map agrees with the server whatever queries and fetches overlap: pins
\* are drivers of the circle, one each; a driver who is missing signed up last;
\* no query reports a driver twice; locations are updated after a launch.
MapConsistent ==
    /\ MapTypeOK /\ PinsAreDrivers /\ MissingIsNewest /\ ReportedOncePerQuery
    /\ UpdatesAfterLaunch
=============================================================================
