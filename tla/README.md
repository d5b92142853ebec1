# UberCloneApp: a TLA+ development

This directory models the app under `src/UberCloneApp/UberCloneApp` (an iOS
ride-hailing app of about 2,300 lines of Swift), the parts of the vendored
Firebase Realtime Database client (`src/UberCloneApp/Pods/FirebaseDatabase`)
that decide what the app sees, and the two C and C++ libraries that are
compiled from source into it: leveldb (`Pods/leveldb-library`), the client's
disk store, and nanopb (`Pods/nanopb`), with which GoogleDataTransport and
FirebaseCoreDiagnostics encode and decode their messages. Paths below are
relative to `src/UberCloneApp/UberCloneApp` unless they begin with `Pods/`;
leveldb's and nanopb's are relative to their pods.

## 1. Inventory

One binary is both apps: the account type chosen at sign-up (`User.swift`)
makes it a rider's or a driver's. There is no back end of the project's own.
All coordination between riders and drivers goes through three subtrees of one
Realtime Database: `users/<uid>` (profiles), `driver-locations/<uid>` (GeoFire
positions) and `trips/<rider uid>` (one record per rider).

| Component | State | Operations | Speaks to |
|---|---|---|---|
| Realtime database client (`Pods/FirebaseDatabase`) | outstanding puts, pending write tree, server snapshot per listen, registrations, connection | `updateChildValues`, `observe`, answers and data from the server, loss and restoration of the connection | server; the app through blocks on the main queue |
| Trip requests and offers (`Service/FirebaseService.swift`, `HomeViewController.swift`, `Model/Trip.swift`) | `HomeViewController.trip`, the loading view | `uploadTrip`, `observeCurrentTrip`, `observeTrips`, `acceptTrip`, `didAcceptTrip` | database client, pickup screen, ride action view |
| Ride action view (`View/RideAction`) | shown or not, `config`, `buttonAction`, `destination` | `presentRideActionView`, `setup(withConfig:)`, `onRide` | trip requests |
| Pickup screen (`PickupViewController.swift`) | the offered trip, presented or leaving | `handleAcceptTrip`, `handleDismissal` | `acceptTrip`, `didAcceptTrip` |
| Sign-up, log-in, session (`Modules/Authentication`, `HomeViewController.swift`) | Auth's accounts and current user, the screens, `HomeViewController.user` | `onLogin`, `onSignUp`, `onSignUpComplete`, `setup`, `fetchUserData`, the launch check | Auth, database, GeoFire |
| Destination search and route (`HomeViewController.swift`, `View/LocationInput*`) | which views are visible, `searchResults`, the table's rows, annotations and overlays | show, dismiss, search, select, route, go back | MapKit |
| Driver annotations (`FirebaseService.fetchDrivers`, `DriverAnnotation.swift`) | annotations of drivers on the map, GeoFire queries | add, move | GeoFire, `users/` |
| Location services (`Service/LocationHandler.swift`) | authorization, last location | ask, start updates | CoreLocation |
| Map zoom (`Utilis/MKMapView + Zoom.swift`) | none | `zoomToFit` | MapKit |
| GeoFire (`Pods/GeoFire`) | geo queries | `setLocation`, `query` | database |
| App and scene delegates | none that lasts | launch | everything is built anew |
| Views, colours, layout helpers | none | appearance | none |
| leveldb: files and recovery (`db/db_impl.cc`, `db/version_set.cc`, `db/filename.cc`, `db/builder.cc`) | logs, tables, manifests, CURRENT; the current version, file numbers, sequence numbers | open, recover, write, flush, compact, install a version, delete obsolete files | POSIX environment |
| leveldb: writers and background work (`db/db_impl.cc`) | queue of writers, `mem_`, `imm_`, `manual_compaction_`, `bg_error_`, the scheduled job | `Write`, `MakeRoomForWrite`, `BackgroundCall`, manual compactions, destructor | condition variables, background thread |
| leveldb: levels (`db/version_set.cc`, `db/db_impl.cc`) | files per level, snapshots, a compaction under way | place a memtable, choose inputs, drop entries, read | tables, memtables |
| leveldb: iterators (`db/db_iter.cc`, `table/merger.cc`) | position and direction of each layer | seek, next, prev | memtable, tables |
| leveldb: memtable (`db/skiplist.h`, `db/memtable.cc`) | nodes and their next pointers | insert, search | readers without a lock |
| leveldb: table cache (`db/table_cache.cc`, `util/cache.cc`) | entries, references, LRU list, usage | find, release, evict, prune | open tables |
| leveldb: log format (`db/log_writer.cc`, `db/log_reader.cc`) | block offset; buffer, resynchronization, partial record | add a record, read a record | files |
| leveldb: table format (`table/`, `util/comparator.cc`) | blocks with restart points, index, filters; the two levels of an iterator | add an entry, finish; get, seek, next, prev | files |
| leveldb: POSIX environment (`util/env_posix.cc`) | lock table, limits, background queue, open files | lock, open, map, sync, schedule | kernel |
| nanopb (`pb_encode.c`, `pb_decode.c`) | streams with their limits; allocated fields | encode, decode, release | callbacks, allocator |

leveldb is opened by `FLevelDBStorageEngine` when persistence is enabled
(`Pods/FirebaseDatabase/.../FRepo.m:132`), with asynchronous writes
(`APLevelDB.mm:120`); a database that fails to open is deleted and made anew.
The app does not enable persistence, so leveldb is in the binary but idle;
nanopb is in use.

What is hard here:

* **Asynchrony without bookkeeping.** Almost every operation ends in a closure
  that runs later on the main queue. No closure is cancelled, no button is
  disabled meanwhile, and errors are mostly ignored. Chains started by
  different taps overlap.
* **One writer's record, several writers.** A rider and any number of drivers
  merge different keys into the same `trips/<uid>`. There are no transactions.
* **At-least-once writes.** A put that was not answered is sent again on the
  next connection, also when the server had applied it.
* **A client sees its own writes early**, then again as server data.
* **Processes die.** Auth keeps the signed-in account; nothing else survives.
* **UIKit's rules**: `present()` is refused while a screen is up, `dismiss()`
  on a popped controller does nothing, animations complete later.
* **leveldb: crashes between file operations.** A write, a flush and a new
  version are each several operations whose order decides what recovery finds;
  any of them may fail, and a power failure undoes what was not synced.
* **leveldb: one mutex that is given up in the middle.** Group commit,
  compactions and flushes run without it on state they read before.
* **leveldb: lock-free readers** of the skip list, reference-counted tables,
  process-wide POSIX locks, limits taken and given back atomically.
* **nanopb: nested framing and ownership.** Lengths inside lengths, messages
  encoded twice, unions whose members own memory, failures at any byte.

What makes each component correct: a listener ends with what the database
holds, and every write is answered once per connection (client); waits end and
are never about a trip already taken, a recorded driver knows its passenger, no
one sets off unrecorded, coordinates are there when they are unwrapped (trips);
the account left on the server is complete or the reason is known, and the
screens follow (session); there is always a control and rows mean what they
show (home screen); every driver who can be shown is (annotations); an
acknowledged write survives what it should survive, and a read sees it
(leveldb); calls return, nothing is used after it is freed, one process at a
time has the database, a table gives back what was put into it (leveldb); what
is decoded is what was encoded, within the buffers, and every allocation is
given back once (nanopb). `PROJECT.json` lists the hazards at their lines.

## 2. Modules

```
TripLifecycle   what trips/ promises                (abstract)
     ^  refinement: LifecycleSpec
RealtimeDB  <---EXTENDS---  TripDispatch  <--- MCTripDispatch
                                  ^
                            TripDispatchProofs

Session     <--- MCSession,    SessionProofs
LocationServices  <---EXTENDS---  DriverAnnotations
HomeScreen + DriverAnnotations               <--- MCRiderHome
HomeScreen, DriverAnnotations                <--- HomeScreenProofs

leveldb
DurableStore      what the database promises        (abstract)
     ^  refinement: ImplementsDurableStore
PosixFiles  <---EXTENDS---  DBImpl  <--- MCDBImpl
SnapshotIterator  a cursor over a snapshot          (abstract)
     ^  refinement: ImplementsCursor
DBIter
DBWriters + BackgroundQueue                  <--- MCDBWriters
VersionSet + DBIter + SkipList               <--- MCReads
DBImpl            <--- DBImplProofs  <---EXTENDS---  DBStoreProofs
DBWriters         <--- DBWritersProofs
DBIter + SkipList <--- SkipListProofs

parts of leveldb and nanopb
TableCache + FileLocks + ReadOnlyFiles + LogFile + SortedTable
   + PbVarint + PbStream + PbRelease         <--- MCParts
FileLocks, ReadOnlyFiles, TableCache         <--- PosixEnvProofs
```

`A + B` is a sum: the modules share no state, a variable of the MC module says
which of them takes its steps, and the others rest in an initial state. A run
of a sum checks each module on all its behaviours.

### RealtimeDB

State and actions of the client library and the server, for the subtree
`trips/`. One app is one client.

| Model | Code |
|---|---|
| `outbox`, `sent` | `outstandingPuts` of `FPersistentConnection`, and which of them the server processed on this connection |
| `cache`, `View` | the server snapshot and what `FWriteTree` makes of it with the pending writes |
| `RaiseValue`, `ObserveValue`, `ObserveChildAdded` | `FViewProcessor`, `FEventGenerator`, `FSyncTree`, `FView`: one event per registration when the view changes; a further registration is told the present view |
| `mainQ`, `RunBlock` | `FEventRaiser` and `FRepo` dispatch events and completion blocks to the main queue |
| `Deliver` | data before the answer; the event before the completion block |
| `Disconnect`, `Reconnect` | `onDisconnect` and `restoreState`: listens first, then every outstanding put |
| `Restart` | a process death; persistence is off |
| `ServerApply`, `ServerReject`, `Answer` | the server, modelled from how the library uses it |
| `Merge` | `updateChildValues` and `FCompoundWrite` |

A driver's view of `trips/` is kept per child (`heard`) without an ordered
message channel: only child-added events are observed, and they carry whatever
the record is when it enters the view.

### TripDispatch

`HomeViewController`, `RideActionView` and `PickupViewController` of every
rider and driver on top of RealtimeDB. Actions carry the source's names
(`OnRide`, `HandleValue` for the closure of `observeCurrentTrip`,
`HandleUploadDone` for the completion block of `uploadTrip`,
`HandleChildAdded` for `trip.didSet` of a driver, `HandleAcceptTrip`,
`DidAcceptTrip`, `DismissDone`). `SetupAgain` is the second `setup()` that a
driver's sign-up or a second tap on Log In causes while the screen is in use.

`PickupTargets`: as committed, `PickupViewController.targets()` (lines 137-144)
is never called, so neither button of the pickup screen does anything. With
`PickupTargets = FALSE` the model is the committed screen, and the run
`dead_buttons` shows that state. All other runs set it to `TRUE`, the wiring
that `targets()` spells out, since otherwise nothing behind ACCEPT TRIP
(`acceptTrip`, `didAcceptTrip`, the rider's accepted branch) could be reached.
The theorems hold for both.

### TripLifecycle

The abstract specification of `trips/`: a record appears as a request with
coordinates; an acceptance needs an existing record, names a driver and keeps
the coordinates; a new request keeps the driver. TripDispatch implements it
with the identity mapping of `trips` (`LifecycleSpec`).

### Session

One device. Taps start requests to Auth (`calls`); an answer becomes a callback
on `mainQ`; the callbacks write (`puts`), read (`fetches`), run `Setup` and
dismiss the login screens. `SignUpPuts` is the branch structure of
`onSignUpComplete`: a driver without a location returns before the upload, a
driver with one writes position, profile, and the profile again in
`setLocation`'s callback. GeoFire hands that callback to the main queue once
more (`GeoFireDone`). `Restart` is a death and the launch check
(`checkIfUserLoggedIn`). The sign-up controller reads the location when it is
made, so `location` is fixed at `OnSignUp`.

`due`, `refused` and `unlocated` are history: how many observers taps gave
cause for, which accounts had a write refused, which drivers were created
without a location.

### HomeScreen

A rider's home screen: the activation view ("Where to?"), the input view with
its table, the search, the selection, the route and the back button. Animations
are split at their completion closures (`FadeInDone`, `HideDone`). Searches and
routes are answered in any order. The table has its rows from the last
`reloadData` (`shown`), while a tap indexes `searchResults`. An index out of
range ends the process (`trapped`). `SetupAgain` and
`ConfigureInputActivationView` are a further `setup()` and its `user.didSet`.

### LocationServices and DriverAnnotations

LocationServices is the authorization dialogue: a launch runs
`enableLocationServices` once; the delegate of a change only asks for more.
DriverAnnotations is a rider's map on top of it: `fetchDrivers` observes
`driver-locations/`; every value event starts one more GeoFire query
(`NewQuery`), each of which listens on its own, reports the drivers of its
circle (`HandleInitial`, `HandleAdded`, `HandleEntered`) and has their profiles
fetched (`Read`), and each answer adds a pin or moves one (`HandleUser`). Other
devices' sign-ups write the position first and the profile second. The
connection delivers in order (`inbox`); the library's queue and the main queue
are two more steps (`libQ`, `mainQ`). `followed` is history: drivers whose
profile was there when a position was last sent.

### DurableStore, PosixFiles and DBImpl

DurableStore is what a user of leveldb may rely on: a write is pending, then
acknowledged; a death of the process loses no acknowledged write; a power
failure may lose asynchronous ones, but no synchronous one that returned.

PosixFiles is a directory with what the operating system has and what the disk
has: contents of files up to a synced length, and names. The assumption on the
file system is that directory operations reach the disk in their order, with
any prefix of them there after a power failure; `FsyncForcesNames` says whether
an fsync of a file also forces the directory operations before it (as ext4 and
APFS do in effect). DBImpl is the process on top: `Write` (append, sync,
insert), log switches, `CompactMemTable`, compactions as the creation of a file
and the installation of an edit, `LogAndApply` split into `BeginApply`,
`WriteManifest`, `SyncManifest`, `WriteCurrent`, `Install` and `ApplyFailed`,
`DeleteObsoleteFiles`, readers that keep a version, and recovery with its own
steps. `Install` of a compaction includes what BackgroundCompaction does at its
end: the inputs are given up (`ReleaseInputs`) and what is then obsolete is
deleted at once, the inputs among it unless a reader has them.

`MaxErrors` bounds the file operations that fail. These may: an append to a log
and its sync (`AddRecord`, `SyncLog`), the creation of a log (`NewLogFails`),
a table (`WriteLevel0Table`), the creation of a compaction's output
(`CompactionOpenFails`) and its writing, sync or check (`CompactionFinish`), the
manifest's record and its sync (`WriteManifest`, `SyncManifest`), SetCurrentFile
at an open (`SetCurrentFails`) and in a new database, NewDB's manifest
(`NewDBFails`), and in an open the directory's list, a recovered log's table and
the new log (`OpenFails`). What fails before recovery has changed anything ends
the open and changes nothing, so it is no step. A log that cannot be opened or
read to its end does not fail the open: `MaybeIgnoreError` and the reporter
ignore it unless `paranoid_checks` is set, which nothing here does
(`RecoverLogPartly`). An append that fails may leave part of its record.
`hidden` is history, the writes that were logged behind such a part,
`DescriptorDamaged` says the same of the manifest, and `skipped` is history, the
writes that an open passed over. Not modelled: `DeleteFile` failing in
DeleteObsoleteFiles (the code ignores it, and the file is met again by the next
deletion) or its list of files coming out short, a death between two of its
`unlink`s (`DeleteObsoleteFiles` is one step; the power failure may keep any
prefix of them), and part of the first manifest left by a death inside NewDB's
append, before CURRENT exists. `Kill` and `PowerFailure` come between any two
steps. Keys are left to VersionSet: a write is its number.

### DBWriters

Threads that call `Write`, `TEST_CompactMemTable`, `TEST_CompactRange` and the
destructor, the background job and the two condition variables; `Wait` and
`Woken` are a wait on one of them, `SpuriousWakeup` what the standard allows.
A group is chosen by `Joins`, logged without the mutex as one record of `log`
(the set of its batches) and left in one step (`Leave`, `Signalled`). `MakeRoomForWrite` stalls on `imm_` and on level 0.

### VersionSet

The levels as sets of entries: a file is the set of sequence numbers in it, and
`ops` says what each of them did. Level 0 is a sequence, newest last.
`PickLevelForMemTableOutput`, `PickCompaction`, `CompactRange`,
`SetupOtherInputs` with `AddBoundaryInputs`, the loop of `DoCompactionWork`
(`Drops`, `Kept`), outputs cut anywhere the code may cut them, `TrivialMove` and
`Get` level by level as the code searches. The compaction is split at the
release of the mutex, so that writes, snapshots and flushes come in between.
`SplitKeys` are the user keys with so many entries that outputs are cut between
two versions of them, which the code does (it cuts by size). Two variables are
history: `between`, a flush went between the inputs of a compaction under way,
into the level of its output (`GoesBetween`), and `exposed`, the user keys whose
deletion a compaction dropped although a file beside its inputs in the next
level has older entries (`Exposes`).

### DBIter and SnapshotIterator

`MergingIterator` over children that each have a position, with its direction,
and `DBIter` on top with `FindNextUserEntry`, `FindPrevUserEntry` and the
change of direction, one entry per step. The memtable's child grows while it is
iterated (`InsertEntry`), but not between a child's Seek and the Prev or
SeekToLast after it when the direction changes, which are one step.
SnapshotIterator is a position in the sorted list of
what the snapshot shows; DBIter implements it, an intermediate step being a
stutter.

### SkipList, TableCache

SkipList: the insertion is one store per step (`LinkNode` relaxed,
`PublishNode` with release), a reader one load per step; the height may be read
stale. TableCache: the LRU cache's mutex makes its operations atomic; threads
are between `Lookup`, opening the file and `InsertTable`, or use a table.
`EvictOldest` is what a number of turns of the loops in Insert and Prune leave:
the oldest entries of `lru_` go and the others keep their order; `Excess` says how
many turns Insert takes.

### FileLocks, ReadOnlyFiles, BackgroundQueue

Three parts of `util/env_posix.cc`. FileLocks has the kernel's owner of each
file node, the table of each process and each call's position between its
system calls; closing any descriptor gives up the process's lock
(`OwnerAfterClose`). `overlapped` is history: one of three situations has come
up in which the lock is lost, a call in the process that holds it, a call
between another's removal of the entry and its close, a lock between an unlock
and the deletion of LOCK. A call that finds the entry taken closes its
descriptor in the same step, and `fcntl` fails for no other reason than a lock
that another process holds. ReadOnlyFiles has the two limiters
with their atomic steps and the files' lives. BackgroundQueue is `Schedule` and
`BackgroundThreadMain`.

### LogFile

A log as a sequence of bytes that know which record and which fragment they
belong to; the writer's fragmentation, a cut at any byte, damage of any byte,
failed appends, reuse of a log, and the reader fragment by fragment, with its
reports. Checksums fit exactly when no byte of the fragment was changed.

### SortedTable

A table file: `TableBuilder` takes sorted entries, cuts blocks, and adds an
index entry with a key that separates two blocks as soon as it knows the first
key of the second. Keys are short sequences of bytes, so that shared prefixes,
restart points, `FindShortestSeparator` and `FindShortSuccessor` are the
code's. Values may have any size, so a block may end after any entry (`full`)
and take any room in the file, which decides how filters and blocks line up
(`StartBlock`, `KeyMayMatch`); a filter is the set of its keys. `Block::Iter`
and `TwoLevelIterator` are records that the calls transform, `ParseNextKey` by
`ParseNextKey`. One block may be unreadable. `asked` is history: the entry that
the sorted list has where the iterator was sent.

### PbVarint, PbRelease, PbStream

PbVarint: values as digits to the base 2^7 and their widths; the encoder, both
decoders byte by byte, zig-zag and the casts. PbRelease: a struct with a string,
a submessage, a repeated string and a oneof, all pointers; decoding takes a
field at a time, and allocation or input may fail in the middle. PbStream: a
message with a submessage, a packed array, a number and a callback's data,
measured in bytes of base `Base` for lengths; the encoder with its sizing
streams, then a decoder on the encoded bytes cut anywhere.

## 3. Runs

| Run | Instance | Shows |
|---|---|---|
| `rider_view` | 1 rider (flaky, may be refused, two registrations, 2 requests, 2 places), 1 driver | `ClientsConsistent`, `ViewConverges`, `WaitingIsReal`, `AcceptanceStands` |
| `two_drivers` | 1 rider, 2 flaky drivers, one acceptance each | `AssignedDriverKnows`, `EngagedOnlyAfterGrant`, `PickupHasCoordinates`, `LifecycleSpec` |
| `answers` | 1 rider, 1 driver, both flaky and refusable, 2 requests, fairness | `TapsAnswered` |
| `session` | 1 existing and 1 new account, 2 taps, 2 sign-up screens, 1 death, refusals, fairness | `AccountsConsistent`, `SessionSettles`, `HomeReached` |
| `rider_home` | search: 2 searches, 3 selections, 1 further setup, lists of 0, 1, 2 places; map: 1 driver in the circle, 1 outside, 1 relaunch, 1 change of authorization, fairness | `ControlsConsistent`, `FoundRowIsChosen`, `RoutesLeftBehind`; `MapConsistent`, `DriverAppears` |
| `db_crashes` | 3 writes, sync or not, 1 kill, 1 power failure | `ImplementsDurableStore` |
| `db_errors` | 4 writes, every other with sync, 1 error, 1 kill, 1 power failure | `NoWriteLost`, `FilesConsistent`, `Reopens` |
| `db_writers` | 1 error and one of three crews: 2 writers and a flusher; a writer, a flusher and a manual compaction; 2 manual compactions; or the queue with 3 items; fairness | `WritesLogged`, `BackgroundConsistent`, `MemTableCompacted`, `CallsReturn`; `ItemsRun` |
| `db_reads` | levels: 3 updates of any of 3 keys, or two of each of 2 keys of which one is split, 1 deletion (of a key with a value) among them, 1 snapshot, 4 levels; iterator: 2 user keys, snapshot at 3, 1 table, 1 insertion; skip list: 3 keys, height 2, 1 search | `LevelsOrdered`, `ReadsSeeUpdates`; `IterConsistent`, `ImplementsCursor`; `ListConsistent` |
| `parts` | cache: 3 threads, 4 tables, capacity 1, 6 opens; locks: 2 processes, 3 callers, 2 lock files; 4 files, 1 mapping, 1 descriptor; log: 2 records, blocks of 5, headers of 2, 1 failure, 1 reuse; tables of 3 entries, restart interval 2; varints of 10 bytes; messages with arrays to 2 and 5 buffer sizes; 6 objects, 5 fields | `CacheConsistent`, `LocksConsistent`, `LimitsKept`, `ReadsWhatSurvives`, `ReadsWereWritten`, `TableFaithful`, `VarintsFaithful`, `StreamsFaithful`, `MemoryOwned` |
| `dead_buttons` | 1 rider, 1 driver, the pickup screen as committed | `AcceptButtonLive` is violated |
| `accepted_button` | 1 rider, 1 driver | `TripAcceptedOffersDirections` is violated |

Many of these are conjunctions whose parts are named and explained in the
modules:

| Property | Parts |
|---|---|
| `ClientsConsistent` | types; `AnswersMatchPuts` |
| `TapsAnswered` | `WaitingEnds`, `AcceptTapAnswered` |
| `AccountsConsistent` | types; `DriverIsLocated` |
| `SessionSettles` | `MissingProfileExplained`, `LoginDismissed`, `ObserversAccountedFor` |
| `ControlsConsistent` | types; `NeverStuck`, `OneWayForward` |
| `MapConsistent` | types; `PinsAreDrivers`, `MissingIsNewest`, `ReportedOncePerQuery`, `UpdatesAfterLaunch` |
| `FilesConsistent` | types; `LiveFilesExist`, `SequencesUnique` |
| `WritesLogged` | `LoggedOnce`, `SyncedWhenReturned` |
| `BackgroundConsistent` | types; `ManualNotNull`, `NothingAfterDestroy` |
| `LevelsOrdered` | types; `LevelsDisjoint`, `NewerAbove` |
| `IterConsistent` | types; `BeforeCurrentKey` |
| `ListConsistent` | types; `ListsInOrder`, `SearchesRight` |
| `CacheConsistent` | types; `ReferencesCounted`, `NoUseAfterFree`, `EvictedStaysOut`, `OpenTablesBounded` |
| `LocksConsistent` | types; `OneHolderPerProcess`, `EntriesExplained`, `OneHolder`, `HolderIsLocked` |
| `LimitsKept` | types; `WithinLimits`, `UnitsAccounted` |
| `ReadsWhatSurvives` | types; `ReadsAllComplete`, `CrashIsNoCorruption`, `DamageContained` |
| `TableFaithful` | `MovesRight`, `GetFinds` |
| `VarintsFaithful` | `FieldRoundTrip`, `Int32EitherWay`, `DecodersAgree` |
| `StreamsFaithful` | `WithinBuffer`, `SizeExact`, `BytesLeftAccounted`, `DecodesWhatWasEncoded`, `CutNoticed` |
| `MemoryOwned` | types; `NoWildPointer`, `OwnsWhatIsAllocated`, `AllGivenBack` |

**Bounds.** `MaxDrops = 1` lets one connection break or one process die at any
point per flaky client, enough to have a put applied, its answer lost, and the
put sent again. `MaxRequests = 2` lets an acceptance of the first request
overtake the second. Two drivers are the smallest race for one trip. `Eager`
names the clients whose process calls `observe` twice: every event then comes
twice. Three selections with one further setup let two routes be outstanding
while a third is chosen. Two sign-up screens let a popped controller's answer
arrive while another controller is up. In leveldb a memtable holds one write in
most runs (`WriteBufferSize`, `BufferSize`), so that every write may switch
logs; three writes make a flush, a compaction of two tables and a write in the
new log coincide; with four, a flush interrupts the compaction. In `db_errors` the
fourth write is for runs that end with their first death (`ErrorsBound`): what it
leaves on disk is checked, not its next recovery; with three writes both deaths
and the error come in any order. Three keys let a flush go between the inputs of
a compaction, and two keys with two updates each, one of them split, let a
deletion be dropped over an older entry. Blocks of 5
bytes with headers of 2 have every relation of 32768 and 7: a trailer too small
for a header, a block with room for a header only, fragments first, middle,
last. Capacity 1 with three threads makes the cache overfull and its entries
leave in use. Three table entries in one to three blocks with a restart
interval of two give shared prefixes, a restart inside a block and blocks
without one; a block of 1 leaves two blocks to one filter, one of 5 leaves
filters without a block; of the user keys one begins another, and between two
there is room for a shorter one. Base 3 for lengths makes a length take one or
two bytes within messages of some ten bytes. Counters are bounded in the guards
that raise them or, in `MCReads`, in a conjunct of the next-state relation. The
one constraint is `db_errors`' `ErrorsBound`, on the writes and deaths of a run.
No bound cuts a handler.

**Symmetry.** `Interchangeable` permutes riders, drivers and places in
`rider_view` and `two_drivers`, which check no liveness; the sets `Denied`,
`Flaky` and `Eager` are mapped to themselves. `parts` permutes the readers of
the table cache.

**Deadlock** is checked in `db_writers`, where everyone may wait on everyone:
its end states are explicit. Elsewhere users may stop tapping, and taps,
writes, records and searches are bounded.

**Fairness** (`answers`, `session`). Weak fairness on the main queue's
handlers and animations (the run loop runs what it was given), on delivery, on
reconnecting (the library reschedules its connection attempt for ever) and on
the server's processing of a put it was sent or of a read. Nothing is assumed
of users, of Auth, of locations, of connections breaking, or of which answer
the server gives. Connections break at most `MaxDrops` times, so that weak
fairness suffices: the claim is about connections that eventually stay up.
`rider_home` assumes the same of the server, the connection, the library's
queue and the main queue (`MapFairness`). `db_writers` assumes weak fairness of
every thread that can run and of the background thread, and nothing of spurious
wake-ups or errors; who gets the mutex first is open. Of the queue it assumes
that the background thread runs when it can and that a work item returns
(`QueueFairness`).

**Excluded situations.** `FsyncForcesNames` is TRUE: if an fsync of a file does
not force the directory operations before it, a power failure may leave a
manifest that names a table which is not there, because the manifest's record
is handed to the operating system before `Sync` syncs the directory.

**What the limits of the properties say.** Several properties hold only with
an exception, and the exception is part of the result. `WaitingIsReal`: a
refused upload leaves "Finding you a ride.." up for good. `AcceptanceStands`: a
put that was applied, lost its answer and was sent again turns an accepted
trip back into a requested one. `AssignedDriverKnows`: a driver whose process
dies is not told again. `EngagedOnlyAfterGrant`: `acceptTrip`'s error is
ignored, so a driver whose write is refused sets off all the same.
`MissingProfileExplained`: a driver who signs up before the phone has a
location, or a process that dies half-way, leaves an account that launches into
an empty home screen. `LoginDismissed`: going back from the sign-up screen while
its request is under way leaves the login screen up. `RoutesLeftBehind`: a
route that arrives after its destination was dismissed stays on the map.
`FoundRowIsChosen`: between new results and the table's reload a row may be out
of range. `Reopens`: the first manifest, which `NewDB` writes, is not synced
before CURRENT names it, and a manifest that is appended to behind a torn edit
cannot be read past it. `NoWriteLost`: a write that follows a torn append in
its log, or a torn edit in the manifest, is acknowledged and not recovered; nor
is what a log holds that an open could not read, since the error is ignored and
the log deleted. `SequencesUnique`: after such an open the numbers of the
batches passed over are given again. `LevelsOrdered` and `ReadsSeeUpdates`: a
manual compaction may take files with a gap between them, and a flush under way
meanwhile finds no file there and goes into the level of the output, which then
overlaps it: the assertion in `MaybeAddFile` fails, and without assertions the
search in a level that is not disjoint may miss a key. `ReadsSeeUpdates`:
`SetupOtherInputs` adds boundary files to `inputs_[0]` and none to `inputs_[1]`,
so a deletion may be dropped while an older entry of its key begins the file
beside the inputs, and the key is seen again. Both cases come up in `db_reads`.
`ManualNotNull`: an error recorded while the mutex is released lets the caller
of a manual compaction withdraw it, and the background thread dereferences
null. `MemTableCompacted`: the null batch of a forced flush that joins
another writer's group forces nothing. `OneHolder` and `HolderIsLocked`: not
after one of the three overlaps. `ReadsAllComplete` and `CrashIsNoCorruption`:
not behind a torn tail that was appended to; and a reader that starts inside a
record may report a corruption. `DecodersAgree`: a fifth byte that continues
loses its bits 4 to 6 without an error.

**Findings.** `dead_buttons`: `targets()` is never called, so ACCEPT TRIP and
cancel are dead. `accepted_button`: `RideActionView.setup(withConfig:)`
switches on the property `config`, which nothing assigns, instead of its
argument, so the button never becomes GET DIRECTIONS and asks for another ride.
`PROJECT.json` quotes what each contradicts.

Each property has a mutant in `PROJECT.json`: a plausible mistake in one mapped
definition under which TLC finds the property violated.

## 4. Proofs

All constants are arbitrary. The assumptions are the named `ASSUME`s of the
modules: disjoint accounts and disjoint sets of threads, finite sets of riders,
of drivers and of open files' slots, no driver with the name of the path
`driver-locations` (they are different paths of the database), values for
"none" outside the sets they complete,
natural bounds, `Responses` being lists of places, and leveldb's order of its
triggers (`kL0_CompactionTrigger <= kL0_SlowdownWritesTrigger <=
kL0_StopWritesTrigger`). TLC evaluates all of them.

**Trips** (TripDispatchProofs)

* `TypeCorrect`, `AnswersCorrect`. `TypeOK` is not inductive alone: that
  `Deliver` may take the head of `outbox` and lower `sent` needs an outstanding
  put for every answer on its way. `TypeInv` adds `DBInv`: `sent` is the number
  of answers in `inbox` and at most the length of `outbox`, and drivers have no
  value snapshot. The library's steps are proved once and
  cited for each step of the app. The counting rests on `AcksAppend` and
  `AcksTail`. `ClientsStayConsistent` puts the two together.
* `CoordinatesPresent`. `OffersReal`: every event, offer, engagement and put of
  a driver concerns a listed trip, one that exists on the server and has
  coordinates, and every put of a rider carries some. Merging keeps listed
  trips listed.
* `TripsFollowLifecycle`, the refinement. The initial states agree; the only
  step that changes `trips` is `Grant`, and `OffersReal` says which of the two
  abstract steps it is.
* `EngagedAfterGrant`. `GrantsHeld`: of a driver whose writes are not refused,
  every put among the first `sent`, every completion block and every engagement
  has its grant. The server answers in the order of the puts.
* `AssignmentsAreKnown`. `Holds(d, p)`: driver d has restarted, is engaged with
  p, has a put for p in `outbox` or a completion block of p in the main queue.
  A trip names a driver only through one of its puts, and each step hands the
  passenger on to the next of these places.
* `AcceptancesStand`, an action property. `RequestsCounted`: as long as a
  rider's connection holds, its unanswered puts, and one more if its record
  exists, are at most its taps. So a put of the rider that is granted on an
  accepted record comes from a further tap, or from a lost connection.
* `ViewsConverge`. `ViewInv`: a process that observes nothing has nothing on its
  way (`Started`); the last data in `inbox`, or the snapshot if there is none, is
  the server's record (`Delivered`); the last event in the main queue, or the
  screen if there is none, is the client's view (`Told`).
* `WaitingStaysReal`. `WaitInv`: the record, the messages, the snapshot, the
  queue and the screen are ever older, and what an older one knows the younger
  ones know (`Chronicle`, `Remembered`); a waiting rider with no event to come
  shows no acceptance (`Waits`); one whose record is missing has a failed
  upload, an outstanding put or a refused completion (`Answered`).

**Session** (SessionProofs)

* `SessionTypeCorrect`. `TypeInv` adds that the calls and callbacks of a sign-up
  carry a real account type: a log-in carries none, and nothing of a log-in may
  become a profile.
* `DriversLocated`. `PositionFirst`: every driver's profile waiting in `puts`
  is behind its position there, or its account already has a position or a
  refused write; and GeoFire's callback exists only for such an account. The
  order of the queue carries the argument. `AccountsStayConsistent` puts the
  two together.
* `SessionsSettle`. `ProfilesDue`: as long as no process died, an account that
  Auth knows has its profile, or had no location or a refused write, or
  `createUser`'s callback or the upload still waits. `ScreensDue`: controllers
  are numbered as they were pushed, and while the first screens are up nothing
  has called `setup()`, so there is no user and no fetch. `ObserversDue`
  counts: observers, blocks (a driver's sign-up twice), puts and unanswered
  reads together are at most the causes given (`due`).

**Home screen** (HomeScreenProofs)

* `HomeTypeCorrect`, `RiderNeverStuck`, `ScreensExclusive`, `FoundRowsAgree`.
  `ControlAhead` says that a control is there or an animation or fetch under way
  will bring one. `Phase` lists the phases of a process with one setup.
  `FoundRowIsChosen` is inductive with `TypeOK`. `ControlsStayConsistent` puts
  the first three together.
* `RoutesAccountedFor`. `RoutesLedger`: the ways to a selection that are open
  (`Chances`), the overlays and the destinations whose route is awaited are
  together at most one, and one for each setup and each late answer. Choosing
  spends a way, the back arrow brings it back and removes a route.
* `MapStaysConsistent`, about DriverAnnotations. `MapInv` follows a driver from
  the server to its pin:
  - `Typed`: types, and what each queue may hold. `ReadsCounted`: the reads of a
    profile are those that wait, the user blocks in the main queue and the
    removals in the client's queue. `RegsCounted`, the same for registrations.
    `SeenRight`: what the client knows of a profile is true, and is known or on
    its way while someone reads.
  - `QueriesFresh`: a query has no keys before it is registered and before its
    first block has run, which is ahead of all of its child events. So each
    report of a driver has a query of its own (`Reported`).
  - `Positions`: positions grow strictly from message to message, and over what
    the client has. `Listening`: a driver without a profile has one answer on
    its way, or the server will push the profile. `Overtaken`: an answer "no
    profile" that is no longer so has the profile behind it, ahead of the newest
    positions if positions were sent since. These carry the race between a
    sign-up's two writes and the client's reads.
  - `Followed`: a driver of the circle whom positions followed has newer
    positions ahead, or is in the cache with a step on its way to the pin: a block
    (`InMain`), a call or a waiting read (`InClient`), or the pin.
  - `Launched`: an authorized launch has started updates.

**leveldb**

* `LimitsAreKept` (PosixEnvProofs). `UnitsOut`: each counter of a limiter is its
  limit less the units that are out, those included that an `Acquire` which
  will refuse has borrowed; without them the counter says nothing between its
  two atomic steps.
* `LocksStayConsistent` (PosixEnvProofs). An entry of a process's `locks_`
  belongs to exactly one call of it (`EntriesOwned`); only DestroyDB deletes the
  lock file (`DeletersDestroy`). While no calls have overlapped, a process has
  one call that opens or closes and a DestroyDB is alone (`CallsApart`), and a
  handle is on the file with the name LOCK and has the kernel's lock on it
  (`LocksInPlace`).
* `CacheStaysConsistent` (PosixEnvProofs). Proved first of the cache as a value:
  `GoodCache` says of a cache and the handle that each thread uses that an
  entry's references are its users and, while it is in the hash table, the
  table; and that an entry of the hash table is in `lru_` if it has no user and
  in `in_use_` if it has one. `Ref`, `Unref`, `FinishErase`, the eviction of the
  oldest and `Insert` preserve it (`RefGood`, `UnrefGood`, `EraseGood`,
  `OldestEvicted`, `TableInserted`). `CacheInv` adds what the threads know: a
  file that one of them reads or opens is not deleted, and its handle is of that
  file. The bound on open tables comes from the end of the eviction: the charge
  fits or `lru_` is empty, and then each entry has a thread of its own
  (`UsedBounded`).
* `ListStaysConsistent` (SkipListProofs). `ListInv`: a link goes up and skips no
  node of its level (`LinksRight`); levels are nested, and a node with a link is
  in that level's list unless it is under insertion at the level reached
  (`LinksOwned`); the insertion has linked its node below that level and still
  has the right predecessors above (`InsertionRight`); a search stands on a node
  of the level it walks, before its key, and an answer is right
  (`SearchRight`). A step publishes one pointer, so that the proof never needs
  more of a reader than where it stands.
* `IteratorStaysConsistent` and `IteratorIsACursor`, the refinement of
  SnapshotIterator (SkipListProofs). `Less(dir, a, b)` is the order of the
  entries in a direction, so that `MergeNext` and `MergePrev` are handled once
  (`MovesOn`), and so are the seeks (`Sought`). `MergeGood`: the merging iterator
  stands on an entry of one child, and each other child on its first entry from
  there on, of those that the snapshot sees; an entry written later may lie
  between and be missed, which is why the snapshot's limit is in the invariant.
  `NextRight`, `SwitchRight` and `PrevRight` say of each loop that no answer has
  been passed, and what the locals mean: what is hidden behind `skipping` and
  `savedKey`, or the entry that `FindPrevUserEntry` has saved, with nothing that
  the snapshot sees between it and the position (`Saved`). `IdleRight` is what a
  later change of direction needs: in reverse, nothing of an earlier key has
  been passed. An insertion changes neither what the snapshot sees nor its view
  (`WritesAreUnseen`); a loop ends with the nearest answer (`LoopSteps`), which
  is what the cursor returns (`AnswerIsResult`).
* `BackgroundStaysConsistent`, `WritesStayLogged`, `MemTablesCompacted`
  (DBWritersProofs). `QueueInv`: the queue holds each thread in `Write` once and
  only its front works; `GroupInv`: a group is a prefix of the queue, led by a
  writer that is logging, and takes a write with sync only behind one; `LogInv`:
  a batch has at most one record, none before its write is over, and a write
  that is over without an error has one, in the synced part if it wanted sync;
  `FlushInv` and `WorkInv` for forced flushes and for the background job.
  A step leaves the queue alone (`CalmStep`), is taken by its front, which
  leaves, stays or leads a group (`FrontStep`, after joining or waking up),
  joins it behind others, or ends a group (`FinishStep`); each kind is handled
  once.
* The next three are proved of every state up to which every open could read its
  logs to their ends (`ReadWhole`: `skipped` is empty), with all other file
  operations failing as they may. An open that passes over batches gives their
  sequence numbers again and deletes their log, which the machine's death may
  bring back, and the invariants say that a number has one batch; what holds
  beyond such an open is checked by TLC (`db_errors`). `ReadWhole` only ever
  goes from true to false (`ReadWholeBefore`), so it is carried through the
  induction as a hypothesis.
* `FilesStayConsistent` (DBImplProofs), for both kinds of file system, and
  `DiskAndProcessAgree`, the invariant `Inv` it rests on. `DiskInv` is about the
  disk alone: CURRENT only moves forward, and every manifest that it may come
  to name, in one of the directory's states since it was last forced, is ahead
  of what an open would meet: its last edit's file number is above every table
  named before, its sequence number above every batch in those tables and in the
  logs it gives up (`EditsRight`, `PairsRight`). The strengthening is needed
  because the machine's death picks any state of the directory and any prefix
  of the unsynced edits. `ProcessInv` relates the process to the disk: the
  numbers to be given next are above all of that (`Numbers`, `SeqsBelow`), what
  it uses exists (`InUse`), its outputs are not yet named (`Outputs`), the edit
  being applied is ahead of all it will follow (`EditRight`), a batch has one
  sequence number among all that an open or a reader may meet
  (`BatchesUnique`), and a deleted log that may come back is older than the log
  number that counts (`LogsGone`). A step touches one file that matters to nobody
  (`HarmlessStep`), adds to the log (`LogStep`), appends to a manifest
  (`GainStep`, `AppendStep`), deletes (`ObsoleteStep`) or ends the process
  (`DownInv`); each kind is handled once.
* `NoWriteIsLost` (DBImplProofs), and `WritesAreKept`, the invariant `KeepsInv`
  it rests on, with `Inv`. What a reader finds and what the next open would find
  differ between any two steps, so `NoWriteLost` says nothing of the steps to
  come. `KeepsInv` says where each batch is: those of `mem_` and `imm_` in logs
  that no manifest gives up (`MemLogged`, `ImmLogged`), those of the current
  version in tables of the manifest, which can be read (`ManifestKeeps`), those
  of the logs already read in tables of the recovery (`RecoveryKeeps`), all that
  is due in what a reader finds (`AckedShown`) or the next open will
  (`DownKeeps`). `ManifestExact` is why `DeleteObsoleteFiles` must give up after
  an error: only without one does the manifest name the current version's tables
  and no others. A step that leaves what an open reads (`OpenKept`) keeps all of
  it; the appends to the manifest and the installation are handled one by one.
* `ManifestsReopen` (DBStoreProofs), where fsync forces the names too, and
  `NamesAreForced`, with `NamesInv`: for every state of the directory that the
  disk may hold and every part of its manifest that may survive, the manifest
  can be read and its tables are in that state (`OpensAlways`); tables that
  are to be named are in all states (`OutputsForced`), and a manifest is synced
  before CURRENT names it (`EditSynced`). The order of `BuildTable`,
  `WriteManifest`, `SyncManifest`, `WriteCurrent` and `DeleteObsoleteFiles`
  carries the argument, and that `SetCurrentFile`, when it fails, has not
  renamed anything before its manifest is deleted.
* `StoreIsDurable` (DBStoreProofs), the refinement of DurableStore, where fsync
  forces the names too and I/O does not fail (an I/O error may leave part of a
  record and what is logged behind it unread, the exceptions of `NoWriteLost`).
  `PromisesAreOnDisk` is its invariant, `StoreInv` with `Inv`, `KeepsInv` and
  `NamesInv`. The machine's death picks a state of the directory and a prefix of
  each file, so what it leaves must be known before it comes: for every state of
  the directory and every part of its manifest that may survive, a write that
  was acknowledged with sync is in a table that is there or in the synced part
  of a log (`AtLeast`), and nothing else is found than what a reader finds now
  or is under way (`AtMost`). The tables are wholly synced (`TablesSynced`), the
  logs after the current ones are empty (`LogsHeld`), and NewDB's manifest names
  nothing (`FirstEmpty`). Without a death, flushes, compactions, installs and
  recoveries leave contents as they are (`SameStore`): what a reader finds and
  the write under way are what the next open would find (`OpenFinds`). So every
  step but a write, the end of one, the end of an open and a death is a stutter
  of DurableStore.

Only model-checked:

* liveness (`TapsAnswered`, `HomeReached`, `DriverAppears`, `CallsReturn`,
  `ItemsRun`): fairness and ENABLED are beyond the provers used;
* what folds and recursive functions compute, which needs induction over data:
  LogFile, SortedTable, PbVarint, PbStream, VersionSet;
* not proved yet: `MemoryOwned` (PbRelease).

## 5. Not modelled

* `signOut()`: never called (`HomeViewController.swift:88` is commented out).
* `zoomToFit`: floating-point geometry in one call.
* The progress ring, cells, colours and layout: no behaviour depends on them.
* E-mail, password and full name: the account stands for them. What Auth checks
  of them is the choice between `AuthSuccess` and `AuthFailure`.
* Features of the database client that the app does not use: transactions,
  `setValue`, priorities, limited queries, persistence.
* Of leveldb's tables: compression, checksums, the footer and the metaindex,
  the block cache, the bits of the Bloom filter. Write batches as bytes, repair
  and dump tools (called by nothing), the C interface and utilities.
* nanopb's extensions, required and fixed-count fields, fixed-width types.
* The other pods. Most of the repository's C-family lines are their headers:
  declarations and API comments, repeated for every platform of a binary
  framework, and generated message descriptors. They hold no control flow to
  translate. Their implementations are Objective-C behind calls that the
  models treat as external (Auth's answers, the transport). So the share of
  all C, C++ and header lines that the models stand for stays small, although
  it is most of what leveldb's `db/` and nanopb do.

## 6. Plan

Done: every module above, and the theorems of section 4. What is left is proof,
in this order:

1. `MemoryOwned` (PbRelease).
