------------------------------- MODULE Session -------------------------------
(***************************************************************************)
(* Signing up, logging in and setting up the home screen on one device:    *)
(* LoginViewController, SignUpViewController and the parts of              *)
(* HomeViewController and FirebaseService that they lead to.               *)
(*                                                                         *)
(* Every tap starts a chain of callbacks: the answer of Firebase Auth,     *)
(* then for a sign-up the writes of the profile (users/) and of a driver's *)
(* position (driver-locations/), then setup() with its fetch of the        *)
(* profile, whose answer sets HomeViewController.user and registers the    *)
(* trip observers.  No button is disabled meanwhile, so chains overlap;    *)
(* the process may die between any two links.  Auth keeps the signed-in    *)
(* account across launches and nothing signs it out.                       *)
(***************************************************************************)
EXTENDS Naturals, Sequences

CONSTANTS
    Accounts,       \* e-mail addresses, and the uids they are given
    Existing,       \* accounts signed up earlier, elsewhere
    MayRefuse,      \* may the server's rules refuse a write?
    MaxTaps,        \* bound: Log In and Sign Up taps
    MaxPushes,      \* bound: sign-up screens opened
    MaxDeaths       \* bound: process deaths

ASSUME ExistingAssumption == Existing \subseteq Accounts
ASSUME RefuseAssumption == MayRefuse \in BOOLEAN
ASSUME BoundsAssumption == MaxTaps \in Nat /\ MaxPushes \in Nat /\ MaxDeaths \in Nat

AccountType == {"passenger", "driver"}

\* "none" is a missing record, and the type a Log In does not send.
Profile == AccountType \cup {"none"}

VARIABLES
    registered,     \* Auth: the accounts it knows
    currentUser,    \* Auth.auth().currentUser, {} for nil; survives the process
    users,          \* server: users/
    positions,      \* server: the keys of driver-locations/
    screen,         \* what is in front: login, signup, or home
    pushes,         \* the sign-up controller on the stack, by number
    location,       \* its location property, read when it was made: is it set?
    fix,            \* CLLocationManager.location is not nil
    taps,           \* Log In and Sign Up taps of this process
    calls,          \* requests to Auth that are not answered
    puts,           \* database writes that are not answered, oldest first
    fetches,        \* reads of users/<uid> that are not answered
    mainQ,          \* callbacks dispatched to the main queue
    user,           \* HomeViewController.user, {} for nil
    observers,      \* trip observers registered, by account type
    due,            \* history: setups this process has been given cause for
    refused,        \* history: accounts with a refused write
    unlocated,      \* history: drivers created without a location
    deaths          \* process deaths so far

authVars == <<registered, currentUser>>
serverVars == <<users, positions, refused>>
screenVars == <<screen, pushes, location>>
homeVars == <<user, observers>>
vars == <<authVars, serverVars, screenVars, homeVars, fix, taps, calls, puts,
          fetches, mainQ, due, unlocated, deaths>>

\* A request to Auth; ctrl is the sign-up controller that made it, 0 for the
\* login controller, and loc whether that controller has a location.
Call == [tap : 1 .. MaxTaps, kind : {"create", "signIn"}, uid : Accounts,
         type : Profile, loc : BOOLEAN, ctrl : 0 .. MaxPushes]
Put == [kind : {"setLocation", "upload"}, uid : Accounts, type : AccountType,
        ctrl : 0 .. MaxPushes]
Block == [kind : {"create", "signIn", "setLocation", "geofire", "upload", "fetch"},
          uid : Accounts, type : Profile, loc : BOOLEAN, ctrl : 0 .. MaxPushes]

TypeOK ==
    /\ registered \subseteq Accounts
    /\ currentUser \subseteq registered
    /\ users \in [Accounts -> Profile]
    /\ positions \subseteq Accounts
    /\ screen \in {"login", "signup", "home"}
    /\ pushes \in 0 .. MaxPushes
    /\ location \in BOOLEAN
    /\ fix \in BOOLEAN
    /\ taps \in 0 .. MaxTaps
    /\ calls \subseteq Call
    /\ puts \in Seq(Put)
    /\ fetches \in [Accounts -> Nat]
    /\ mainQ \in Seq(Block)
    /\ user \subseteq [uid : Accounts, type : AccountType]
    /\ observers \in [AccountType -> Nat]
    /\ due \in Nat
    /\ refused \subseteq Accounts
    /\ unlocated \subseteq Accounts
    /\ deaths \in 0 .. MaxDeaths

\* A fresh install; the accounts that exist have a profile, drivers a position.
Init ==
    /\ registered = Existing
    /\ currentUser = {}
    /\ \E type \in [Existing -> AccountType] :
         /\ users = [u \in Accounts |-> IF u \in Existing THEN type[u] ELSE "none"]
         /\ positions = {u \in Existing : type[u] = "driver"}
    /\ screen = "login"
    /\ pushes = 0
    /\ location = FALSE
    /\ fix \in BOOLEAN
    /\ taps = 0
    /\ calls = {}
    /\ puts = <<>>
    /\ fetches = [u \in Accounts |-> 0]
    /\ mainQ = <<>>
    /\ user = {}
    /\ observers = [t \in AccountType |-> 0]
    /\ due = 0
    /\ refused = {}
    /\ unlocated = {}
    /\ deaths = 0

-----------------------------------------------------------------------------
(* The authentication screens.                                             *)

\* LoginViewController.onSignUp: a new controller, with the location of now.
OnSignUp ==
    /\ screen = "login"
    /\ pushes < MaxPushes
    /\ screen' = "signup"
    /\ pushes' = pushes + 1
    /\ location' = fix
    /\ UNCHANGED <<authVars, serverVars, homeVars, fix, taps, calls, puts, fetches,
                   mainQ, due, unlocated, deaths>>

\* SignUpViewController.onLogin pops the controller; what it started goes on.
OnLoginPop ==
    /\ screen = "signup"
    /\ screen' = "login"
    /\ UNCHANGED <<authVars, serverVars, pushes, location, homeVars, fix, taps, calls,
                   puts, fetches, mainQ, due, unlocated, deaths>>

Ask(call) ==
    /\ taps < MaxTaps
    /\ taps' = taps + 1
    /\ calls' = calls \cup {call}
    /\ UNCHANGED <<authVars, serverVars, screenVars, homeVars, fix, puts, fetches,
                   mainQ, due, unlocated, deaths>>

\* LoginViewController.onLogin.
OnLogin(u) ==
    /\ screen = "login"
    /\ Ask([tap |-> taps + 1, kind |-> "signIn", uid |-> u, type |-> "none",
            loc |-> FALSE, ctrl |-> 0])

\* SignUpViewController.onSignUpComplete, up to createUser.
OnSignUpComplete(u, type) ==
    /\ screen = "signup"
    /\ Ask([tap |-> taps + 1, kind |-> "create", uid |-> u, type |-> type,
            loc |-> location, ctrl |-> pushes])

\* CLLocationManager has a location from now on.
LocationFix ==
    /\ ~fix
    /\ fix' = TRUE
    /\ UNCHANGED <<authVars, serverVars, screenVars, homeVars, taps, calls, puts,
                   fetches, mainQ, due, unlocated, deaths>>

-----------------------------------------------------------------------------
(* Firebase Auth and the database server.                                  *)

Enqueue(kind, uid, type, loc, ctrl) ==
    mainQ' = Append(mainQ, [kind |-> kind, uid |-> uid, type |-> type,
                            loc |-> loc, ctrl |-> ctrl])

\* A request succeeds: the account is current before its callback runs.
AuthSuccess(c) ==
    /\ c \in calls
    /\ (c.kind = "create") <=> (c.uid \notin registered)
    /\ calls' = calls \ {c}
    /\ registered' = registered \cup {c.uid}
    /\ currentUser' = {c.uid}
    /\ Enqueue(c.kind, c.uid, c.type, c.loc, c.ctrl)
    /\ due' = due + (IF c.type = "driver" THEN 2 ELSE 1)
    /\ unlocated' = IF c.type = "driver" /\ ~c.loc
                    THEN unlocated \cup {c.uid}
                    ELSE unlocated
    /\ UNCHANGED <<serverVars, screenVars, homeVars, fix, taps, puts, fetches, deaths>>

\* A request fails; its callback prints the error and returns.
AuthFailure(c) ==
    /\ c \in calls
    /\ calls' = calls \ {c}
    /\ UNCHANGED <<authVars, serverVars, screenVars, homeVars, fix, taps, puts,
                   fetches, mainQ, due, unlocated, deaths>>

\* The server takes the oldest write, or refuses it; its callback is called
\* either way.
ServerPut(ok) ==
    /\ puts # <<>>
    /\ ok \/ MayRefuse
    /\ LET w == Head(puts)
       IN  /\ users' = IF ok /\ w.kind = "upload"
                       THEN [users EXCEPT ![w.uid] = w.type]
                       ELSE users
           /\ positions' = IF ok /\ w.kind = "setLocation"
                           THEN positions \cup {w.uid}
                           ELSE positions
           /\ refused' = IF ok THEN refused ELSE refused \cup {w.uid}
           /\ Enqueue(w.kind, w.uid, w.type, FALSE, w.ctrl)
    /\ puts' = Tail(puts)
    /\ UNCHANGED <<authVars, screenVars, homeVars, fix, taps, calls, fetches, due,
                   unlocated, deaths>>

\* The server answers a read of users/u.
ServerFetch(u) ==
    /\ fetches[u] > 0
    /\ fetches' = [fetches EXCEPT ![u] = @ - 1]
    /\ Enqueue("fetch", u, users[u], FALSE, 0)
    /\ UNCHANGED <<authVars, serverVars, screenVars, homeVars, fix, taps, calls, puts,
                   due, unlocated, deaths>>

-----------------------------------------------------------------------------
(* The callbacks.                                                          *)

RunBlock(kind) ==
    /\ mainQ # <<>>
    /\ Head(mainQ).kind = kind
    /\ mainQ' = Tail(mainQ)

Upload(b) == [kind |-> "upload", uid |-> b.uid, type |-> b.type, ctrl |-> b.ctrl]
SetLocation(b) == [kind |-> "setLocation", uid |-> b.uid, type |-> b.type, ctrl |-> b.ctrl]

\* Mutant: the profile is written before the position.
SignUpPutsProfileFirst(b) ==
    IF b.type = "driver"
    THEN IF b.loc THEN <<Upload(b), SetLocation(b)>> ELSE <<>>
    ELSE <<Upload(b)>>

\* Mutant: the upload after the if is lost, as if it belonged to drivers only.
SignUpPutsDriversOnly(b) ==
    IF b.type = "driver" /\ b.loc THEN <<SetLocation(b), Upload(b)>> ELSE <<>>

\* What createUser's callback writes: for a driver it returns before the
\* upload unless the controller has a location.
SignUpPuts(b) ==
    IF b.type = "driver"
    THEN IF b.loc THEN <<SetLocation(b), Upload(b)>> ELSE <<>>
    ELSE <<Upload(b)>>

OnCreated ==
    /\ RunBlock("create")
    /\ puts' = puts \o SignUpPuts(Head(mainQ))
    /\ UNCHANGED <<authVars, serverVars, screenVars, homeVars, fix, taps, calls,
                   fetches, due, unlocated, deaths>>

\* GeoFire dispatches the callback of its write to the main queue once more.
GeoFireDone ==
    /\ mainQ # <<>>
    /\ Head(mainQ).kind = "setLocation"
    /\ mainQ' = Append(Tail(mainQ), [Head(mainQ) EXCEPT !.kind = "geofire"])
    /\ UNCHANGED <<authVars, serverVars, screenVars, homeVars, fix, taps, calls, puts,
                   fetches, due, unlocated, deaths>>

\* setLocation's callback writes the profile again, whatever the error says.
OnLocationSet ==
    /\ RunBlock("geofire")
    /\ puts' = Append(puts, Upload(Head(mainQ)))
    /\ UNCHANGED <<authVars, serverVars, screenVars, homeVars, fix, taps, calls,
                   fetches, due, unlocated, deaths>>

\* Mutant: setup() lays the views out and fetches nothing.
SetupStyleOnly == UNCHANGED fetches

\* HomeViewController.setup: fetchUserData of the account that is current now.
Setup == fetches' = [u \in Accounts |-> fetches[u] + (IF u \in currentUser THEN 1 ELSE 0)]

\* dismiss(animated:) takes the navigation stack away, but only when called on
\* a controller that is on it.
Dismiss(ctrl) ==
    screen' = IF ctrl = 0 \/ (screen = "signup" /\ ctrl = pushes) THEN "home" ELSE screen

\* signIn's callback, and the callback of the profile's upload: an error of
\* the upload is not looked at.
OnSignedInOrUploaded ==
    /\ RunBlock("signIn") \/ RunBlock("upload")
    /\ Setup
    /\ Dismiss(Head(mainQ).ctrl)
    /\ UNCHANGED <<authVars, serverVars, pushes, location, homeVars, fix, taps, calls,
                   puts, due, unlocated, deaths>>

\* fetchUserData's closure: a snapshot without a dictionary is ignored.
UserOf(b, before) == IF b.type = "none" THEN before ELSE {[uid |-> b.uid, type |-> b.type]}

\* user.didSet registers the observers of the account's type.
OnFetched ==
    /\ RunBlock("fetch")
    /\ user' = UserOf(Head(mainQ), user)
    /\ observers' = [t \in AccountType |->
                       observers[t] + (IF Head(mainQ).type = t THEN 1 ELSE 0)]
    /\ UNCHANGED <<authVars, serverVars, screenVars, fix, taps, calls, puts, fetches,
                   due, unlocated, deaths>>

\* The process dies, Auth having served any of the requests on their way, and
\* is launched again: checkIfUserLoggedIn chooses between login and setup.
Restart ==
    /\ deaths < MaxDeaths
    /\ deaths' = deaths + 1
    /\ \E served \in SUBSET {c.uid : c \in {x \in calls : x.kind = "create"}} :
         registered' = registered \cup served
    /\ screen' = IF currentUser = {} THEN "login" ELSE "home"
    /\ pushes' = 0
    /\ location' = FALSE
    /\ taps' = 0
    /\ calls' = {}
    /\ puts' = <<>>
    /\ fetches' = [u \in Accounts |-> IF u \in currentUser THEN 1 ELSE 0]
    /\ mainQ' = <<>>
    /\ user' = {}
    /\ observers' = [t \in AccountType |-> 0]
    /\ due' = IF currentUser = {} THEN 0 ELSE 1
    /\ fix' \in BOOLEAN
    /\ UNCHANGED <<currentUser, serverVars, unlocated>>

-----------------------------------------------------------------------------
UserTap ==
    \/ OnSignUp
    \/ OnLoginPop
    \/ \E u \in Accounts : OnLogin(u)
    \/ \E u \in Accounts, t \in AccountType : OnSignUpComplete(u, t)

Service ==
    \/ \E c \in calls : AuthSuccess(c) \/ AuthFailure(c)
    \/ \E ok \in BOOLEAN : ServerPut(ok)
    \/ \E u \in Accounts : ServerFetch(u)

Callback == OnCreated \/ GeoFireDone \/ OnLocationSet \/ OnSignedInOrUploaded \/ OnFetched

Next == UserTap \/ LocationFix \/ Service \/ Callback \/ Restart

Spec == Init /\ [][Next]_vars

\* The main queue runs its blocks and the database answers, since the library
\* retries its connection for ever.  Nothing is assumed of users or of Auth.
FairSpec ==
    /\ Spec
    /\ WF_vars(Callback)
    /\ WF_vars(\E ok \in BOOLEAN : ServerPut(ok))
    /\ \A u \in Accounts : WF_vars(ServerFetch(u))

-----------------------------------------------------------------------------
(* Properties.                                                             *)

\* No callback is still to come.
Quiet ==
    /\ calls = {} /\ puts = <<>> /\ mainQ = <<>>
    /\ \A u \in Accounts : fetches[u] = 0

\* A driver has a position before it has a profile, whatever is tapped twice
\* or dies half-way: riders never fetch a driver they could not place on the
\* map.  Only a refused write breaks it, since setLocation's error is ignored.
DriverIsLocated ==
    \A u \in Accounts : users[u] = "driver" => u \in positions \cup refused

\* An account is left signed in without a profile, which makes a home screen
\* without any control, only if it is a driver's that signed up before the
\* phone had a location, if a write was refused, or if the process died.
MissingProfileExplained ==
    \A u \in currentUser :
       Quiet /\ users[u] = "none" => u \in unlocated \cup refused \/ deaths > 0

\* Once home knows its user the login screens are gone, unless the user went
\* back from a sign-up screen whose controller was to dismiss them.
LoginDismissed ==
    Quiet /\ user # {} /\ screen # "home" =>
       pushes > 1 \/ (pushes = 1 /\ screen = "login")

\* Observers are not registered more often than taps give cause for: once for
\* a launch or a log in, once for a rider's sign-up, twice for a driver's.
ObserversAccountedFor ==
    observers["passenger"] + observers["driver"] <= due

\* A signed-in account with a profile gets its home screen, across deaths and
\* refused writes, unless another account signs in over it.
HomeReached ==
    \A u \in Accounts :
       (currentUser = {u} /\ users[u] # "none") ~> (user # {} \/ currentUser # {u})

\* The accounts that sign-ups leave on the server are consistent: everything
\* has its type, and every driver's profile has its position before it.
AccountsConsistent == TypeOK /\ DriverIsLocated

\* Whatever taps overlap, a session settles: a profile that is missing has its
\* reason, the login screens are gone, and no observer is one too many.
SessionSettles == MissingProfileExplained /\ LoginDismissed /\ ObserversAccountedFor
=============================================================================
