-------------------------- MODULE LocationServices --------------------------
(***************************************************************************)
(* The location manager that the home screen and the sign-up screen share: *)
(* what the app asks of it at launch and on a change of authorization, and *)
(* when it has a location to read.                                         *)
(***************************************************************************)
EXTENDS Naturals

CONSTANT MaxChanges     \* bound: changes of the authorization

ASSUME ChangesAssumption == MaxChanges \in Nat

Authorization == {"notDetermined", "denied", "whenInUse", "always"}

VARIABLES
    auth,       \* CLLocationManager.authorizationStatus
    prompt,     \* what the system's dialogue on the screen offers, if any
    updating,   \* startUpdatingLocation was called in this process
    fix,        \* CLLocationManager.location is not nil
    atLaunch,   \* history: the authorization when this process was launched
    changes     \* changes of the authorization so far

locationVars == <<auth, prompt, updating, fix, atLaunch, changes>>

LocationTypeOK ==
    /\ auth \in Authorization
    /\ prompt \in {"none", "whenInUse", "always"}
    /\ updating \in BOOLEAN
    /\ fix \in BOOLEAN
    /\ atLaunch \in Authorization
    /\ changes \in 0 .. MaxChanges

Authorized == {"whenInUse", "always"}

\* Where enableLocationServices calls startUpdatingLocation.
StartsUpdates(status) == status \in Authorized

\* The dialogue that enableLocationServices asks for.
Asks(status) ==
    CASE status = "notDetermined" -> "whenInUse"
      [] status = "whenInUse" -> "always"
      [] OTHER -> "none"

\* A launch: viewDidLoad calls enableLocationServices once.
EnableLocationServices(status) ==
    /\ prompt' = Asks(status)
    /\ updating' = StartsUpdates(status)
    /\ atLaunch' = status

LocationInit ==
    /\ auth \in Authorization
    /\ prompt = Asks(auth)
    /\ updating = StartsUpdates(auth)
    /\ fix = FALSE
    /\ atLaunch = auth
    /\ changes = 0

\* The user answers the dialogue or changes the setting.  The delegate then
\* asks for the right it was just given, which shows no dialogue, and starts
\* nothing.
LocationManagerDidChangeAuthorization(status) ==
    /\ changes < MaxChanges
    /\ changes' = changes + 1
    /\ status \in Authorization \ {auth, "notDetermined"}
    /\ auth' = status
    /\ prompt' = "none"
    /\ UNCHANGED <<updating, fix, atLaunch>>

\* The system has a location, from these updates or from an earlier user.
LocationFix ==
    /\ auth \in Authorized
    /\ ~fix
    /\ fix' = TRUE
    /\ UNCHANGED <<auth, prompt, updating, atLaunch, changes>>

\* A rider who may be located and is not asked for updates either gave the
\* right during this process, which starts none, or is denied again: after
\* the next launch updates run.
UpdatesAfterLaunch ==
    auth \in Authorized /\ ~updating => atLaunch \notin Authorized
=============================================================================
