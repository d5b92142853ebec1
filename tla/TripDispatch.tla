---------------------------- MODULE TripDispatch ----------------------------
(***************************************************************************)
(* Requesting, offering and accepting a trip: HomeViewController,          *)
(* RideActionView and PickupViewController of every rider and driver, over *)
(* the database of RealtimeDB.                                             *)
(*                                                                         *)
(* A rider picks a destination, confirms, and waits behind a full-screen   *)
(* loading view until its own record says "accepted".  A driver's app is   *)
(* told of every trip record once, presents a pickup screen for it unless  *)
(* another one is up, and writes its uid into the record on ACCEPT TRIP.   *)
(* Handlers run on the main queue, one at a time; user taps fall between   *)
(* any two of them.                                                        *)
(***************************************************************************)
EXTENDS RealtimeDB

CONSTANTS
    PickupTargets,  \* are the pickup screen's buttons wired to their handlers?
    MaxRequests,    \* bound: CONFIRM UBERX taps per rider
    MaxAccepts      \* bound: ACCEPT TRIP taps per driver

ASSUME TargetsAssumption == PickupTargets \in BOOLEAN
ASSUME TapsAssumption == MaxRequests \in Nat /\ MaxAccepts \in Nat

VARIABLES
    trip,           \* rider: HomeViewController.trip, NoTrip for nil
    loading,        \* rider: a loading view (tag 1) covers the screen
    ride,           \* the ride action view: hidden, or the config it shows
    buttonAction,   \* RideActionView.buttonAction
    hasDest,        \* rider: RideActionView.destination is set
    button,         \* rider: actionButtonConfiguration
    uploadFailed,   \* rider: the last upload was answered with an error
    pickup,         \* driver: the presented pickup screen's trip, if any
    leaving,        \* driver: that screen is being dismissed
    rideAfter,      \* driver: the dismissal will show the ride action view
    engaged,        \* driver: trips didAcceptTrip was called for
    taps,           \* writes the user made so far
    granted,        \* history: accepts the server applied
    restarted       \* history: the process died at least once

riderVars == <<trip, loading, hasDest, button, uploadFailed>>
driverVars == <<pickup, leaving, rideAfter, engaged>>
rideVars == <<ride, buttonAction>>
history == <<granted, restarted>>
vars == <<dbVars, riderVars, driverVars, rideVars, taps, history>>

\* RideActionView.Configuration; only these two are ever passed to setup.
Configuration == {"requestRide", "tripAccepted"}
ButtonAction == {"requestRide", "getDirections"}
Offer == [of : Passengers, trip : Trip]
Engagement == [of : Passengers, place : Places \cup {NoPlace}]

TypeOK ==
    /\ DBTypeOK
    /\ trip \in [Passengers -> Trip]
    /\ loading \in [Passengers -> BOOLEAN]
    /\ ride \in [Clients -> Configuration \cup {"hidden"}]
    /\ buttonAction \in [Clients -> ButtonAction]
    /\ hasDest \in [Passengers -> BOOLEAN]
    /\ button \in [Passengers -> {"showMenu", "dismissActionView"}]
    /\ uploadFailed \in [Passengers -> BOOLEAN]
    /\ pickup \in [Drivers -> SUBSET Offer]
    /\ leaving \in [Drivers -> BOOLEAN]
    /\ rideAfter \in [Drivers -> BOOLEAN]
    /\ engaged \in [Drivers -> SUBSET Engagement]
    /\ taps \in [Clients -> Nat]
    /\ granted \subseteq Drivers \X Passengers
    /\ restarted \in [Clients -> BOOLEAN]

Init ==
    /\ DBInit
    /\ trip = [p \in Passengers |-> NoTrip]
    /\ loading = [p \in Passengers |-> FALSE]
    /\ ride = [c \in Clients |-> "hidden"]
    /\ buttonAction = [c \in Clients |-> "requestRide"]
    /\ hasDest = [p \in Passengers |-> FALSE]
    /\ button = [p \in Passengers |-> "showMenu"]
    /\ uploadFailed = [p \in Passengers |-> FALSE]
    /\ pickup = [d \in Drivers |-> {}]
    /\ leaving = [d \in Drivers |-> FALSE]
    /\ rideAfter = [d \in Drivers |-> FALSE]
    /\ engaged = [d \in Drivers |-> {}]
    /\ taps = [c \in Clients |-> 0]
    /\ granted = {}
    /\ restarted = [c \in Clients |-> FALSE]

-----------------------------------------------------------------------------
(* The ride action view.                                                   *)

\* The private property setup(withConfig:) switches on; nothing assigns it.
config == "requestRide"

\* The button after setup(withConfig:), which was b before.
Setup(withConfig, b) ==
    CASE config = "requestRide" -> "requestRide"
      [] config = "tripAccepted" -> "getDirections"
      [] OTHER -> b

\* presentRideActionView(shouldShow: true, config: withConfig).
PresentRideActionView(c, withConfig) ==
    /\ ride' = [ride EXCEPT ![c] = withConfig]
    /\ buttonAction' = [buttonAction EXCEPT ![c] = Setup(withConfig, @)]

\* presentRideActionView(shouldShow: false).
HideRideActionView(c) ==
    /\ ride' = [ride EXCEPT ![c] = "hidden"]
    /\ UNCHANGED buttonAction

\* shouldPresentLoadingView: adds a loading view, or removes every one.
ShouldPresentLoadingView(p, present) == loading' = [loading EXCEPT ![p] = present]

-----------------------------------------------------------------------------
(* The rider.                                                              *)

\* user.didSet of a passenger account, through Service.observeCurrentTrip.
ObserveCurrentTrip(p) ==
    /\ ObserveValue(p)
    /\ UNCHANGED <<riderVars, driverVars, rideVars, taps, history>>

\* didSelectRowAt: a destination is chosen from the input view, which is
\* reached through the activation view; that one shows with the menu button,
\* and a second user.didSet shows it again.
DidSelectRow(p) ==
    /\ regs[p] > 0
    /\ ~loading[p]
    /\ button[p] = "showMenu" \/ regs[p] > 1
    /\ button' = [button EXCEPT ![p] = "dismissActionView"]
    /\ hasDest' = [hasDest EXCEPT ![p] = TRUE]
    /\ PresentRideActionView(p, "requestRide")
    /\ UNCHANGED <<dbVars, trip, loading, uploadFailed, driverVars, taps, history>>

\* actionButtonPressed; as the menu button it does nothing.
ActionButtonPressed(p) ==
    /\ ~loading[p]
    /\ button[p] = "dismissActionView"
    /\ button' = [button EXCEPT ![p] = "showMenu"]
    /\ HideRideActionView(p)
    /\ UNCHANGED <<dbVars, trip, loading, hasDest, uploadFailed, driverVars, taps, history>>

\* Service.uploadTrip's dictionary: no driverUid.
UploadTrip(p, place) ==
    [write |-> [path |-> p, place |-> place, state |-> "requested", driver |-> NoDriver],
     trip |-> NoTrip]

\* onRide -> uploadTrip(_:): the button asks for a ride whatever its title;
\* the loading view covers it afterwards.
OnRide(p, place) ==
    /\ ride[p] # "hidden"
    /\ hasDest[p]
    /\ ~loading[p]
    /\ taps[p] < MaxRequests
    /\ taps' = [taps EXCEPT ![p] = @ + 1]
    /\ ShouldPresentLoadingView(p, TRUE)
    /\ uploadFailed' = [uploadFailed EXCEPT ![p] = FALSE]
    /\ UpdateChildValues(p, UploadTrip(p, place))
    /\ UNCHANGED <<trip, hasDest, button, driverVars, rideVars, history>>

\* The closure of observeCurrentTrip: a snapshot without a dictionary is
\* ignored, an accepted trip ends the wait and shows the ride action view.
HandleValue(p) ==
    /\ RunBlock(p, "event")
    /\ LET t == Head(mainQ[p]).trip
       IN  /\ trip' = IF t = NoTrip THEN trip ELSE [trip EXCEPT ![p] = t]
           /\ IF t.state = "accepted"
              THEN /\ ShouldPresentLoadingView(p, FALSE)
                   /\ PresentRideActionView(p, "tripAccepted")
              ELSE UNCHANGED <<loading, rideVars>>
    /\ UNCHANGED <<hasDest, button, uploadFailed, driverVars, taps, history>>

\* The completion block of uploadTrip: an error is printed and nothing else,
\* success slides the ride action view out.
HandleUploadDone(p) ==
    /\ RunBlock(p, "done")
    /\ IF Head(mainQ[p]).ok
       THEN /\ HideRideActionView(p)
            /\ UNCHANGED uploadFailed
       ELSE /\ uploadFailed' = [uploadFailed EXCEPT ![p] = TRUE]
            /\ UNCHANGED rideVars
    /\ UNCHANGED <<trip, loading, hasDest, button, driverVars, taps, history>>

-----------------------------------------------------------------------------
(* The driver.                                                             *)

\* user.didSet of a driver account, through Service.observeTrips.
ObserveTrips(d) ==
    /\ ObserveChildAdded(d)
    /\ UNCHANGED <<riderVars, driverVars, rideVars, taps, history>>

\* trip.didSet: UIKit refuses present() while a screen is presented or on its
\* way out, and the offer is gone.
HandleChildAdded(d) ==
    /\ RunBlock(d, "event")
    /\ pickup' = IF pickup[d] = {}
                 THEN [pickup EXCEPT ![d] = {[of |-> Head(mainQ[d]).of,
                                              trip |-> Head(mainQ[d]).trip]}]
                 ELSE pickup
    /\ UNCHANGED <<leaving, rideAfter, engaged, riderVars, rideVars, taps, history>>

\* Service.acceptTrip's dictionary, and the trip its completion block holds.
AcceptTrip(d, o) ==
    [write |-> [path |-> o.of, place |-> NoPlace, state |-> "accepted", driver |-> d],
     trip |-> o.trip]

\* Mutant: didAcceptTrip is called next to the write, not from its completion.
HandleAcceptTripAtOnce(d) ==
    /\ PickupTargets
    /\ ~leaving[d]
    /\ taps[d] < MaxAccepts
    /\ \E o \in pickup[d] :
         /\ UpdateChildValues(d, AcceptTrip(d, o))
         /\ engaged' = [engaged EXCEPT ![d] = @ \cup {[of |-> o.of, place |-> o.trip.place]}]
    /\ taps' = [taps EXCEPT ![d] = @ + 1]
    /\ UNCHANGED <<pickup, leaving, rideAfter, riderVars, rideVars, history>>

\* handleAcceptTrip: the screen stays up until the write is answered.
HandleAcceptTrip(d) ==
    /\ PickupTargets
    /\ ~leaving[d]
    /\ taps[d] < MaxAccepts
    /\ \E o \in pickup[d] : UpdateChildValues(d, AcceptTrip(d, o))
    /\ taps' = [taps EXCEPT ![d] = @ + 1]
    /\ UNCHANGED <<driverVars, riderVars, rideVars, history>>

\* handleDismissal.
HandleDismissal(d) ==
    /\ PickupTargets
    /\ pickup[d] # {} /\ ~leaving[d]
    /\ leaving' = [leaving EXCEPT ![d] = TRUE]
    /\ UNCHANGED <<dbVars, pickup, rideAfter, engaged, riderVars, rideVars, taps, history>>

\* didAcceptTrip, run by the completion block whatever its error says.  The
\* screen it dismisses is the one that is up now; without one, or with one
\* already leaving, UIKit may or may not run the completion closure.
DidAcceptTrip(d) ==
    /\ RunBlock(d, "done")
    /\ engaged' = [engaged EXCEPT ![d] = @ \cup {[of |-> Head(mainQ[d]).of,
                                                  place |-> Head(mainQ[d]).trip.place]}]
    /\ leaving' = [leaving EXCEPT ![d] = pickup[d] # {}]
    /\ \/ /\ pickup[d] # {}
          /\ rideAfter' = [rideAfter EXCEPT ![d] = TRUE]
          /\ UNCHANGED rideVars
       \/ /\ pickup[d] = {}
          /\ PresentRideActionView(d, "tripAccepted")
          /\ UNCHANGED rideAfter
       \/ /\ pickup[d] = {} \/ leaving[d]
          /\ UNCHANGED <<rideAfter, rideVars>>
    /\ UNCHANGED <<pickup, riderVars, taps, history>>

\* The dismissal's animation ends and its completion closure runs.
DismissDone(d) ==
    /\ leaving[d]
    /\ pickup' = [pickup EXCEPT ![d] = {}]
    /\ leaving' = [leaving EXCEPT ![d] = FALSE]
    /\ rideAfter' = [rideAfter EXCEPT ![d] = FALSE]
    /\ IF rideAfter[d]
       THEN PresentRideActionView(d, "tripAccepted")
       ELSE UNCHANGED rideVars
    /\ UNCHANGED <<dbVars, engaged, riderVars, taps, history>>

-----------------------------------------------------------------------------
\* A further setup(), from a second tap on Log In or a driver's second profile
\* write: layout() puts the ride action view back below the screen and the map
\* in front of a loading view.  The user fetch it starts ends in another
\* ObserveCurrentTrip or ObserveTrips, or never.
SetupAgain(c) ==
    /\ regs[c] \in 1 .. (MaxRegs(c) - 1)
    /\ HideRideActionView(c)
    /\ loading' = [p \in Passengers |-> loading[p] /\ p # c]
    /\ UNCHANGED <<dbVars, trip, hasDest, button, uploadFailed, driverVars, taps, history>>

-----------------------------------------------------------------------------
(* The library, the network and the server; the screens stay as they are.  *)

uiVars == <<riderVars, driverVars, rideVars, taps>>

Library(c) ==
    /\ \/ Deliver(c)
       \/ Reconnect(c)
       \/ Disconnect(c)
    /\ UNCHANGED <<uiVars, history>>

TripsEvent(d) ==
    /\ \E p \in Passengers : ChildAdded(d, p) \/ ChildChanged(d, p)
    /\ UNCHANGED <<uiVars, history>>

Grant(c) ==
    /\ ServerApply(c)
    /\ granted' = IF c \in Drivers
                  THEN granted \cup {<<c, NextPut(c).write.path>>}
                  ELSE granted
    /\ UNCHANGED <<uiVars, restarted>>

Refuse(c) ==
    /\ ServerReject(c)
    /\ UNCHANGED <<uiVars, history>>

\* The process dies: views and controllers are built anew.
RestartRider(p) ==
    /\ Restart(p)
    /\ trip' = [trip EXCEPT ![p] = NoTrip]
    /\ loading' = [loading EXCEPT ![p] = FALSE]
    /\ hasDest' = [hasDest EXCEPT ![p] = FALSE]
    /\ button' = [button EXCEPT ![p] = "showMenu"]
    /\ uploadFailed' = [uploadFailed EXCEPT ![p] = FALSE]
    /\ ride' = [ride EXCEPT ![p] = "hidden"]
    /\ buttonAction' = [buttonAction EXCEPT ![p] = "requestRide"]
    /\ restarted' = [restarted EXCEPT ![p] = TRUE]
    /\ UNCHANGED <<driverVars, taps, granted>>

RestartDriver(d) ==
    /\ Restart(d)
    /\ pickup' = [pickup EXCEPT ![d] = {}]
    /\ leaving' = [leaving EXCEPT ![d] = FALSE]
    /\ rideAfter' = [rideAfter EXCEPT ![d] = FALSE]
    /\ engaged' = [engaged EXCEPT ![d] = {}]
    /\ ride' = [ride EXCEPT ![d] = "hidden"]
    /\ buttonAction' = [buttonAction EXCEPT ![d] = "requestRide"]
    /\ restarted' = [restarted EXCEPT ![d] = TRUE]
    /\ UNCHANGED <<riderVars, taps, granted>>

-----------------------------------------------------------------------------
RiderStep(p) ==
    \/ ObserveCurrentTrip(p)
    \/ DidSelectRow(p)
    \/ ActionButtonPressed(p)
    \/ \E place \in Places : OnRide(p, place)
    \/ HandleValue(p)
    \/ HandleUploadDone(p)
    \/ RestartRider(p)

DriverStep(d) ==
    \/ ObserveTrips(d)
    \/ HandleChildAdded(d)
    \/ HandleAcceptTrip(d)
    \/ HandleDismissal(d)
    \/ DidAcceptTrip(d)
    \/ DismissDone(d)
    \/ TripsEvent(d)
    \/ RestartDriver(d)

SystemStep(c) == SetupAgain(c) \/ Library(c) \/ Grant(c) \/ Refuse(c)

Next ==
    \/ \E p \in Passengers : RiderStep(p)
    \/ \E d \in Drivers : DriverStep(d)
    \/ \E c \in Clients : SystemStep(c)

Spec == Init /\ [][Next]_vars

\* The main queue runs what it is given, animations end, the library retries
\* its connection for ever, messages arrive and the server answers.  Nothing
\* is assumed of users, of connections breaking or of processes dying.
Fairness ==
    /\ \A p \in Passengers :
         /\ WF_vars(HandleValue(p))
         /\ WF_vars(HandleUploadDone(p))
    /\ \A d \in Drivers :
         /\ WF_vars(HandleChildAdded(d))
         /\ WF_vars(DidAcceptTrip(d))
         /\ WF_vars(DismissDone(d))
    /\ \A c \in Clients :
         /\ WF_vars(Deliver(c) /\ UNCHANGED <<uiVars, history>>)
         /\ WF_vars(Reconnect(c) /\ UNCHANGED <<uiVars, history>>)
         /\ WF_vars(Grant(c) \/ Refuse(c))

FairSpec == Spec /\ Fairness

-----------------------------------------------------------------------------
(* Properties.                                                             *)

\* Nothing is on its way to rider p: connected, observing, no unanswered
\* write, no undelivered message, no handler waiting to run.
Quiet(p) ==
    /\ online[p] /\ regs[p] > 0
    /\ outbox[p] = <<>> /\ inbox[p] = <<>> /\ mainQ[p] = <<>>

\* However writes, answers, lost connections and retransmissions interleave,
\* a rider with nothing on its way holds in HomeViewController.trip exactly
\* what the database holds: no event is missed or applied out of order.
ViewConverges ==
    \A p \in Passengers :
       Quiet(p) /\ trips[p] # NoTrip => trip[p] = trips[p]

\* "Finding you a ride.." is never left over a trip that a driver has taken:
\* a rider who waits with nothing on its way has a record still "requested",
\* or an upload that was refused (uploadTrip's error path leaves the view).
WaitingIsReal ==
    \A p \in Passengers :
       Quiet(p) /\ loading[p] =>
          \/ trips[p].state = "requested"
          \/ uploadFailed[p] /\ trips[p].state # "accepted"

\* The driver named in an accepted record knows about it: didAcceptTrip ran
\* for it, or its write or the write's completion block is still waiting,
\* whatever was lost or sent twice; only the death of the process forgets.
AssignedDriverKnows ==
    \A p \in Passengers, d \in Drivers :
       trips[p].state = "accepted" /\ trips[p].driver = d =>
          \/ restarted[d]
          \/ \E e \in engaged[d] : e.of = p
          \/ \E i \in DOMAIN outbox[d] : outbox[d][i].write.path = p
          \/ \E i \in DOMAIN mainQ[d] : mainQ[d][i].kind = "done" /\ mainQ[d][i].of = p

\* A driver is sent off to a passenger (didAcceptTrip) only when the server
\* has recorded that acceptance, although handleAcceptTrip ignores the error,
\* provided the server refuses none of its writes.
EngagedOnlyAfterGrant ==
    \A d \in Drivers \ Denied : \A e \in engaged[d] : <<d, e.of>> \in granted

\* The coordinates that PickupViewController.setup and didAcceptTrip unwrap
\* without a check are there for every pickup screen ever presented and every
\* trip a driver ever sets off for, although acceptTrip writes none.
PickupHasCoordinates ==
    \A d \in Drivers :
       /\ \A o \in pickup[d] : o.trip.place # NoPlace
       /\ \A e \in engaged[d] : e.place # NoPlace

\* A trip goes back from "accepted" to "requested" only if its rider asked
\* again or lost its connection or process: a request is applied once.
AcceptanceStands ==
    [][\A p \in Passengers :
         trips[p].state = "accepted" /\ trips'[p].state = "requested" =>
            taps[p] > 1 \/ drops[p] > 0]_vars

\* trips/ changes only as its readers may expect.
Lifecycle == INSTANCE TripLifecycle
LifecycleSpec == Lifecycle!LifecycleSpec

\* A rider's wait ends once its trip is accepted, unless the acceptance is
\* overwritten first.
WaitingEnds ==
    \A p \in Passengers :
       (loading[p] /\ trips[p].state = "accepted") ~>
          (~loading[p] \/ trips[p].state # "accepted")

\* The pickup screen does not stay up for ever after ACCEPT TRIP: the write
\* is answered, however often the connection breaks, and the answer
\* dismisses the screen.
AcceptTapAnswered ==
    \A d \in Drivers :
       (outbox[d] # <<>>) ~> (pickup[d] = {} \/ leaving[d])

\* A pickup screen asks "Would you like to pickup this passenger?": its
\* ACCEPT TRIP button accepts the trip.
AcceptButtonLive ==
    \A d \in Drivers :
       pickup[d] # {} /\ ~leaving[d] /\ taps[d] < MaxAccepts => ENABLED HandleAcceptTrip(d)

\* setup(withConfig: .tripAccepted) turns the button into GET DIRECTIONS.
TripAcceptedOffersDirections ==
    \A c \in Clients : ride[c] = "tripAccepted" => buttonAction[c] = "getDirections"

\* Every app and its client library stay consistent: their state has its types,
\* and of the puts a client has outstanding exactly those are processed whose
\* answers are on their way, across refusals, lost connections and restarts.
ClientsConsistent == TypeOK /\ AnswersMatchPuts

\* Nobody waits for ever for what a tap started: the rider's loading view goes,
\* and the driver's pickup screen makes way, although connections break.
TapsAnswered == WaitingEnds /\ AcceptTapAnswered
=============================================================================
