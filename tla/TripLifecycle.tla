--------------------------- MODULE TripLifecycle ---------------------------
(***************************************************************************)
(* What trips/ promises whoever reads it: a trip comes into being as a     *)
(* request with coordinates, a driver may be recorded only on a trip that  *)
(* exists and leaves its coordinates alone, and a new request leaves the   *)
(* recorded driver alone.  Which rider or driver writes, over which        *)
(* connection and how often, is not said.                                  *)
(***************************************************************************)
CONSTANTS Passengers, Drivers, Places, NoPlace, NoDriver

VARIABLE trips

Missing == [place |-> NoPlace, state |-> "none", driver |-> NoDriver]

LifecycleInit == trips = [p \in Passengers |-> Missing]

\* uploadTrip: coordinates and state are written, driverUid is not cleared.
Request(p, place) ==
    trips' = [trips EXCEPT ![p].place = place, ![p].state = "requested"]

\* acceptTrip: state and driverUid are written, coordinates are kept.
Accept(p, d) ==
    /\ trips[p] # Missing
    /\ trips' = [trips EXCEPT ![p].state = "accepted", ![p].driver = d]

LifecycleNext ==
    \E p \in Passengers :
       \/ \E place \in Places : Request(p, place)
       \/ \E d \in Drivers : Accept(p, d)

LifecycleSpec == LifecycleInit /\ [][LifecycleNext]_trips
=============================================================================
