---------------------------- MODULE MCRiderHome ----------------------------
(***************************************************************************)
(* The home screen of one rider: the search for a destination beside the   *)
(* drivers on the map.  The two share no state, so that each of them takes *)
(* its steps while the other rests in an initial state.  A search finds    *)
(* none, one or two places: a list may grow, shrink, be replaced or repeat.*)
(***************************************************************************)
EXTENDS HomeScreen, DriverAnnotations

CONSTANTS x, y

ResultLists == {<<>>, <<x>>, <<y>>, <<x, y>>}

VARIABLE moving     \* the half of the screen that takes its steps

RiderInit ==
    /\ Init /\ MapInit
    /\ moving \in {"search", "map"}
    /\ moving = "search" => auth = "notDetermined" /\ located = {}

RiderNext ==
    /\ UNCHANGED moving
    /\ \/ moving = "search" /\ Next /\ UNCHANGED annotationVars
       \/ moving = "map" /\ MapNext /\ UNCHANGED vars

RiderSpec ==
    RiderInit /\ [][RiderNext]_<<vars, annotationVars, moving>> /\ MapFairness
=============================================================================
