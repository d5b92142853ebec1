\* Two searches, three destinations and one further setup; a driver in the
\* circle and one outside, a relaunch and a change of the authorization.
CONSTANTS
    x = x
    y = y
    Placemarks = {x, y}
    Responses <- ResultLists
    MaxSearches = 2
    MaxSelections = 3
    MaxSetups = 1
    Drivers = {d1, d2}
    Near = {d1}
    MaxCalls = 1
    MaxLaunches = 1
    MaxChanges = 1
SPECIFICATION RiderSpec
INVARIANTS
    ControlsConsistent
    FoundRowIsChosen
    RoutesLeftBehind
    MapConsistent
PROPERTIES
    DriverAppears
\* Users may stop tapping, every tap is bounded, and a trapped process is gone;
\* drivers stop signing up.
CHECK_DEADLOCK FALSE
