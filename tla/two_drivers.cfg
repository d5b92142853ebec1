\* Two drivers compete for one rider; both drivers' connections may break.
CONSTANTS
    Passengers = {p1}
    Drivers = {d1, d2}
    Places = {a}
    NoPlace = NoPlace
    NoDriver = NoDriver
    Denied = {}
    Flaky = {d1, d2}
    MaxDrops = 1
    Eager = {}
    PickupTargets = TRUE
    MaxRequests = 1
    MaxAccepts = 1
SPECIFICATION Spec
SYMMETRY Interchangeable
INVARIANTS
    AssignedDriverKnows
    EngagedOnlyAfterGrant
    PickupHasCoordinates
PROPERTIES
    LifecycleSpec
\* Users may stop tapping, and every tap is bounded.
CHECK_DEADLOCK FALSE
