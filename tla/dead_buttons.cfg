\* The pickup screen as committed: targets() is never called.
CONSTANTS
    Passengers = {p1}
    Drivers = {d1}
    Places = {a}
    NoPlace = NoPlace
    NoDriver = NoDriver
    Denied = {}
    Flaky = {}
    MaxDrops = 0
    Eager = {}
    PickupTargets = FALSE
    MaxRequests = 1
    MaxAccepts = 1
SPECIFICATION Spec
INVARIANTS
    AcceptButtonLive
\* Users may stop tapping, and every tap is bounded.
CHECK_DEADLOCK FALSE
