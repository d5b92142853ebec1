\* What the ride action view offers once a trip is accepted.
CONSTANTS
    Passengers = {p1}
    Drivers = {d1}
    Places = {a}
    NoPlace = NoPlace
    NoDriver = NoDriver
    Denied = {}
    Flaky = {}
    MaxDrops = 0
    Eager = {}
    PickupTargets = TRUE
    MaxRequests = 1
    MaxAccepts = 1
SPECIFICATION Spec
INVARIANTS
    TripAcceptedOffersDirections
\* Users may stop tapping, and every tap is bounded.
CHECK_DEADLOCK FALSE
