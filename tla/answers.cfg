\* Every wait ends although connections break and writes are refused.
CONSTANTS
    Passengers = {p1}
    Drivers = {d1}
    Places = {a}
    NoPlace = NoPlace
    NoDriver = NoDriver
    Denied = {p1, d1}
    Flaky = {p1, d1}
    MaxDrops = 1
    Eager = {}
    PickupTargets = TRUE
    MaxRequests = 2
    MaxAccepts = 1
SPECIFICATION FairSpec
PROPERTIES
    TapsAnswered
\* Users may stop tapping, and every tap is bounded.
CHECK_DEADLOCK FALSE
