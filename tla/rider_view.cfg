\* One rider who may ask twice over a connection that breaks, with writes refused at times.
CONSTANTS
    Passengers = {p1}
    Drivers = {d1}
    Places = {a, b}
    NoPlace = NoPlace
    NoDriver = NoDriver
    Denied = {p1}
    Flaky = {p1}
    MaxDrops = 1
    Eager = {p1}
    PickupTargets = TRUE
    MaxRequests = 2
    MaxAccepts = 1
SPECIFICATION Spec
SYMMETRY Interchangeable
INVARIANTS
    ClientsConsistent
    ViewConverges
    WaitingIsReal
PROPERTIES
    AcceptanceStands
\* Users may stop tapping, and every tap is bounded.
CHECK_DEADLOCK FALSE
