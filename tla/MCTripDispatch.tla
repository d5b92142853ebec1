--------------------------- MODULE MCTripDispatch ---------------------------
(***************************************************************************)
(* TripDispatch on small instances; the .cfg files choose riders, drivers, *)
(* bounds, whose connection breaks and whose writes may be refused.        *)
(***************************************************************************)
EXTENDS TripDispatch, TLC

\* Neither the code nor the properties order or name accounts and places; the
\* instances that use this give Denied, Flaky and Eager whole sets or the only
\* client of its kind.
Interchangeable ==
    Permutations(Passengers) \cup Permutations(Drivers) \cup Permutations(Places)
=============================================================================
