-------------------------- MODULE HomeScreenProofs --------------------------
(***************************************************************************)
(* A rider's home screen.  HomeScreen keeps its types, always leaves the   *)
(* rider a control, its rows and results agree, and the routes it leaves   *)
(* on the map are accounted for, for any placemarks, result lists and      *)
(* bounds.  The drivers on the map, DriverAnnotations, agree with the      *)
(* server, for any finite set of drivers and any bounds.                   *)
(***************************************************************************)
EXTENDS HomeScreen, DriverAnnotations, SequenceTheorems, FiniteSetTheorems, TLAPS

LEMMA InitType == Init => TypeOK
<1>. SUFFICES ASSUME Init PROVE TypeOK
  OBVIOUS
<1>1. /\ 0 \in Nat /\ 0 \in 0 .. 0
      /\ 0 \in 0 .. MaxSearches /\ 0 \in 0 .. MaxSelections /\ 0 \in 0 .. MaxSetups
  BY BoundsAssumption
<1>2. <<>> \in Seq(Placemarks) /\ <<>> \in Seq(1 .. MaxSelections)
  OBVIOUS
<1>. QED
  BY <1>1, <1>2 DEF Init, TypeOK

\* Dropping the first element of a sequence, if there is one.
LEMMA OverlaysLeftType ==
    ASSUME overlays \in Seq(1 .. MaxSelections)
    PROVE  OverlaysLeft \in Seq(1 .. MaxSelections)
BY HeadTailProperties DEF OverlaysLeft

LEMMA TouchType == TypeOK /\ Touch => TypeOK'
<1>. SUFFICES ASSUME TypeOK, Touch PROVE TypeOK'
  OBVIOUS
<1>. USE BoundsAssumption DEF inputVars, searchVars, mapVars, setupVars
<1>1. CASE ShowLocationInputView
  BY <1>1 DEF TypeOK, ShowLocationInputView
<1>2. CASE DismissLocationInputView
  BY <1>2 DEF TypeOK, DismissLocationInputView, HideLocationInputView
<1>3. CASE ExecuteSearch
  <2>1. asked' \in 0 .. MaxSearches
    BY <1>3 DEF TypeOK, ExecuteSearch
  <2>2. searches' \in 0 .. asked'
    BY <1>3 DEF TypeOK, ExecuteSearch
  <2>. QED
    BY <1>3, <2>1, <2>2 DEF TypeOK, ExecuteSearch
<1>4. ASSUME NEW row \in DOMAIN shown, CellForRow(row) PROVE TypeOK'
  <2>1. shown' \in Seq(Placemarks)
    BY <1>4 DEF TypeOK, CellForRow
  <2>. QED
    BY <1>4, <2>1 DEF TypeOK, CellForRow
<1>5. ASSUME NEW rows, NEW row, DidSelectRow(rows, row) PROVE TypeOK'
  <2>1. CASE row \in DOMAIN searchResults
    <3>1. selections' \in 1 .. MaxSelections
      BY <1>5, <2>1 DEF TypeOK, DidSelectRow
    <3>2. /\ routes' \subseteq 1 .. MaxSelections
          /\ destinations' \subseteq 1 .. MaxSelections
          /\ selections' \in 0 .. MaxSelections
      <4>1. /\ routes' = routes \cup {selections'}
            /\ destinations' = destinations \cup {selections'}
        BY <1>5, <2>1 DEF DidSelectRow
      <4>2. selections' \in 0 .. MaxSelections
        BY <3>1
      <4>. QED
        BY <3>1, <4>1, <4>2 DEF TypeOK
    <3>. QED
      BY <1>5, <2>1, <3>2 DEF TypeOK, DidSelectRow, HideLocationInputView
  <2>2. CASE row \notin DOMAIN searchResults
    BY <1>5, <2>2 DEF TypeOK, DidSelectRow, HideLocationInputView
  <2>. QED
    BY <2>1, <2>2
<1>6. CASE ActionButtonPressed
  BY <1>6, OverlaysLeftType DEF TypeOK, ActionButtonPressed
<1>. QED
  BY <1>1, <1>2, <1>3, <1>4, <1>5, <1>6 DEF Touch

LEMMA CallbackType == TypeOK /\ (Callback \/ SetupAgain) => TypeOK'
<1>. SUFFICES ASSUME TypeOK, Callback \/ SetupAgain PROVE TypeOK'
  OBVIOUS
<1>. USE BoundsAssumption DEF inputVars, searchVars, mapVars, setupVars
<1>1. CASE FadeInDone
  BY <1>1 DEF TypeOK, FadeInDone
<1>2. CASE HideDone
  BY <1>2 DEF TypeOK, HideDone, ActivationAfterHide
<1>3. ASSUME NEW list \in Responses, SearchResponse(list) PROVE TypeOK'
  <2>1. list \in Seq(Placemarks)
    BY ResponsesAssumption
  <2>2. searches' \in 0 .. asked' /\ reloads' \in Nat
    BY <1>3 DEF TypeOK, SearchResponse
  <2>. QED
    BY <1>3, <2>1, <2>2 DEF TypeOK, SearchResponse
<1>4. CASE SearchFailure
  <2>1. searches' \in 0 .. asked'
    BY <1>4 DEF TypeOK, SearchFailure
  <2>. QED
    BY <1>4, <2>1 DEF TypeOK, SearchFailure
<1>5. CASE ReloadData
  <2>1. reloads' \in Nat
    BY <1>5 DEF TypeOK, ReloadData
  <2>. QED
    BY <1>5, <2>1 DEF TypeOK, ReloadData, Rows
<1>6. ASSUME NEW n \in routes, DirectionsResponse(n) PROVE TypeOK'
  <2>1. late' \in Nat /\ overlays' \in Seq(1 .. MaxSelections)
    BY <1>6 DEF TypeOK, DirectionsResponse
  <2>. QED
    BY <1>6, <2>1 DEF TypeOK, DirectionsResponse
<1>7. ASSUME NEW n \in routes, DirectionsFailure(n) PROVE TypeOK'
  BY <1>7 DEF TypeOK, DirectionsFailure
<1>8. CASE ConfigureInputActivationView
  <2>1. fetching' \in 0 .. setups'
    BY <1>8 DEF TypeOK, ConfigureInputActivationView
  <2>. QED
    BY <1>8, <2>1 DEF TypeOK, ConfigureInputActivationView
<1>9. CASE SetupAgain
  <2>1. setups' \in 0 .. MaxSetups /\ fetching' \in 0 .. setups'
    BY <1>9 DEF TypeOK, SetupAgain
  <2>. QED
    BY <1>9, <2>1 DEF TypeOK, SetupAgain
<1>. QED
  BY <1>1, <1>2, <1>3, <1>4, <1>5, <1>6, <1>7, <1>8, <1>9 DEF Callback

LEMMA NextType == TypeOK /\ [Next]_vars => TypeOK'
<1>. SUFFICES ASSUME TypeOK, [Next]_vars PROVE TypeOK'
  OBVIOUS
<1>1. CASE Next
  BY <1>1, TouchType, CallbackType DEF Next
<1>2. CASE UNCHANGED vars
  BY <1>2 DEF TypeOK, vars, inputVars, searchVars, mapVars, setupVars
<1>. QED
  BY <1>1, <1>2

\* The screen, the table and the map are always what their declarations say:
\* no count goes below zero and no more answers come than were asked for.
THEOREM HomeTypeCorrect == Spec => []TypeOK
BY InitType, NextType, PTL DEF Spec

-----------------------------------------------------------------------------
(* The rider always has a control.                                         *)

\* While the activation view is behind the map a fetch is awaited that will
\* put it in front; and unless the input view is on its way out through
\* "back", whose closure shows the activation view, something stands on the
\* screen or is about to: the activation view, the table, the back arrow.
ControlAhead ==
    /\ buried => fetching > 0
    /\ \/ activation \/ tableUp \/ fading
       \/ button = "dismissActionView"
       \/ hiding = "back"
       \/ fetching > 0
       \/ trapped

LEMMA NextControl == TypeOK /\ ControlAhead /\ [Next]_vars => ControlAhead'
<1>. SUFFICES ASSUME TypeOK, ControlAhead, [Next]_vars PROVE ControlAhead'
  OBVIOUS
<1>. USE DEF ControlAhead, inputVars, searchVars, mapVars, setupVars
<1>1. CASE ShowLocationInputView \/ FadeInDone
  BY <1>1 DEF ShowLocationInputView, FadeInDone
<1>2. CASE DismissLocationInputView
  BY <1>2 DEF DismissLocationInputView, HideLocationInputView
<1>3. CASE HideDone
  BY <1>3 DEF HideDone, ActivationAfterHide
<1>4. CASE ExecuteSearch \/ SearchFailure \/ ReloadData
  BY <1>4 DEF ExecuteSearch, SearchFailure, ReloadData
<1>5. ASSUME NEW list, SearchResponse(list) PROVE ControlAhead'
  BY <1>5 DEF SearchResponse
<1>6. ASSUME NEW row, CellForRow(row) PROVE ControlAhead'
  BY <1>6 DEF CellForRow
<1>7. ASSUME NEW rows, NEW row, DidSelectRow(rows, row) PROVE ControlAhead'
  BY <1>7 DEF DidSelectRow, HideLocationInputView
<1>8. ASSUME NEW n, DirectionsResponse(n) \/ DirectionsFailure(n) PROVE ControlAhead'
  BY <1>8 DEF DirectionsResponse, DirectionsFailure
<1>9. CASE ActionButtonPressed
  BY <1>9 DEF ActionButtonPressed
<1>10. CASE SetupAgain
  BY <1>10 DEF SetupAgain, TypeOK
<1>11. CASE ConfigureInputActivationView
  BY <1>11 DEF ConfigureInputActivationView
<1>12. CASE UNCHANGED vars
  BY <1>12 DEF vars
<1>. QED
  BY <1>1, <1>2, <1>3, <1>4, <1>5, <1>6, <1>7, <1>8, <1>9, <1>10, <1>11, <1>12
  DEF Next, Touch, Callback

\* Whatever is animated, dismissed, answered or laid out again in between, a
\* home screen at rest shows "Where to?", the table or the back arrow.
THEOREM RiderNeverStuck == Spec => []NeverStuck
<1>1. Init => ControlAhead
  BY DEF Init, ControlAhead
<1>2. TypeOK /\ ControlAhead => NeverStuck
  BY DEF TypeOK, ControlAhead, NeverStuck, WhereTo
<1>. QED
  BY <1>1, <1>2, HomeTypeCorrect, NextControl, PTL DEF Spec

-----------------------------------------------------------------------------
(* One way forward.                                                        *)

\* The phases of a home screen that was set up once: "Where to?", the input
\* view fading in, the table up, on its way back, or a destination chosen.
\* A selection's closure is none, so its animation may still run in any.
Phase ==
    setups = 0 /\ ~trapped =>
       /\ ~buried
       /\ activation => ~inputView /\ ~tableUp /\ ~fading /\ button = "showMenu"
       /\ inputView => hiding # "back" /\ button = "showMenu"
       /\ fading => inputView /\ ~tableUp
       /\ tableUp => inputView
       /\ hiding = "back" => ~activation /\ button = "showMenu"

LEMMA NextPhase == TypeOK /\ Phase /\ [Next]_vars => Phase'
<1>. SUFFICES ASSUME TypeOK, Phase, [Next]_vars PROVE Phase'
  OBVIOUS
<1>. USE DEF Phase, inputVars, searchVars, mapVars, setupVars
<1>1. CASE ShowLocationInputView \/ FadeInDone
  BY <1>1 DEF ShowLocationInputView, FadeInDone, WhereTo
<1>2. CASE DismissLocationInputView
  BY <1>2 DEF DismissLocationInputView, HideLocationInputView
<1>3. CASE HideDone
  BY <1>3 DEF HideDone, ActivationAfterHide
<1>4. CASE ExecuteSearch \/ SearchFailure \/ ReloadData
  BY <1>4 DEF ExecuteSearch, SearchFailure, ReloadData
<1>5. ASSUME NEW list, SearchResponse(list) PROVE Phase'
  BY <1>5 DEF SearchResponse
<1>6. ASSUME NEW row, CellForRow(row) PROVE Phase'
  BY <1>6 DEF CellForRow
<1>7. ASSUME NEW rows, NEW row, DidSelectRow(rows, row) PROVE Phase'
  BY <1>7 DEF DidSelectRow, HideLocationInputView
<1>8. ASSUME NEW n, DirectionsResponse(n) \/ DirectionsFailure(n) PROVE Phase'
  BY <1>8 DEF DirectionsResponse, DirectionsFailure
<1>9. CASE ActionButtonPressed
  BY <1>9 DEF ActionButtonPressed
<1>10. CASE SetupAgain
  BY <1>10 DEF SetupAgain, TypeOK
<1>11. CASE ConfigureInputActivationView
  BY <1>11 DEF ConfigureInputActivationView, TypeOK
<1>12. CASE UNCHANGED vars
  BY <1>12 DEF vars
<1>. QED
  BY <1>1, <1>2, <1>3, <1>4, <1>5, <1>6, <1>7, <1>8, <1>9, <1>10, <1>11, <1>12
  DEF Next, Touch, Callback

\* In a process with one setup the screens exclude each other.
THEOREM ScreensExclusive == Spec => []OneWayForward
<1>1. Init => Phase
  BY DEF Init, Phase
<1>2. Phase => OneWayForward
  BY DEF Phase, OneWayForward, WhereTo
<1>. QED
  BY <1>1, <1>2, HomeTypeCorrect, NextPhase, PTL DEF Spec

-----------------------------------------------------------------------------
(* Rows and results.                                                       *)

\* FoundRowIsChosen is inductive: a response leaves a reload outstanding, the
\* last reload makes the rows anew, and a cell is filled from the results.
LEMMA NextRows == TypeOK /\ FoundRowIsChosen /\ [Next]_vars => FoundRowIsChosen'
<1>. SUFFICES ASSUME TypeOK, FoundRowIsChosen, [Next]_vars PROVE FoundRowIsChosen'
  OBVIOUS
<1>. USE DEF FoundRowIsChosen, searchVars
<1>1. ASSUME UNCHANGED <<searchResults, shown, reloads>> PROVE FoundRowIsChosen'
  BY <1>1
<1>2. ASSUME NEW list, SearchResponse(list) PROVE FoundRowIsChosen'
  BY <1>2 DEF SearchResponse, TypeOK
<1>3. CASE ReloadData
  BY <1>3 DEF ReloadData, Rows
<1>4. ASSUME NEW row, CellForRow(row) PROVE FoundRowIsChosen'
  BY <1>4 DEF CellForRow, TypeOK
<1>5. CASE ShowLocationInputView \/ FadeInDone \/ DismissLocationInputView \/ HideDone
  BY <1>5, <1>1 DEF ShowLocationInputView, FadeInDone, DismissLocationInputView, HideDone
<1>6. CASE ExecuteSearch \/ SearchFailure \/ ActionButtonPressed
  BY <1>6, <1>1 DEF ExecuteSearch, SearchFailure, ActionButtonPressed
<1>7. ASSUME NEW rows, NEW row, DidSelectRow(rows, row) PROVE FoundRowIsChosen'
  BY <1>7, <1>1 DEF DidSelectRow
<1>8. ASSUME NEW n, DirectionsResponse(n) \/ DirectionsFailure(n) PROVE FoundRowIsChosen'
  BY <1>8, <1>1 DEF DirectionsResponse, DirectionsFailure
<1>9. CASE SetupAgain \/ ConfigureInputActivationView
  BY <1>9, <1>1 DEF SetupAgain, ConfigureInputActivationView
<1>10. CASE UNCHANGED vars
  BY <1>10, <1>1 DEF vars
<1>. QED
  BY <1>2, <1>3, <1>4, <1>5, <1>6, <1>7, <1>8, <1>9, <1>10 DEF Next, Touch, Callback

\* A "Found" row chosen with no reload outstanding never traps and chooses
\* the place that is on the screen, for any result lists in any order.
THEOREM FoundRowsAgree == Spec => []FoundRowIsChosen
<1>1. Init => FoundRowIsChosen
  BY DEF Init, FoundRowIsChosen
<1>. QED
  BY <1>1, HomeTypeCorrect, NextRows, PTL DEF Spec

\* For any places, result lists and bounds: the controls stay consistent.
THEOREM ControlsStayConsistent == Spec => []ControlsConsistent
BY HomeTypeCorrect, RiderNeverStuck, ScreensExclusive, PTL DEF ControlsConsistent

-----------------------------------------------------------------------------
(* Routes left behind.                                                     *)

One(b) == IF b THEN 1 ELSE 0

\* The ways to a selection that are open or on their way: each is used up by
\* the step that opens the next one, and only a further setup adds one.
Chances ==
    One(activation) + One(fading) + One(tableUp) + One(hiding = "back") + fetching

\* The destinations on the map whose routes are still awaited.
Awaited == destinations \cap routes

\* The rider spends a chance on a destination and has it back with the back
\* arrow, which removes one route; every other route on the map is late, or
\* spends a chance that a further setup brought.
RoutesLedger ==
    /\ inputView => fading \/ tableUp
    /\ Chances + One(button = "dismissActionView") <= 1 + setups
    /\ Chances + Len(overlays) + Cardinality(Awaited) <= 1 + setups + late

\* Numbered selections are finitely many, so what is awaited can be counted.
LEMMA AwaitedFinite ==
    ASSUME NEW S, S \subseteq 1 .. MaxSelections
    PROVE  IsFiniteSet(S) /\ Cardinality(S) \in Nat
<1>1. IsFiniteSet(1 .. MaxSelections)
  BY FS_Interval, BoundsAssumption
<1>2. IsFiniteSet(S)
  BY <1>1, FS_Subset
<1>. QED
  BY <1>2, FS_CardinalityType

\* What the ledger says of a step that changes no counted thing.
LEMMA LedgerKept ==
    ASSUME RoutesLedger,
           UNCHANGED <<inputVars, button, destinations, overlays, routes, late, setupVars>>
    PROVE  RoutesLedger'
BY DEF RoutesLedger, Chances, Awaited, One, inputVars, setupVars

LEMMA TouchLedger == TypeOK /\ RoutesLedger /\ Touch => RoutesLedger'
<1>. SUFFICES ASSUME TypeOK, RoutesLedger, Touch PROVE RoutesLedger'
  OBVIOUS
<1>. USE DEF inputVars, searchVars, mapVars, setupVars
<1>0. /\ Cardinality(Awaited) \in Nat
      /\ Len(overlays) \in Nat
      /\ fetching \in Nat /\ setups \in Nat /\ late \in Nat
  <2>1. Awaited \subseteq 1 .. MaxSelections
    BY DEF TypeOK, Awaited
  <2>2. Len(overlays) \in Nat
    BY DEF TypeOK
  <2>3. fetching \in Nat /\ setups \in Nat /\ late \in Nat
    BY BoundsAssumption DEF TypeOK
  <2>. QED
    BY <2>1, <2>2, <2>3, AwaitedFinite
<1>1. CASE ShowLocationInputView
  <2>1. Awaited' = Awaited
    BY <1>1 DEF ShowLocationInputView, Awaited
  <2>. QED
    BY <1>0, <1>1, <2>1 DEF ShowLocationInputView, WhereTo, RoutesLedger, Chances, One
<1>2. CASE DismissLocationInputView
  <2>1. Awaited' = Awaited
    BY <1>2 DEF DismissLocationInputView, Awaited
  <2>. QED
    BY <1>0, <1>2, <2>1
    DEF DismissLocationInputView, HideLocationInputView, RoutesLedger, Chances, One
<1>3. CASE ExecuteSearch
  BY <1>3, LedgerKept DEF ExecuteSearch
<1>4. ASSUME NEW row, CellForRow(row) PROVE RoutesLedger'
  BY <1>4, LedgerKept DEF CellForRow
<1>5. ASSUME NEW rows, NEW row, DidSelectRow(rows, row) PROVE RoutesLedger'
  <2>1. CASE row \in DOMAIN searchResults
    <3>1. Cardinality(Awaited') \in Nat /\ Cardinality(Awaited') <= Cardinality(Awaited) + 1
      <4>2. Awaited' = (destinations \cup {selections + 1}) \cap (routes \cup {selections + 1})
        BY <1>5, <2>1 DEF DidSelectRow, Awaited
      <4>3. Awaited' = Awaited \cup {selections + 1}
        BY <4>2 DEF Awaited
      <4>4. IsFiniteSet(Awaited)
        BY AwaitedFinite DEF Awaited, TypeOK
      <4>5. Cardinality(Awaited \cup {selections + 1})
              = IF selections + 1 \in Awaited THEN Cardinality(Awaited) ELSE Cardinality(Awaited) + 1
        BY <4>4, FS_AddElement
      <4>. QED
        BY <4>3, <4>5, <1>0
    <3>. QED
      BY <1>0, <1>5, <2>1, <3>1
      DEF DidSelectRow, HideLocationInputView, RoutesLedger, Chances, One
  <2>2. CASE row \notin DOMAIN searchResults
    <3>1. Awaited' = Awaited
      BY <1>5, <2>2 DEF DidSelectRow, Awaited
    <3>. QED
      BY <1>0, <1>5, <2>2, <3>1
      DEF DidSelectRow, HideLocationInputView, RoutesLedger, Chances, One
  <2>. QED
    BY <2>1, <2>2
<1>6. CASE ActionButtonPressed
  <2>1. Cardinality(Awaited') = 0
    <3>1. Awaited' = {}
      BY <1>6 DEF ActionButtonPressed, Awaited
    <3>. QED
      BY <3>1, FS_EmptySet
  <2>2. Chances' <= Chances + 1 /\ Chances' \in Nat /\ Chances \in Nat
    BY <1>0, <1>6 DEF ActionButtonPressed, Chances, One
  <2>3. (Chances + One(button = "dismissActionView") <= 1 + setups)'
    BY <1>0, <1>6 DEF ActionButtonPressed, RoutesLedger, Chances, One
  <2>4. (inputView => fading \/ tableUp)'
    BY <1>6 DEF ActionButtonPressed, RoutesLedger
  <2>5. Chances' + Len(overlays') <= 1 + setups + late
    <3>1. CASE overlays = <<>>
      <4>1. Len(overlays') = 0
        BY <1>6, <3>1 DEF ActionButtonPressed, OverlaysLeft
      <4>2. Chances' + 0 <= 1 + setups + late
        BY <1>0, <1>6 DEF ActionButtonPressed, RoutesLedger, Chances, One
      <4>. QED
        BY <4>1, <4>2
    <3>2. CASE overlays # <<>>
      <4>1. overlays' = Tail(overlays)
        BY <1>6, <3>2 DEF ActionButtonPressed, OverlaysLeft
      <4>2. Len(overlays') = Len(overlays) - 1
        BY <3>2, <4>1, HeadTailProperties DEF TypeOK
      <4>. QED
        BY <1>0, <2>2, <4>2 DEF RoutesLedger, One
    <3>. QED
      BY <3>1, <3>2
  <2>6. setups' = setups /\ late' = late /\ Len(overlays)' \in Nat
    BY <1>6, OverlaysLeftType DEF ActionButtonPressed, TypeOK
  <2>. QED
    BY <1>0, <2>1, <2>2, <2>3, <2>4, <2>5, <2>6 DEF RoutesLedger
<1>. QED
  BY <1>1, <1>2, <1>3, <1>4, <1>5, <1>6 DEF Touch

LEMMA CallbackLedger == TypeOK /\ RoutesLedger /\ (Callback \/ SetupAgain) => RoutesLedger'
<1>. SUFFICES ASSUME TypeOK, RoutesLedger, Callback \/ SetupAgain PROVE RoutesLedger'
  OBVIOUS
<1>. USE DEF inputVars, searchVars, mapVars, setupVars
<1>0. /\ Cardinality(Awaited) \in Nat /\ IsFiniteSet(Awaited)
      /\ Len(overlays) \in Nat
      /\ fetching \in Nat /\ setups \in Nat /\ late \in Nat
  <2>1. Awaited \subseteq 1 .. MaxSelections
    BY DEF TypeOK, Awaited
  <2>2. Len(overlays) \in Nat
    BY DEF TypeOK
  <2>3. fetching \in Nat /\ setups \in Nat /\ late \in Nat
    BY BoundsAssumption DEF TypeOK
  <2>. QED
    BY <2>1, <2>2, <2>3, AwaitedFinite
<1>1. CASE FadeInDone
  <2>1. Awaited' = Awaited
    BY <1>1 DEF FadeInDone, Awaited
  <2>. QED
    BY <1>0, <1>1, <2>1 DEF FadeInDone, RoutesLedger, Chances, One
<1>2. CASE HideDone
  <2>1. Awaited' = Awaited
    BY <1>2 DEF HideDone, Awaited
  <2>2. CASE hiding = "back"
    <3>1. activation' = TRUE /\ hiding' # "back"
      BY <1>2, <2>2 DEF HideDone, ActivationAfterHide
    <3>. QED
      BY <1>0, <1>2, <2>1, <2>2, <3>1 DEF HideDone, RoutesLedger, Chances, One
  <2>3. CASE hiding # "back"
    <3>1. activation' = activation /\ hiding' # "back"
      BY <1>2, <2>3 DEF HideDone, ActivationAfterHide, TypeOK
    <3>. QED
      BY <1>0, <1>2, <2>1, <2>3, <3>1 DEF HideDone, RoutesLedger, Chances, One
  <2>. QED
    BY <2>2, <2>3
<1>3. ASSUME NEW list, SearchResponse(list) PROVE RoutesLedger'
  BY <1>3, LedgerKept DEF SearchResponse
<1>4. CASE SearchFailure \/ ReloadData
  BY <1>4, LedgerKept DEF SearchFailure, ReloadData
<1>5. ASSUME NEW n \in routes, DirectionsResponse(n) PROVE RoutesLedger'
  <2>1. Len(overlays') = Len(overlays) + 1
    BY <1>5 DEF DirectionsResponse, TypeOK
  <2>2. Cardinality(Awaited') - late' = Cardinality(Awaited) - 1 - late /\ late' \in Nat
    <3>1. Awaited' = Awaited \ {n}
      BY <1>5 DEF DirectionsResponse, Awaited
    <3>2. CASE n \in destinations
      <4>1. n \in Awaited /\ late' = late
        BY <1>5, <3>2 DEF Awaited, DirectionsResponse
      <4>. QED
        BY <1>0, <3>1, <4>1, FS_RemoveElement
    <3>3. CASE n \notin destinations
      <4>1. Awaited' = Awaited /\ late' = late + 1
        BY <1>5, <3>1, <3>3 DEF Awaited, DirectionsResponse
      <4>. QED
        BY <1>0, <4>1
    <3>. QED
      BY <3>2, <3>3
  <2>3. Awaited' \subseteq 1 .. MaxSelections
    BY <1>5 DEF DirectionsResponse, Awaited, TypeOK
  <2>4. Cardinality(Awaited') \in Nat
    BY <2>3, AwaitedFinite
  <2>5. Chances' = Chances /\ Chances \in Nat
    BY <1>0, <1>5 DEF DirectionsResponse, Chances, One
  <2>. QED
    BY <1>0, <1>5, <2>1, <2>2, <2>4, <2>5 DEF DirectionsResponse, RoutesLedger
<1>6. ASSUME NEW n \in routes, DirectionsFailure(n) PROVE RoutesLedger'
  <2>1. Awaited' = Awaited \ {n}
    BY <1>6 DEF DirectionsFailure, Awaited
  <2>2. Cardinality(Awaited') \in Nat /\ Cardinality(Awaited') <= Cardinality(Awaited)
    <3>1. Cardinality(Awaited \ {n})
            = IF n \in Awaited THEN Cardinality(Awaited) - 1 ELSE Cardinality(Awaited)
      BY <1>0, FS_RemoveElement
    <3>2. Cardinality(Awaited \ {n}) \in Nat
      BY AwaitedFinite DEF Awaited, TypeOK
    <3>. QED
      BY <1>0, <2>1, <3>1, <3>2
  <2>3. Chances' = Chances /\ Chances \in Nat
    BY <1>0, <1>6 DEF DirectionsFailure, Chances, One
  <2>. QED
    BY <1>0, <1>6, <2>2, <2>3 DEF DirectionsFailure, RoutesLedger
<1>7. CASE ConfigureInputActivationView
  <2>1. Awaited' = Awaited
    BY <1>7 DEF ConfigureInputActivationView, Awaited
  <2>. QED
    BY <1>0, <1>7, <2>1 DEF ConfigureInputActivationView, RoutesLedger, Chances, One
<1>8. CASE SetupAgain
  <2>1. Awaited' = Awaited
    BY <1>8 DEF SetupAgain, Awaited
  <2>. QED
    BY <1>0, <1>8, <2>1 DEF SetupAgain, RoutesLedger, Chances, One
<1>. QED
  BY <1>1, <1>2, <1>3, <1>4, <1>5, <1>6, <1>7, <1>8 DEF Callback

LEMMA NextLedger == TypeOK /\ RoutesLedger /\ [Next]_vars => RoutesLedger'
<1>. SUFFICES ASSUME TypeOK, RoutesLedger, [Next]_vars PROVE RoutesLedger'
  OBVIOUS
<1>1. CASE Next
  BY <1>1, TouchLedger, CallbackLedger DEF Next
<1>2. CASE UNCHANGED vars
  BY <1>2, LedgerKept DEF vars, mapVars
<1>. QED
  BY <1>1, <1>2

\* In a running process the back arrow's absence means that a chance is left,
\* and the ledger then leaves the routes no more than the late ones and the
\* further setups.
LEMMA LedgerSuffices ==
    TypeOK /\ ControlAhead /\ RoutesLedger /\ ~trapped => RoutesLeftBehind
<1>. SUFFICES ASSUME TypeOK, ControlAhead, RoutesLedger, ~trapped, button = "showMenu"
              PROVE  Len(overlays) <= late + setups
  BY DEF RoutesLeftBehind
<1>1. fetching \in Nat /\ setups \in Nat /\ late \in Nat /\ Len(overlays) \in Nat
  BY BoundsAssumption DEF TypeOK
<1>2. Cardinality(Awaited) \in Nat
  BY AwaitedFinite DEF Awaited, TypeOK
<1>3. Chances \in Nat /\ Chances >= 1
  BY <1>1 DEF ControlAhead, Chances, One, TypeOK
<1>. QED
  BY <1>1, <1>2, <1>3 DEF RoutesLedger

\* A step that traps leaves the routes and the button as they were, and no
\* step follows it.
LEMMA TrapLeavesRoutes ==
    TypeOK /\ RoutesLeftBehind /\ [Next]_vars /\ trapped' => RoutesLeftBehind'
<1>. SUFFICES ASSUME TypeOK, RoutesLeftBehind, [Next]_vars, trapped'
              PROVE  UNCHANGED <<button, overlays, late, setups>>
  BY DEF RoutesLeftBehind
<1>. USE DEF inputVars, searchVars, mapVars, setupVars
<1>1. ASSUME NEW row, CellForRow(row) PROVE UNCHANGED <<button, overlays, late, setups>>
  BY <1>1 DEF CellForRow
<1>2. ASSUME NEW rows, NEW row, DidSelectRow(rows, row)
      PROVE  UNCHANGED <<button, overlays, late, setups>>
  BY <1>2 DEF DidSelectRow
<1>3. CASE UNCHANGED vars
  BY <1>3 DEF vars
<1>4. ASSUME ~trapped, UNCHANGED trapped PROVE FALSE
  BY <1>4
<1>. QED
  BY <1>1, <1>2, <1>3, <1>4
  DEF Next, Touch, Callback, ShowLocationInputView, DismissLocationInputView, ExecuteSearch,
      ActionButtonPressed, FadeInDone, HideDone, SearchResponse, SearchFailure, ReloadData,
      DirectionsResponse, DirectionsFailure, ConfigureInputActivationView, SetupAgain

\* However routes are answered, failed, dismissed or chosen anew, a route
\* that outlives its destination on the map is a late answer or the price of
\* a further setup, for any number of selections and setups.
THEOREM RoutesAccountedFor == Spec => []RoutesLeftBehind
<1>1. Init => ControlAhead /\ RoutesLedger /\ RoutesLeftBehind
  <2>. SUFFICES ASSUME Init PROVE ControlAhead /\ RoutesLedger /\ RoutesLeftBehind
    OBVIOUS
  <2>1. Cardinality(Awaited) = 0
    <3>1. Awaited = {}
      BY DEF Init, Awaited
    <3>. QED
      BY <3>1, FS_EmptySet
  <2>. QED
    BY <2>1 DEF Init, ControlAhead, RoutesLedger, RoutesLeftBehind, Chances, One
<1>2. TypeOK' /\ ControlAhead' /\ RoutesLedger' /\ ~trapped' => RoutesLeftBehind'
  BY LedgerSuffices, PTL
<1>3. /\ TypeOK /\ ControlAhead /\ RoutesLedger /\ RoutesLeftBehind
      /\ [Next]_vars
      => ControlAhead' /\ RoutesLedger' /\ RoutesLeftBehind'
  BY <1>2, NextType, NextControl, NextLedger, TrapLeavesRoutes
<1>. QED
  BY <1>1, <1>3, HomeTypeCorrect, PTL DEF Spec

-----------------------------------------------------------------------------
(* The drivers on the map.                                                 *)

(* Queues.                                                                 *)

\* What a queue holds, and how many of its entries are in a set.
Held(s) == {s[i] : i \in 1 .. Len(s)}
Hits(s, S) == {i \in 1 .. Len(s) : s[i] \in S}
Count(s, S) == Cardinality(Hits(s, S))

\* Counts are natural numbers.
LEMMA HitsFinite ==
    ASSUME NEW T, NEW s \in Seq(T), NEW S
    PROVE  IsFiniteSet(Hits(s, S)) /\ Count(s, S) \in Nat
<1>1. Len(s) \in Nat
  OBVIOUS
<1>2. IsFiniteSet(1 .. Len(s))
  BY <1>1, FS_Interval
<1>3. Hits(s, S) \in SUBSET (1 .. Len(s))
  BY DEF Hits
<1>4. IsFiniteSet(Hits(s, S))
  BY <1>2, <1>3, FS_Subset
<1>. QED
  BY <1>4, FS_CardinalityType DEF Count

\* A count is zero when the queue holds none of the entries.
LEMMA CountNone ==
    ASSUME NEW T, NEW s \in Seq(T), NEW S
    PROVE  Count(s, S) = 0 <=> Held(s) \cap S = {}
<1>1. Hits(s, S) = {} <=> Held(s) \cap S = {}
  BY DEF Hits, Held
<1>2. Cardinality(Hits(s, S)) = 0 <=> Hits(s, S) = {}
  BY HitsFinite, FS_EmptySet
<1>. QED
  BY <1>1, <1>2 DEF Count

\* A queue that holds nothing else has as many entries as its length.
LEMMA CountAll ==
    ASSUME NEW T, NEW s \in Seq(T), NEW S, Held(s) \subseteq S
    PROVE  Count(s, S) = Len(s)
<1>1. Hits(s, S) = 1 .. Len(s) /\ Len(s) \in Nat
  BY DEF Hits, Held
<1>. QED
  BY <1>1, FS_Interval DEF Count

\* Two queues, one behind the other, entry by entry.
LEMMA Concat ==
    ASSUME NEW T, NEW p \in Seq(T), NEW q \in Seq(T)
    PROVE  /\ p \o q \in Seq(T)
           /\ Len(p) \in Nat /\ Len(q) \in Nat /\ Len(p \o q) = Len(p) + Len(q)
           /\ \A i \in 1 .. Len(p) : (p \o q)[i] = p[i]
           /\ \A i \in 1 .. Len(q) : (p \o q)[Len(p) + i] = q[i]
           /\ \A i \in 1 .. Len(p \o q) : i \in 1 .. Len(p) \/ (\E j \in 1 .. Len(q) : i = Len(p) + j)
<1>1. /\ Len(p \o q) = Len(p) + Len(q) /\ Len(p) \in Nat /\ Len(q) \in Nat
      /\ \A i \in 1 .. Len(p) + Len(q) :
            (p \o q)[i] = IF i <= Len(p) THEN p[i] ELSE q[i - Len(p)]
      /\ p \o q \in Seq(T)
  BY ConcatProperties, LenProperties
<1>2. \A i \in 1 .. Len(q) : (p \o q)[Len(p) + i] = q[i]
  BY <1>1
<1>3. ASSUME NEW i \in 1 .. Len(p \o q), ~(i \in 1 .. Len(p))
      PROVE  \E j \in 1 .. Len(q) : i = Len(p) + j
  <2>1. i - Len(p) \in 1 .. Len(q) /\ i = Len(p) + (i - Len(p))
    BY <1>1, <1>3
  <2>. QED
    BY <2>1
<1>. QED
  BY <1>1, <1>2, <1>3

\* The same of a queue that has another name.
LEMMA ConcatIs ==
    ASSUME NEW T, NEW p \in Seq(T), NEW q \in Seq(T), NEW s, s = p \o q
    PROVE  /\ s \in Seq(T)
           /\ Len(p) \in Nat /\ Len(q) \in Nat /\ Len(s) = Len(p) + Len(q)
           /\ \A i \in 1 .. Len(p) : s[i] = p[i]
           /\ \A i \in 1 .. Len(q) : s[Len(p) + i] = q[i]
           /\ \A i \in 1 .. Len(s) : i \in 1 .. Len(p) \/ (\E j \in 1 .. Len(q) : i = Len(p) + j)
<1>1. p \o q \in Seq(T) /\ Len(p) \in Nat /\ Len(q) \in Nat /\ Len(p \o q) = Len(p) + Len(q)
  BY Concat
<1>2. \A i \in 1 .. Len(p) : (p \o q)[i] = p[i]
  BY Concat
<1>3. \A i \in 1 .. Len(q) : (p \o q)[Len(p) + i] = q[i]
  BY Concat
<1>4. \A i \in 1 .. Len(p \o q) : i \in 1 .. Len(p) \/ (\E j \in 1 .. Len(q) : i = Len(p) + j)
  BY Concat
<1>5. s \in Seq(T) /\ Len(s) = Len(p) + Len(q)
  BY <1>1, Zenon
<1>6. \A i \in 1 .. Len(p) : s[i] = p[i]
  BY <1>2, Zenon
<1>7. \A i \in 1 .. Len(q) : s[Len(p) + i] = q[i]
  BY <1>3, Zenon
<1>8. \A i \in 1 .. Len(s) : i \in 1 .. Len(p) \/ (\E j \in 1 .. Len(q) : i = Len(p) + j)
  BY <1>4, Zenon
<1>. QED
  BY <1>1, <1>5, <1>6, <1>7, <1>8

\* They hold what both hold.
LEMMA HeldConcat ==
    ASSUME NEW T, NEW p \in Seq(T), NEW q \in Seq(T)
    PROVE  Held(p \o q) = Held(p) \cup Held(q)
<1>1. ASSUME NEW x \in Held(p \o q) PROVE x \in Held(p) \cup Held(q)
  <2>1. PICK i \in 1 .. Len(p \o q) : x = (p \o q)[i]
    BY DEF Held
  <2>2. CASE i \in 1 .. Len(p)
    BY <2>1, <2>2, Concat DEF Held
  <2>3. CASE \E j \in 1 .. Len(q) : i = Len(p) + j
    BY <2>1, <2>3, Concat DEF Held
  <2>. QED
    BY <2>2, <2>3, Concat
<1>2. ASSUME NEW i \in 1 .. Len(p) PROVE p[i] \in Held(p \o q)
  <2>1. i \in 1 .. Len(p \o q) /\ (p \o q)[i] = p[i]
    BY Concat
  <2>. QED
    BY <2>1 DEF Held
<1>3. ASSUME NEW i \in 1 .. Len(q) PROVE q[i] \in Held(p \o q)
  <2>1. Len(p) + i \in 1 .. Len(p \o q) /\ (p \o q)[Len(p) + i] = q[i]
    BY Concat
  <2>. QED
    BY <2>1 DEF Held
<1>. QED
  BY <1>1, <1>2, <1>3 DEF Held

\* Their counts add up.
LEMMA CountConcat ==
    ASSUME NEW T, NEW p \in Seq(T), NEW q \in Seq(T), NEW S
    PROVE  Count(p \o q, S) = Count(p, S) + Count(q, S)
<1>. DEFINE A == Hits(p, S)
            B == Hits(q, S)
            f == [i \in B |-> Len(p) + i]
            D == {Len(p) + i : i \in B}
<1>1. IsFiniteSet(A) /\ IsFiniteSet(B)
  BY HitsFinite
<1>2. A \subseteq 1 .. Len(p) /\ B \subseteq 1 .. Len(q) /\ Len(p) \in Nat /\ Len(q) \in Nat
  BY DEF Hits
<1>3. Cardinality(D) = Cardinality(B) /\ IsFiniteSet(D)
  <2>1. f \in [B -> D]
    OBVIOUS
  <2>2. \A i, j \in B : f[i] = f[j] => i = j
    BY <1>2
  <2>3. \A y \in D : \E i \in B : f[i] = y
    OBVIOUS
  <2>. HIDE DEF f, D
  <2>4. f \in Bijection(B, D)
    BY <2>1, <2>2, <2>3 DEF Bijection, Injection, Surjection, IsInjective
  <2>5. ExistsBijection(B, D)
    BY <2>4 DEF ExistsBijection
  <2>. QED
    BY <2>5, <1>1, FS_Bijection
<1>4. Hits(p \o q, S) = A \cup D
  <2>1. ASSUME NEW i \in Hits(p \o q, S) PROVE i \in A \cup D
    <3>1. i \in 1 .. Len(p \o q) /\ (p \o q)[i] \in S
      BY DEF Hits
    <3>2. CASE i \in 1 .. Len(p)
      BY <3>1, <3>2, Concat DEF Hits
    <3>3. CASE \E j \in 1 .. Len(q) : i = Len(p) + j
      BY <3>1, <3>3, Concat DEF Hits
    <3>. QED
      BY <3>1, <3>2, <3>3, Concat
  <2>2. ASSUME NEW i \in A PROVE i \in Hits(p \o q, S)
    <3>1. i \in 1 .. Len(p) /\ p[i] \in S
      BY DEF Hits
    <3>2. i \in 1 .. Len(p \o q) /\ (p \o q)[i] \in S
      BY <3>1, Concat
    <3>. QED
      BY <3>2 DEF Hits
  <2>3. ASSUME NEW i \in B PROVE Len(p) + i \in Hits(p \o q, S)
    <3>1. i \in 1 .. Len(q) /\ q[i] \in S
      BY DEF Hits
    <3>2. Len(p) + i \in 1 .. Len(p \o q) /\ (p \o q)[Len(p) + i] \in S
      BY <3>1, Concat
    <3>. QED
      BY <3>2 DEF Hits
  <2>. QED
    BY <2>1, <2>2, <2>3
<1>5. A \cap D = {}
  BY <1>2
<1>6. Cardinality(A \cup D) = Cardinality(A) + Cardinality(D) - Cardinality(A \cap D)
  BY <1>1, <1>3, FS_Union
<1>7. Cardinality(A \cap D) = 0
  BY <1>5, FS_EmptySet
<1>8. Cardinality(A) \in Nat /\ Cardinality(B) \in Nat
  BY <1>1, FS_CardinalityType
<1>. HIDE DEF A, B, D
<1>9. Cardinality(Hits(p \o q, S)) = Cardinality(A) + Cardinality(B)
  BY <1>3, <1>4, <1>6, <1>7, <1>8
<1>. QED
  BY <1>9 DEF Count, A, B

\* A queue of one entry, and of copies of one entry.
LEMMA Single ==
    ASSUME NEW T, NEW e \in T
    PROVE  /\ <<e>> \in Seq(T) /\ Held(<<e>>) = {e}
           /\ \A S : Count(<<e>>, S) = IF e \in S THEN 1 ELSE 0
<1>1. <<e>> \in Seq(T) /\ Len(<<e>>) = 1 /\ <<e>>[1] = e
  OBVIOUS
<1>2. Held(<<e>>) = {e}
  BY <1>1 DEF Held
<1>3. ASSUME NEW S PROVE Count(<<e>>, S) = IF e \in S THEN 1 ELSE 0
  <2>1. CASE e \in S
    BY <1>1, <1>2, <2>1, CountAll
  <2>2. CASE e \notin S
    BY <1>1, <1>2, <2>2, CountNone
  <2>. QED
    BY <2>1, <2>2
<1>. QED
  BY <1>1, <1>2, <1>3

\* The empty queue.
LEMMA Nothing ==
    ASSUME NEW T
    PROVE  <<>> \in Seq(T) /\ Held(<<>>) = {} /\ \A S : Count(<<>>, S) = 0
<1>1. <<>> \in Seq(T) /\ Held(<<>>) = {}
  BY DEF Held
<1>. QED
  BY <1>1, CountNone

\* A queue and the queue behind its head.
LEMMA HeadTail ==
    ASSUME NEW T, NEW s \in Seq(T), s # <<>>
    PROVE  /\ Head(s) \in T /\ Tail(s) \in Seq(T)
           /\ Len(s) \in Nat /\ Len(s) >= 1 /\ Len(Tail(s)) = Len(s) - 1
           /\ Head(s) = s[1]
           /\ \A i \in 1 .. Len(Tail(s)) : i + 1 \in 1 .. Len(s) /\ Tail(s)[i] = s[i + 1]
           /\ \A i \in 1 .. Len(s) : i = 1 \/ (i - 1 \in 1 .. Len(Tail(s)) /\ s[i] = Tail(s)[i - 1])
           /\ s = <<Head(s)>> \o Tail(s)
<1>1. /\ Len(s) \in Nat /\ Len(s) >= 1 /\ Head(s) = s[1] /\ Head(s) \in T
      /\ Tail(s) \in Seq(T) /\ Len(Tail(s)) = Len(s) - 1
      /\ \A i \in 1 .. Len(Tail(s)) : Tail(s)[i] = s[i + 1]
  BY HeadTailProperties, EmptySeq, LenProperties
<1>2. \A i \in 1 .. Len(Tail(s)) : i + 1 \in 1 .. Len(s)
  BY <1>1
<1>3. \A i \in 1 .. Len(s) : i = 1 \/ (i - 1 \in 1 .. Len(Tail(s)) /\ s[i] = Tail(s)[i - 1])
  BY <1>1
<1>4. s = <<Head(s)>> \o Tail(s)
  <2>. DEFINE t == <<Head(s)>> \o Tail(s)
  <2>1. <<Head(s)>> \in Seq(T) /\ Len(<<Head(s)>>) = 1 /\ <<Head(s)>>[1] = Head(s)
    BY <1>1
  <2>2. t \in Seq(T) /\ Len(t) = 1 + Len(Tail(s)) /\ t[1] = Head(s)
        /\ \A i \in 1 .. Len(Tail(s)) : t[1 + i] = Tail(s)[i]
    BY <2>1, <1>1, Concat
  <2>. HIDE DEF t
  <2>3. Len(t) = Len(s)
    BY <2>2, <1>1
  <2>4. ASSUME NEW i \in 1 .. Len(s) PROVE t[i] = s[i]
    <3>1. CASE i = 1
      BY <3>1, <2>2, <1>1
    <3>2. CASE i # 1
      <4>1. i - 1 \in 1 .. Len(Tail(s)) /\ 1 + (i - 1) = i
        BY <3>2, <1>1
      <4>. QED
        BY <4>1, <2>2, <1>3
    <3>. QED
      BY <3>1, <3>2
  <2>5. t = s
    BY <2>2, <2>3, <2>4, SeqEqual
  <2>. QED
    BY <2>5 DEF t
<1>. QED
  BY <1>1, <1>2, <1>3, <1>4

\* Taking the head of a queue takes one from the counts it is in.
LEMMA CountTail ==
    ASSUME NEW T, NEW s \in Seq(T), s # <<>>
    PROVE  /\ Held(s) = {Head(s)} \cup Held(Tail(s))
           /\ \A S : Count(s, S) = Count(Tail(s), S) + (IF Head(s) \in S THEN 1 ELSE 0)
<1>1. Head(s) \in T /\ Tail(s) \in Seq(T) /\ s = <<Head(s)>> \o Tail(s) /\ <<Head(s)>> \in Seq(T)
  BY HeadTail, Single
<1>2. Held(s) = Held(<<Head(s)>>) \cup Held(Tail(s))
  BY <1>1, HeldConcat
<1>3. Held(<<Head(s)>>) = {Head(s)}
  BY <1>1, Single
<1>4. ASSUME NEW S
      PROVE Count(s, S) = Count(Tail(s), S) + (IF Head(s) \in S THEN 1 ELSE 0)
  <2>1. Count(<<Head(s)>> \o Tail(s), S) = Count(<<Head(s)>>, S) + Count(Tail(s), S)
    BY <1>1, CountConcat
  <2>2. Count(<<Head(s)>>, S) = IF Head(s) \in S THEN 1 ELSE 0
    BY <1>1, Single
  <2>3. Count(Tail(s), S) \in Nat
    BY <1>1, HitsFinite
  <2>4. Count(s, S) = Count(<<Head(s)>> \o Tail(s), S)
    BY <1>1, Zenon
  <2>. QED
    BY <2>1, <2>2, <2>3, <2>4
<1>. QED
  BY <1>2, <1>3, <1>4

\* An entry at the end adds one to the counts it is in.
LEMMA HeldAppend ==
    ASSUME NEW T, NEW s \in Seq(T), NEW e \in T
    PROVE  /\ Append(s, e) \in Seq(T) /\ Held(Append(s, e)) = Held(s) \cup {e}
           /\ \A S : Count(Append(s, e), S) = Count(s, S) + (IF e \in S THEN 1 ELSE 0)
<1>1. PICK q : q = <<e>>
  OBVIOUS
<1>2. q \in Seq(T) /\ Held(q) = {e} /\ \A S : Count(q, S) = IF e \in S THEN 1 ELSE 0
  BY <1>1, Single
<1>3. Append(s, e) = s \o q
  BY <1>1, AppendIsConcat
<1>4. Held(s \o q) = Held(s) \cup Held(q) /\ s \o q \in Seq(T)
  BY <1>2, HeldConcat, Concat
<1>5. \A S : Count(s \o q, S) = Count(s, S) + Count(q, S)
  BY <1>2, CountConcat
<1>. QED
  BY <1>2, <1>3, <1>4, <1>5

(* The parts of the invariant.                                             *)

Places == "driver-locations"
Users(d) == {User(d, TRUE), User(d, FALSE)}
None(d) == [at |-> d, keys |-> {}]
Found(d) == [at |-> d, keys |-> {d}]

\* What the queues hold.
MessageRight(e) ==
    \/ e.at = Places /\ e.keys \subseteq located
    \/ e.at \in Drivers /\ e = None(e.at)
    \/ e.at \in profiles /\ e = Found(e.at)

TaskRight(e) ==
    \/ e = Call("observe", 0)
    \/ \E q \in DOMAIN queries : e = Call("query", q)
    \/ \E d \in Near : e = Call("read", d) \/ e = Call("unread", d)

BlockRight(e) ==
    \/ e = Value
    \/ \E q \in DOMAIN queries : e = Initial(q)
    \/ \E q \in DOMAIN queries, d \in located : e = Added(q, d)
    \/ \E d \in Near : e = Entered(d) \/ e = User(d, FALSE)
    \/ \E d \in Near \cap profiles : e = User(d, TRUE)

QueuesRight ==
    /\ \A e \in Held(inbox) : MessageRight(e)
    /\ \A e \in Held(libQ) : TaskRight(e)
    /\ \A e \in Held(mainQ) : BlockRight(e)

Typed == MapTypeOK /\ QueuesRight

-----------------------------------------------------------------------------
(* What the steps do to the queues.                                        *)

\* The client runs the oldest call.
LEMMA TaskTaken ==
    ASSUME Typed, NEW op, NextTask(op)
    PROVE  /\ libQ' \in Seq(Task) /\ libQ' = Tail(libQ) /\ libQ # <<>>
           /\ Head(libQ) \in Held(libQ) /\ Head(libQ).op = op
           /\ Held(libQ') \subseteq Held(libQ)
           /\ Held(libQ) = {Head(libQ)} \cup Held(libQ')
           /\ \A S : /\ Count(libQ, S) = Count(libQ', S) + (IF Head(libQ) \in S THEN 1 ELSE 0)
                     /\ Count(libQ', S) \in Nat /\ Count(libQ, S) \in Nat
           /\ op = "observe" => Head(libQ) = Call("observe", 0)
           /\ op = "query" => Head(libQ).of \in DOMAIN queries /\ Head(libQ) = Call("query", Head(libQ).of)
           /\ op \in {"read", "unread"} => Head(libQ).of \in Near /\ Head(libQ) = Call(op, Head(libQ).of)
<1>1. libQ \in Seq(Task) /\ libQ # <<>> /\ libQ' = Tail(libQ) /\ Head(libQ).op = op
  BY DEF Typed, MapTypeOK, NextTask
<1>2. /\ libQ' \in Seq(Task) /\ Held(libQ) = {Head(libQ)} \cup Held(libQ')
      /\ \A S : Count(libQ, S) = Count(libQ', S) + (IF Head(libQ) \in S THEN 1 ELSE 0)
  BY <1>1, HeadTail, CountTail
<1>3. \A S : Count(libQ', S) \in Nat /\ Count(libQ, S) \in Nat
  BY <1>1, <1>2, HitsFinite
<1>4. TaskRight(Head(libQ))
  BY <1>2 DEF Typed, QueuesRight
<1>5. /\ op = "observe" => Head(libQ) = Call("observe", 0)
      /\ op = "query" => Head(libQ).of \in DOMAIN queries /\ Head(libQ) = Call("query", Head(libQ).of)
      /\ op \in {"read", "unread"} => Head(libQ).of \in Near /\ Head(libQ) = Call(op, Head(libQ).of)
  BY <1>4, <1>1 DEF TaskRight, Call
<1>. QED
  BY <1>1, <1>2, <1>3, <1>5

\* The main queue runs the oldest block.
LEMMA BlockTaken ==
    ASSUME Typed, NEW kind, RunBlock(kind)
    PROVE  /\ Tail(mainQ) \in Seq(Block) /\ mainQ # <<>>
           /\ Head(mainQ) \in Held(mainQ) /\ Head(mainQ).kind = kind
           /\ Held(Tail(mainQ)) \subseteq Held(mainQ)
           /\ Held(mainQ) = {Head(mainQ)} \cup Held(Tail(mainQ))
           /\ \A S : /\ Count(mainQ, S) = Count(Tail(mainQ), S) + (IF Head(mainQ) \in S THEN 1 ELSE 0)
                     /\ Count(Tail(mainQ), S) \in Nat /\ Count(mainQ, S) \in Nat
           /\ kind = "value" => Head(mainQ) = Value
           /\ kind = "initial" => Head(mainQ).q \in DOMAIN queries /\ Head(mainQ) = Initial(Head(mainQ).q)
           /\ kind = "added" => /\ Head(mainQ).q \in DOMAIN queries /\ Head(mainQ).of \in located
                                /\ Head(mainQ) = Added(Head(mainQ).q, Head(mainQ).of)
           /\ kind = "entered" => Head(mainQ).of \in Near /\ Head(mainQ) = Entered(Head(mainQ).of)
           /\ kind = "user" => /\ Head(mainQ).of \in Near /\ Head(mainQ) \in Users(Head(mainQ).of)
                               /\ Head(mainQ).found => Head(mainQ).of \in profiles
                               /\ Head(mainQ).found <=> Head(mainQ) = User(Head(mainQ).of, TRUE)
<1>1. mainQ \in Seq(Block) /\ mainQ # <<>> /\ Head(mainQ).kind = kind
  BY DEF Typed, MapTypeOK, RunBlock
<1>2. /\ Tail(mainQ) \in Seq(Block) /\ Held(mainQ) = {Head(mainQ)} \cup Held(Tail(mainQ))
      /\ \A S : Count(mainQ, S) = Count(Tail(mainQ), S) + (IF Head(mainQ) \in S THEN 1 ELSE 0)
  BY <1>1, HeadTail, CountTail
<1>3. \A S : Count(Tail(mainQ), S) \in Nat /\ Count(mainQ, S) \in Nat
  BY <1>1, <1>2, HitsFinite
<1>4. BlockRight(Head(mainQ))
  BY <1>2 DEF Typed, QueuesRight
<1>5. /\ kind = "value" => Head(mainQ) = Value
      /\ kind = "initial" => Head(mainQ).q \in DOMAIN queries /\ Head(mainQ) = Initial(Head(mainQ).q)
      /\ kind = "added" => /\ Head(mainQ).q \in DOMAIN queries /\ Head(mainQ).of \in located
                           /\ Head(mainQ) = Added(Head(mainQ).q, Head(mainQ).of)
      /\ kind = "entered" => Head(mainQ).of \in Near /\ Head(mainQ) = Entered(Head(mainQ).of)
  BY <1>4, <1>1 DEF BlockRight, Value, Initial, Added, Entered, User
<1>6. kind = "user" => /\ Head(mainQ).of \in Near /\ Head(mainQ) \in Users(Head(mainQ).of)
                       /\ Head(mainQ).found => Head(mainQ).of \in profiles
                       /\ Head(mainQ).found <=> Head(mainQ) = User(Head(mainQ).of, TRUE)
  <2>. SUFFICES ASSUME kind = "user"
                PROVE  /\ Head(mainQ).of \in Near /\ Head(mainQ) \in Users(Head(mainQ).of)
                       /\ Head(mainQ).found => Head(mainQ).of \in profiles
                       /\ Head(mainQ).found <=> Head(mainQ) = User(Head(mainQ).of, TRUE)
    OBVIOUS
  <2>1. \/ \E d \in Near : Head(mainQ) = User(d, FALSE)
        \/ \E d \in Near \cap profiles : Head(mainQ) = User(d, TRUE)
    BY <1>4, <1>1 DEF BlockRight, Value, Initial, Added, Entered, User
  <2>2. CASE \E d \in Near : Head(mainQ) = User(d, FALSE)
    <3>1. PICK d \in Near : Head(mainQ) = User(d, FALSE)
      BY <2>2
    <3>2. Head(mainQ).of = d /\ Head(mainQ).found = FALSE /\ User(d, TRUE).found = TRUE
      BY <3>1 DEF User
    <3>. QED
      BY <3>1, <3>2 DEF Users
  <2>3. CASE \E d \in Near \cap profiles : Head(mainQ) = User(d, TRUE)
    <3>1. PICK d \in Near \cap profiles : Head(mainQ) = User(d, TRUE)
      BY <2>3
    <3>2. Head(mainQ).of = d /\ Head(mainQ).found = TRUE
      BY <3>1 DEF User
    <3>. QED
      BY <3>1, <3>2 DEF Users
  <2>. QED
    BY <2>1, <2>2, <2>3
<1>. QED
  BY <1>1, <1>2, <1>3, <1>5, <1>6

\* The client takes the oldest message.
LEMMA MessageTaken ==
    ASSUME Typed, inbox # <<>>, inbox' = Tail(inbox)
    PROVE  /\ inbox' \in Seq(Message) /\ Head(inbox) \in Held(inbox) /\ Head(inbox) = inbox[1]
           /\ Held(inbox') \subseteq Held(inbox)
           /\ Held(inbox) = {Head(inbox)} \cup Held(inbox')
           /\ Len(inbox) \in Nat /\ Len(inbox) >= 1 /\ Len(inbox') = Len(inbox) - 1
           /\ \A i \in DOMAIN inbox' : i + 1 \in DOMAIN inbox /\ inbox'[i] = inbox[i + 1]
           /\ \A i \in DOMAIN inbox : i = 1 \/ (i - 1 \in DOMAIN inbox' /\ inbox[i] = inbox'[i - 1])
           /\ MessageRight(Head(inbox))
<1>1. inbox \in Seq(Message)
  BY DEF Typed, MapTypeOK
<1>2. /\ inbox' \in Seq(Message) /\ Held(inbox) = {Head(inbox)} \cup Held(inbox')
  BY <1>1, HeadTail, CountTail
<1>3. DOMAIN inbox = 1 .. Len(inbox) /\ DOMAIN inbox' = 1 .. Len(inbox')
  BY <1>1, <1>2
<1>4. MessageRight(Head(inbox))
  BY <1>2 DEF Typed, QueuesRight
<1>. QED
  BY <1>1, <1>2, <1>3, <1>4, HeadTail

\* A message comes behind the others.
LEMMA MessageAdded ==
    ASSUME Typed, NEW e \in Message, inbox' = Append(inbox, e)
    PROVE  /\ inbox' \in Seq(Message) /\ Held(inbox') = Held(inbox) \cup {e}
           /\ Len(inbox) \in Nat /\ DOMAIN inbox = 1 .. Len(inbox)
           /\ DOMAIN inbox' = DOMAIN inbox \cup {Len(inbox) + 1} /\ inbox'[Len(inbox) + 1] = e
           /\ \A i \in DOMAIN inbox : inbox'[i] = inbox[i] /\ i < Len(inbox) + 1
<1>1. inbox \in Seq(Message)
  BY DEF Typed, MapTypeOK
<1>3. Held(inbox') = Held(inbox) \cup {e}
  BY <1>1, HeldAppend
<1>. QED
  BY <1>1, <1>3

\* s is base with entries of B behind it.
Grows(s, base, T, B) == \E new \in Seq(T) : s = base \o new /\ Held(new) \subseteq B

\* Such a queue keeps what it held, and every count the new entries are not in.
LEMMA GrowsHeld ==
    ASSUME NEW T, NEW base \in Seq(T), NEW s, NEW B, Grows(s, base, T, B)
    PROVE  /\ s \in Seq(T) /\ Held(base) \subseteq Held(s) /\ Held(s) \subseteq Held(base) \cup B
           /\ \A S : S \cap B = {} => Count(s, S) = Count(base, S)
<1>1. PICK new \in Seq(T) : s = base \o new /\ Held(new) \subseteq B
  BY DEF Grows
<1>2. s \in Seq(T) /\ Held(s) = Held(base) \cup Held(new)
  BY <1>1, Concat, HeldConcat
<1>3. ASSUME NEW S, S \cap B = {} PROVE Count(s, S) = Count(base, S)
  <2>1. Count(new, S) = 0
    <3>1. Held(new) \cap S = {}
      BY <1>1, <1>3
    <3>. QED
      BY <3>1, CountNone
  <2>2. Count(s, S) = Count(base, S) + Count(new, S) /\ Count(base, S) \in Nat
    BY <1>1, CountConcat, HitsFinite
  <2>. QED
    BY <2>1, <2>2
<1>. QED
  BY <1>1, <1>2, <1>3

\* A queue that stays as it is.
LEMMA GrowsNot ==
    ASSUME NEW T, NEW base \in Seq(T), NEW B
    PROVE  Grows(base, base, T, B)
<1>1. base = base \o <<>> /\ <<>> \in Seq(T) /\ Held(<<>>) = {}
  BY Nothing
<1>. QED
  BY <1>1 DEF Grows

\* A queue with one new entry.
LEMMA GrowsOne ==
    ASSUME NEW T, NEW base \in Seq(T), NEW e \in T, NEW B, e \in B
    PROVE  Grows(Append(base, e), base, T, B)
<1>1. PICK q : q = <<e>>
  OBVIOUS
<1>2. q \in Seq(T) /\ Held(q) = {e} /\ Append(base, e) = base \o q
  BY <1>1, Single, AppendIsConcat
<1>. QED
  BY <1>2 DEF Grows

-----------------------------------------------------------------------------
\* The types, and what they say of lengths and domains.
LEMMA Types ==
    ASSUME Typed
    PROVE  /\ inbox \in Seq(Message) /\ libQ \in Seq(Task) /\ mainQ \in Seq(Block)
           /\ queries \in Seq(SUBSET located) /\ annotations \in Seq(Drivers)
           /\ profiles \subseteq located /\ located \subseteq Drivers /\ cache \subseteq located
           /\ reads \in [Drivers -> Nat] /\ waiting \in [Drivers -> Nat]
           /\ entered \in [Drivers -> Nat]
           /\ seen \in [Drivers -> {"unknown", "none", "profile"}]
           /\ loaded \in BOOLEAN /\ followed \subseteq profiles
           /\ regs \in Nat /\ calls \in Nat
           /\ asks \subseteq Path /\ listens \subseteq Path
           /\ DOMAIN queries = 1 .. Len(queries) /\ Len(queries) \in Nat
           /\ Near \subseteq Drivers
<1>1. DOMAIN queries = 1 .. Len(queries) /\ Len(queries) \in Nat
  BY DEF Typed, MapTypeOK
<1>2. regs \in Nat /\ calls \in Nat
  BY DEF Typed, MapTypeOK
<1>. QED
  BY <1>1, <1>2, NearAssumption DEF Typed, MapTypeOK

\* The entries of the queues are of their types.
LEMMA EntryTypes ==
    /\ Value \in Block
    /\ \A q \in Nat : Initial(q) \in Block
    /\ \A q \in Nat, d \in Drivers : Added(q, d) \in Block
    /\ \A d \in Drivers : Entered(d) \in Block /\ User(d, TRUE) \in Block /\ User(d, FALSE) \in Block
    /\ Call("observe", 0) \in Task /\ \A q \in Nat : Call("query", q) \in Task
    /\ \A d \in Drivers : Call("read", d) \in Task /\ Call("unread", d) \in Task
    /\ \A d \in Drivers : None(d) \in Message /\ Found(d) \in Message
    /\ \A keys \in SUBSET Drivers : [at |-> Places, keys |-> keys] \in Message
BY DEF Value, Initial, Added, Entered, User, Call, None, Found, Block, Task, Message, Path, Places

\* Lists of a set: Orders has them all, and each has every element.
LEMMA OrdersHold ==
    ASSUME NEW S, IsFiniteSet(S), NEW s \in Orders(S)
    PROVE  /\ Cardinality(S) \in Nat
           /\ \A i \in 1 .. Cardinality(S) : s[i] \in S
           /\ \A x \in S : \E i \in 1 .. Cardinality(S) : s[i] = x
<1>1. PICK n : n = Cardinality(S)
  OBVIOUS
<1>2. n \in Nat
  BY <1>1, FS_CardinalityType
<1>3. IsFiniteSet(1 .. n) /\ Cardinality(1 .. n) = n
  BY <1>2, FS_Interval
<1>4. s \in [1 .. n -> S] /\ \A i, j \in 1 .. n : s[i] = s[j] => i = j
  BY <1>1 DEF Orders
<1>5. s \in Injection(1 .. n, S)
  BY <1>4 DEF Injection, IsInjective
<1>6. s \in Surjection(1 .. n, S)
  BY <1>5, <1>3, <1>1, FS_Injection
<1>7. \A x \in S : \E i \in 1 .. n : s[i] = x
  BY <1>6 DEF Surjection
<1>. QED
  BY <1>1, <1>2, <1>4, <1>7

-----------------------------------------------------------------------------
\* Another registration raises at most a value event.
LEMMA ObserveGrows ==
    ASSUME Typed, Observe
    PROVE  Grows(mainQ', mainQ, Block, {Value})
<1>1. mainQ \in Seq(Block) /\ Value \in Block
  BY EntryTypes DEF Typed, MapTypeOK
<1>2. CASE loaded
  BY <1>1, <1>2, GrowsOne DEF Observe
<1>3. CASE ~loaded
  BY <1>1, <1>3, GrowsNot DEF Observe
<1>. QED
  BY <1>2, <1>3

\* A query's registration raises a child event for every known key.
LEMMA RegisterGrows ==
    ASSUME Typed, RegisterQuery
    PROVE  /\ Grows(mainQ', mainQ, Block, {Added(Head(libQ).of, d) : d \in cache})
           /\ \A d \in cache : Added(Head(libQ).of, d) \in Held(mainQ')
<1>1. mainQ \in Seq(Block) /\ cache \subseteq Drivers /\ IsFiniteSet(cache)
  BY DriversAssumption, FS_Subset DEF Typed, MapTypeOK
<1>2. PICK q : q = Head(libQ).of
  OBVIOUS
<1>3. q \in Nat
  <2>1. q \in DOMAIN queries
    BY <1>2, TaskTaken DEF RegisterQuery
  <2>. QED
    BY <2>1, Types
<1>4. PICK s \in Orders(cache) :
        mainQ' = mainQ \o [i \in 1 .. Cardinality(cache) |-> Added(q, s[i])]
  BY <1>2 DEF RegisterQuery, QueryEvents
<1>5. PICK n : n = Cardinality(cache)
  OBVIOUS
<1>6. /\ n \in Nat /\ \A i \in 1 .. n : s[i] \in cache
      /\ \A d \in cache : \E i \in 1 .. n : s[i] = d
  BY <1>1, <1>4, <1>5, OrdersHold
<1>7. PICK new : new = [i \in 1 .. n |-> Added(q, s[i])]
  OBVIOUS
<1>8. \A i \in 1 .. n : Added(q, s[i]) \in Block
  BY <1>1, <1>3, <1>6, EntryTypes
<1>9. new \in Seq(Block) /\ Len(new) = n
  BY <1>6, <1>7, <1>8
<1>10. Held(new) = {Added(q, d) : d \in cache}
  BY <1>6, <1>7, <1>9 DEF Held
<1>11. mainQ' = mainQ \o new
  BY <1>4, <1>5, <1>7
<1>12. Held(mainQ') = Held(mainQ) \cup Held(new)
  BY <1>1, <1>9, <1>11, HeldConcat
<1>. QED
  BY <1>2, <1>9, <1>10, <1>11, <1>12 DEF Grows

\* A read is answered at once when the client has the data.
LEMMA ReadGrows ==
    ASSUME Typed, Read, NEW d, d = Head(libQ).of
    PROVE  /\ seen[d] = "unknown" => mainQ' = mainQ
           /\ seen[d] = "profile" => /\ Grows(mainQ', mainQ, Block, {User(d, TRUE)})
                                     /\ User(d, TRUE) \in Held(mainQ')
           /\ seen[d] = "none" => Grows(mainQ', mainQ, Block, {User(d, FALSE)})
           /\ Count(mainQ', Users(d)) = Count(mainQ, Users(d)) + (IF seen[d] = "unknown" THEN 0 ELSE 1)
<1>1. mainQ \in Seq(Block) /\ d \in Drivers /\ seen[d] \in {"unknown", "none", "profile"}
  BY TaskTaken, NearAssumption DEF Typed, MapTypeOK, Read
<1>2. Count(mainQ, Users(d)) \in Nat
  BY <1>1, HitsFinite
<1>3. CASE seen[d] = "unknown"
  BY <1>2, <1>3 DEF Read
<1>4. CASE seen[d] = "profile"
  <2>1. PICK e : e = User(d, TRUE)
    OBVIOUS
  <2>2. e \in Block /\ e \in Users(d)
    BY <1>1, <2>1, EntryTypes DEF Users
  <2>3. mainQ' = Append(mainQ, e)
    BY <1>4, <2>1 DEF Read, User
  <2>4. Held(mainQ') = Held(mainQ) \cup {e} /\ Count(mainQ', Users(d)) = Count(mainQ, Users(d)) + 1
    BY <1>1, <2>2, <2>3, HeldAppend
  <2>5. Grows(mainQ', mainQ, Block, {e})
    BY <1>1, <2>2, <2>3, GrowsOne
  <2>. QED
    BY <1>4, <2>1, <2>4, <2>5
<1>5. CASE seen[d] = "none"
  <2>1. PICK e : e = User(d, FALSE)
    OBVIOUS
  <2>2. e \in Block /\ e \in Users(d)
    BY <1>1, <2>1, EntryTypes DEF Users
  <2>3. mainQ' = Append(mainQ, e)
    BY <1>5, <2>1 DEF Read, User
  <2>4. Held(mainQ') = Held(mainQ) \cup {e} /\ Count(mainQ', Users(d)) = Count(mainQ, Users(d)) + 1
    BY <1>1, <2>2, <2>3, HeldAppend
  <2>5. Grows(mainQ', mainQ, Block, {e})
    BY <1>1, <2>2, <2>3, GrowsOne
  <2>. QED
    BY <1>5, <2>1, <2>4, <2>5
<1>. QED
  BY <1>1, <1>3, <1>4, <1>5

\* New positions raise value events and child events, and some value event.
LEMMA LocationsGrow ==
    ASSUME Typed, DeliverLocations
    PROVE  /\ Grows(mainQ', mainQ, Block,
                    {Value} \cup {Added(q, d) : q \in Registered, d \in cache' \ cache})
           /\ regs > 0 /\ ~(loaded /\ cache' = cache) => Value \in Held(mainQ')
<1>. DEFINE B == {Value} \cup {Added(q, d) : q \in Registered, d \in cache' \ cache}
            news == Registered \X (cache' \ cache)
<1>1. mainQ \in Seq(Block) /\ cache' \subseteq Drivers /\ regs \in Nat
  <2>1. Head(inbox) \in Message
    BY Types, HeadTail DEF DeliverLocations
  <2>. QED
    BY <2>1, Types DEF DeliverLocations, Message
<1>2. Registered \subseteq 1 .. Len(queries) /\ IsFiniteSet(Registered)
  <2>1. Registered \in SUBSET (1 .. Len(queries)) /\ Len(queries) \in Nat
    BY Types DEF Registered
  <2>2. IsFiniteSet(1 .. Len(queries))
    BY <2>1, FS_Interval
  <2>. QED
    BY <2>1, <2>2, FS_Subset
<1>3. IsFiniteSet(cache' \ cache)
  BY <1>1, DriversAssumption, FS_Subset
<1>4. IsFiniteSet(news)
  BY <1>2, <1>3, FS_Product
<1>5. PICK values : values = IF loaded /\ cache' = cache THEN 0 ELSE regs
  OBVIOUS
<1>6. values \in Nat
  BY <1>1, <1>5
<1>7. PICK value : value = [i \in 1 .. values |-> Value]
  OBVIOUS
<1>8. value \in Seq(Block) /\ Held(value) \subseteq B /\ (values > 0 => Value \in Held(value))
  <2>1. value \in Seq(Block) /\ Len(value) = values /\ \A i \in 1 .. values : value[i] = Value
    BY <1>6, <1>7, EntryTypes
  <2>2. values > 0 => 1 \in 1 .. values
    BY <1>6
  <2>. QED
    BY <2>1, <2>2 DEF Held
<1>. HIDE DEF news
<1>9. PICK s \in Orders(news) :
        LET added == [i \in 1 .. Cardinality(news) |-> Added(s[i][1], s[i][2])]
        IN  mainQ' = mainQ \o value \o added \/ mainQ' = mainQ \o added \o value
  BY <1>5, <1>7 DEF DeliverLocations, news
<1>10. PICK n : n = Cardinality(news)
  OBVIOUS
<1>11. n \in Nat /\ \A i \in 1 .. n : s[i] \in news
  BY <1>4, <1>9, <1>10, OrdersHold
<1>12. PICK added : added = [i \in 1 .. n |-> Added(s[i][1], s[i][2])]
  OBVIOUS
<1>13. \A i \in 1 .. n : /\ s[i][1] \in Registered /\ s[i][2] \in cache' \ cache
                          /\ s[i][1] \in Nat /\ s[i][2] \in Drivers
  <2>1. \A p \in news : p[1] \in Registered /\ p[2] \in cache' \ cache
    BY DEF news
  <2>. SUFFICES ASSUME NEW i \in 1 .. n
                PROVE  /\ s[i][1] \in Registered /\ s[i][2] \in cache' \ cache
                       /\ s[i][1] \in Nat /\ s[i][2] \in Drivers
    OBVIOUS
  <2>2. s[i] \in news
    BY <1>11
  <2>3. PICK p \in news : p = s[i]
    BY <2>2
  <2>4. p[1] \in Registered /\ p[2] \in cache' \ cache
    BY <2>1
  <2>5. PICK a \in Registered : a = p[1]
    BY <2>4
  <2>6. a \in Nat
    BY <2>5, <1>2
  <2>7. PICK b \in cache' \ cache : b = p[2]
    BY <2>4
  <2>8. b \in Drivers
    BY <1>1
  <2>. QED
    BY <2>3, <2>4, <2>5, <2>6, <2>7, <2>8
<1>14. added \in Seq(Block) /\ Held(added) \subseteq B
  <2>1. \A i \in 1 .. n : Added(s[i][1], s[i][2]) \in Block /\ Added(s[i][1], s[i][2]) \in B
    BY <1>13, EntryTypes
  <2>2. added \in Seq(Block) /\ Len(added) = n /\ \A i \in 1 .. n : added[i] \in B
    BY <1>11, <1>12, <2>1
  <2>. QED
    BY <2>2 DEF Held
<1>15. mainQ' = mainQ \o value \o added \/ mainQ' = mainQ \o added \o value
  BY <1>9, <1>10, <1>12
<1>16. PICK new : /\ new \in Seq(Block) /\ mainQ' = mainQ \o new
                  /\ Held(new) = Held(value) \cup Held(added)
  <2>1. /\ mainQ \o value \o added = mainQ \o (value \o added)
        /\ mainQ \o added \o value = mainQ \o (added \o value)
    <3>1. mainQ \in Seq(Block) /\ value \in Seq(Block) /\ added \in Seq(Block)
      BY <1>1, <1>8, <1>14
    <3>2. (mainQ \o value) \o added = mainQ \o (value \o added)
      BY <3>1, ConcatAssociative
    <3>3. (mainQ \o added) \o value = mainQ \o (added \o value)
      BY <3>1, ConcatAssociative
    <3>. QED
      BY <3>2, <3>3
  <2>2. /\ value \o added \in Seq(Block) /\ Held(value \o added) = Held(value) \cup Held(added)
        /\ added \o value \in Seq(Block) /\ Held(added \o value) = Held(value) \cup Held(added)
    BY <1>8, <1>14, Concat, HeldConcat
  <2>. QED
    BY <2>1, <2>2, <1>15
<1>17. Held(mainQ') = Held(mainQ) \cup Held(new)
  BY <1>1, <1>16, HeldConcat
<1>18. regs > 0 /\ ~(loaded /\ cache' = cache) => values > 0
  BY <1>5
<1>. HIDE DEF B
<1>19. Grows(mainQ', mainQ, Block, B)
  BY <1>8, <1>14, <1>16 DEF Grows
<1>20. regs > 0 /\ ~(loaded /\ cache' = cache) => Value \in Held(mainQ')
  BY <1>8, <1>16, <1>17, <1>18
<1>. QED
  BY <1>19, <1>20 DEF B

\* Data of a driver answers every read that waits for it.
LEMMA UsersGrow ==
    ASSUME Typed, DeliverUser, NEW d, d = Head(inbox).at, reads[d] # 0
    PROVE  /\ d \notin Head(inbox).keys => Grows(mainQ', mainQ, Block, {User(d, FALSE)})
           /\ d \in Head(inbox).keys => /\ Grows(mainQ', mainQ, Block, {User(d, TRUE)})
                                        /\ waiting[d] > 0 => User(d, TRUE) \in Held(mainQ')
           /\ Count(mainQ', Users(d)) = Count(mainQ, Users(d)) + waiting[d]
           /\ waiting[d] = 0 => mainQ' = mainQ
<1>1. mainQ \in Seq(Block) /\ d \in Drivers /\ waiting[d] \in Nat
  BY Types DEF DeliverUser
<1>2. PICK e : e = IF d \in Head(inbox).keys THEN User(d, TRUE) ELSE User(d, FALSE)
  OBVIOUS
<1>3. e \in Block /\ e \in Users(d)
  BY <1>1, <1>2, EntryTypes DEF Users
<1>4. PICK n : n = waiting[d]
  OBVIOUS
<1>5. PICK new : new = [i \in 1 .. n |-> e] /\ n \in Nat
  BY <1>1, <1>4
<1>6. mainQ' = mainQ \o new
  <2>1. mainQ' = mainQ \o [i \in 1 .. waiting[d] |-> User(d, d \in Head(inbox).keys)]
    BY DEF DeliverUser
  <2>2. e = User(d, d \in Head(inbox).keys)
    <3>1. CASE d \in Head(inbox).keys
      <4>1. (d \in Head(inbox).keys) = TRUE
        BY <3>1
      <4>. QED
        BY <3>1, <4>1, <1>2, Zenon
    <3>2. CASE d \notin Head(inbox).keys
      <4>1. (d \in Head(inbox).keys) = FALSE
        BY <3>2
      <4>. QED
        BY <3>2, <4>1, <1>2, Zenon
    <3>. QED
      BY <3>1, <3>2
  <2>. QED
    BY <2>1, <2>2, <1>4, <1>5
<1>7. new \in Seq(Block) /\ Len(new) = n /\ \A i \in 1 .. n : new[i] = e
  BY <1>3, <1>5
<1>8. Held(new) \subseteq {e} /\ Held(new) \subseteq Users(d) /\ (n > 0 => e \in Held(new))
  <2>1. n > 0 => 1 \in 1 .. n
    BY <1>1, <1>4
  <2>. QED
    BY <1>3, <1>7, <2>1 DEF Held
<1>9. Count(new, Users(d)) = n
  BY <1>7, <1>8, CountAll
<1>10. Count(mainQ', Users(d)) = Count(mainQ, Users(d)) + n
  BY <1>1, <1>6, <1>7, <1>9, CountConcat
<1>11. Grows(mainQ', mainQ, Block, {e}) /\ Held(mainQ') = Held(mainQ) \cup Held(new)
  BY <1>1, <1>6, <1>7, <1>8, HeldConcat DEF Grows
<1>12. n = 0 => mainQ' = mainQ
  <2>. SUFFICES ASSUME n = 0 PROVE mainQ' = mainQ
    OBVIOUS
  <2>1. new = <<>>
    BY <1>7
  <2>. QED
    BY <1>1, <1>6, <2>1
<1>. QED
  BY <1>2, <1>4, <1>8, <1>10, <1>11, <1>12

\* A report makes a read for every key and counts it.
LEMMA ReportGrows ==
    ASSUME Typed, NEW keys \in SUBSET Near, Report(keys)
    PROVE  /\ Grows(libQ', libQ, Task, {Call("read", d) : d \in keys})
           /\ \A d \in keys : Call("read", d) \in Held(libQ')
           /\ entered' \in [Drivers -> Nat]
           /\ \A d \in Drivers : entered'[d] = entered[d] + (IF d \in keys THEN 1 ELSE 0)
<1>1. libQ \in Seq(Task) /\ keys \subseteq Drivers /\ IsFiniteSet(keys) /\ entered \in [Drivers -> Nat]
  <2>1. libQ \in Seq(Task) /\ keys \in SUBSET Drivers /\ entered \in [Drivers -> Nat]
    BY Types
  <2>. QED
    BY <2>1, DriversAssumption, FS_Subset
<1>2. PICK s \in Orders(keys) :
        /\ libQ' = libQ \o [i \in 1 .. Cardinality(keys) |-> Call("read", s[i])]
        /\ entered' = [d \in Drivers |-> entered[d] + (IF d \in keys THEN 1 ELSE 0)]
  BY DEF Report
<1>3. PICK n : n = Cardinality(keys)
  OBVIOUS
<1>4. /\ n \in Nat /\ \A i \in 1 .. n : s[i] \in keys
      /\ \A d \in keys : \E i \in 1 .. n : s[i] = d
  BY <1>1, <1>2, <1>3, OrdersHold
<1>5. PICK new : new = [i \in 1 .. n |-> Call("read", s[i])]
  OBVIOUS
<1>6. \A i \in 1 .. n : Call("read", s[i]) \in Task
  BY <1>1, <1>4, EntryTypes
<1>7. new \in Seq(Task) /\ Len(new) = n
  BY <1>4, <1>5, <1>6
<1>8. Held(new) = {Call("read", d) : d \in keys}
  BY <1>4, <1>5, <1>7 DEF Held
<1>9. libQ' = libQ \o new
  BY <1>2, <1>3, <1>5
<1>10. Held(libQ') = Held(libQ) \cup Held(new)
  BY <1>1, <1>7, <1>9, HeldConcat
<1>11. entered' \in [Drivers -> Nat]
       /\ \A d \in Drivers : entered'[d] = entered[d] + (IF d \in keys THEN 1 ELSE 0)
  BY <1>1, <1>2
<1>. QED
  BY <1>7, <1>8, <1>9, <1>10, <1>11 DEF Grows

\* A value event makes a query and its registration.
LEMMA ValueSteps ==
    ASSUME Typed, HandleValue, NEW q, q = Len(queries) + 1
    PROVE  /\ queries' \in Seq(SUBSET located)
           /\ q \in Nat /\ q \notin DOMAIN queries /\ DOMAIN queries' = DOMAIN queries \cup {q}
           /\ Len(queries') = q
           /\ queries'[q] = {} /\ \A i \in DOMAIN queries : queries'[i] = queries[i]
           /\ Grows(mainQ', Tail(mainQ), Block, {Initial(q)})
           /\ Grows(libQ', libQ, Task, {Call("query", q)})
           /\ Call("query", q) \in Held(libQ')
           /\ \A S : Count(libQ', S) = Count(libQ, S) + (IF Call("query", q) \in S THEN 1 ELSE 0)
<1>1. /\ queries' = Append(queries, {}) /\ mainQ' = Append(Tail(mainQ), Initial(q))
      /\ libQ' = Append(libQ, Call("query", q))
  BY DEF HandleValue, NewQuery
<1>2. /\ queries \in Seq(SUBSET located) /\ DOMAIN queries = 1 .. Len(queries) /\ Len(queries) \in Nat
      /\ libQ \in Seq(Task) /\ Tail(mainQ) \in Seq(Block)
  BY Types, BlockTaken DEF HandleValue
<1>3. /\ queries' \in Seq(SUBSET located)
      /\ q \in Nat /\ q \notin DOMAIN queries /\ DOMAIN queries' = DOMAIN queries \cup {q}
      /\ Len(queries') = q
      /\ queries'[q] = {} /\ \A i \in DOMAIN queries : queries'[i] = queries[i]
  BY <1>1, <1>2
<1>4. Initial(q) \in Block /\ Call("query", q) \in Task
  BY <1>3, EntryTypes
<1>5. Grows(mainQ', Tail(mainQ), Block, {Initial(q)})
  BY <1>1, <1>2, <1>4, GrowsOne
<1>6. Grows(libQ', libQ, Task, {Call("query", q)})
  BY <1>1, <1>2, <1>4, GrowsOne
<1>7. /\ Call("query", q) \in Held(libQ')
      /\ \A S : Count(libQ', S) = Count(libQ, S) + (IF Call("query", q) \in S THEN 1 ELSE 0)
  BY <1>1, <1>2, <1>4, HeldAppend
<1>. QED
  BY <1>3, <1>5, <1>6, <1>7

\* A child event adds a key to its query, and reports one that is new and near.
LEMMA AddedSteps ==
    ASSUME Typed, HandleAdded, NEW q, q = Head(mainQ).q, NEW d, d = Head(mainQ).of
    PROVE  /\ q \in DOMAIN queries /\ d \in located /\ Head(mainQ) = Added(q, d)
           /\ queries' \in Seq(SUBSET located)
           /\ DOMAIN queries' = DOMAIN queries /\ Len(queries') = Len(queries)
           /\ queries'[q] = queries[q] \cup {d}
           /\ \A i \in DOMAIN queries : i # q => queries'[i] = queries[i]
           /\ d \in Near \ queries[q] =>
                /\ Grows(mainQ', Tail(mainQ), Block, {Entered(d)}) /\ Entered(d) \in Held(mainQ')
                /\ \A S : Count(mainQ', S) = Count(Tail(mainQ), S) + (IF Entered(d) \in S THEN 1 ELSE 0)
           /\ d \notin Near \ queries[q] => mainQ' = Tail(mainQ)
<1>1. /\ q \in DOMAIN queries /\ d \in located /\ Head(mainQ) = Added(q, d)
      /\ Tail(mainQ) \in Seq(Block)
  BY BlockTaken DEF HandleAdded
<1>2. /\ queries \in Seq(SUBSET located) /\ DOMAIN queries = 1 .. Len(queries) /\ Len(queries) \in Nat
      /\ located \subseteq Drivers
  BY Types
<1>3. queries' = [queries EXCEPT ![q] = @ \cup {d}]
  BY DEF HandleAdded
<1>4. queries[q] \cup {d} \in SUBSET located
  BY <1>1, <1>2
<1>5. /\ queries' \in Seq(SUBSET located)
      /\ DOMAIN queries' = DOMAIN queries /\ Len(queries') = Len(queries)
      /\ queries'[q] = queries[q] \cup {d}
      /\ \A i \in DOMAIN queries : i # q => queries'[i] = queries[i]
  BY <1>1, <1>2, <1>3, <1>4
<1>6. CASE d \in Near \ queries[q]
  <2>1. mainQ' = Append(Tail(mainQ), Entered(d))
    BY <1>6 DEF HandleAdded, LocationIsInQuery
  <2>2. Entered(d) \in Block
    BY <1>1, <1>2, EntryTypes
  <2>3. Grows(mainQ', Tail(mainQ), Block, {Entered(d)})
    BY <1>1, <2>1, <2>2, GrowsOne
  <2>4. /\ Entered(d) \in Held(mainQ')
        /\ \A S : Count(mainQ', S) = Count(Tail(mainQ), S) + (IF Entered(d) \in S THEN 1 ELSE 0)
    <3>1. PICK t \in Seq(Block) : t = Tail(mainQ)
      BY <1>1
    <3>2. PICK e \in Block : e = Entered(d)
      BY <2>2
    <3>3. mainQ' = Append(t, e)
      BY <2>1, <3>1, <3>2
    <3>4. e \in Held(mainQ') /\ \A S : Count(mainQ', S) = Count(t, S) + (IF e \in S THEN 1 ELSE 0)
      BY <3>3, HeldAppend
    <3>. QED
      BY <3>1, <3>2, <3>4
  <2>. QED
    BY <1>1, <1>5, <1>6, <2>3, <2>4
<1>7. CASE d \notin Near \ queries[q]
  <2>1. mainQ' = Tail(mainQ)
    BY <1>7 DEF HandleAdded, LocationIsInQuery
  <2>. QED
    BY <1>1, <1>5, <1>7, <2>1
<1>. QED
  BY <1>6, <1>7

\* The closure of fetchUserData removes its observer.
LEMMA UserSteps ==
    ASSUME Typed, HandleUser, NEW d, d = Head(mainQ).of
    PROVE  /\ Grows(libQ', libQ, Task, {Call("unread", d)})
           /\ \A S : Count(libQ', S) = Count(libQ, S) + (IF Call("unread", d) \in S THEN 1 ELSE 0)
<1>1. d \in Drivers /\ libQ \in Seq(Task)
  BY BlockTaken, Types DEF HandleUser
<1>2. libQ' = Append(libQ, Call("unread", d)) /\ Call("unread", d) \in Task
  BY <1>1, EntryTypes DEF HandleUser
<1>. QED
  BY <1>1, <1>2, GrowsOne, HeldAppend

\* A call of fetchDrivers makes at most one observe.
LEMMA FetchSteps ==
    ASSUME Typed, FetchDrivers
    PROVE  /\ Grows(libQ', libQ, Task, {Call("observe", 0)})
           /\ Count(libQ', {Call("observe", 0)}) \in {Count(libQ, {Call("observe", 0)}),
                                                      Count(libQ, {Call("observe", 0)}) + 1}
<1>1. libQ \in Seq(Task) /\ Call("observe", 0) \in Task
  BY Types, EntryTypes
<1>2. CASE fix
  <2>1. libQ' = Append(libQ, Call("observe", 0))
    BY <1>2 DEF FetchDrivers
  <2>2. Count(libQ', {Call("observe", 0)}) = Count(libQ, {Call("observe", 0)}) + 1
    BY <1>1, <2>1, HeldAppend
  <2>. QED
    BY <1>1, <2>1, <2>2, GrowsOne
<1>3. CASE ~fix
  <2>1. libQ' = libQ
    BY <1>3 DEF FetchDrivers
  <2>. QED
    BY <1>1, <2>1, GrowsNot
<1>. QED
  BY <1>2, <1>3

\* The reads of a driver's profile: those that wait, the events of the others
\* that have not run, and the removals that have not.
ReadsCounted ==
    \A d \in Drivers :
        /\ reads[d] = waiting[d] + Count(mainQ, Users(d)) + Count(libQ, {Call("unread", d)})
        /\ waiting[d] > 0 => d \in Near

RegsCounted == regs + Count(libQ, {Call("observe", 0)}) <= calls

\* Entries that differ.
LEMMA Distinct ==
    /\ \A d : Users(d) \cap {Value} = {}
    /\ \A d, q : Users(d) \cap {Initial(q)} = {}
    /\ \A d, q, e : Added(q, e) \notin Users(d)
    /\ \A d, e : Users(d) \cap {Entered(e)} = {}
    /\ \A d, e : d # e => Users(d) \cap Users(e) = {}
    /\ \A d, q : {Call("unread", d)} \cap {Call("query", q)} = {}
    /\ \A d : {Call("unread", d)} \cap {Call("observe", 0)} = {}
    /\ \A d, e : Call("read", e) \notin {Call("unread", d)}
    /\ \A d, e : d # e => Call("unread", e) \notin {Call("unread", d)}
BY DEF Users, User, Value, Initial, Added, Entered, Call

\* Every step keeps the count of registrations.
LEMMA RegsStep ==
    ASSUME Typed, RegsCounted, MapNext
    PROVE  RegsCounted'
<1>. DEFINE C == Count(libQ, {Call("observe", 0)})
<1>1. libQ \in Seq(Task) /\ regs \in Nat /\ calls \in Nat
  BY Types
<1>2. C \in Nat /\ regs + C <= calls
  BY <1>1, HitsFinite DEF RegsCounted
<1>. HIDE DEF C
<1>. SUFFICES regs' + Count(libQ', {Call("observe", 0)}) <= calls'
  BY DEF RegsCounted
<1>3. ASSUME UNCHANGED <<libQ, regs, calls>> PROVE regs' + Count(libQ', {Call("observe", 0)}) <= calls'
  BY <1>3, <1>2 DEF C
<1>4. CASE Environment \/ Server \/ DeliverLocations \/ DeliverUser \/ HandleAdded
  BY <1>3, <1>4 DEF Environment, Server, DriverLocated, DriverUploaded, ServerListen, DeliverLocations,
       DeliverUser, HandleAdded, clientVars, linkVars, queryVars
<1>5. ASSUME NEW op, NextTask(op)
      PROVE  /\ Count(libQ', {Call("observe", 0)}) \in Nat /\ Count(libQ', {Call("observe", 0)}) <= C
             /\ op = "observe" => Count(libQ', {Call("observe", 0)}) + 1 = C
  BY <1>5, TaskTaken DEF C
<1>6. CASE Observe
  <2>1. regs' = regs + 1 /\ calls' = calls
    BY <1>6 DEF Observe
  <2>2. Count(libQ', {Call("observe", 0)}) + 1 = C /\ Count(libQ', {Call("observe", 0)}) \in Nat
    BY <1>6, <1>5 DEF Observe
  <2>. QED
    BY <2>1, <2>2, <1>1, <1>2
<1>7. CASE RegisterQuery \/ Read \/ Unread
  <2>1. regs' = regs /\ calls' = calls
    BY <1>7 DEF RegisterQuery, Read, Unread, clientVars
  <2>2. Count(libQ', {Call("observe", 0)}) <= C /\ Count(libQ', {Call("observe", 0)}) \in Nat
    BY <1>7, <1>5 DEF RegisterQuery, Read, Unread
  <2>. QED
    BY <2>1, <2>2, <1>1, <1>2
<1>8. CASE FetchDrivers
  <2>1. regs' = regs /\ calls' = calls + 1
    BY <1>8 DEF FetchDrivers, clientVars
  <2>2. Count(libQ', {Call("observe", 0)}) \in {C, C + 1}
    BY <1>8, FetchSteps DEF C
  <2>. QED
    BY <2>1, <2>2, <1>1, <1>2
<1>9. ASSUME NEW B, Grows(libQ', libQ, Task, B), Call("observe", 0) \notin B, UNCHANGED <<regs, calls>>
      PROVE  regs' + Count(libQ', {Call("observe", 0)}) <= calls'
  <2>1. {Call("observe", 0)} \cap B = {}
    BY <1>9
  <2>2. Count(libQ', {Call("observe", 0)}) = C
    BY <1>1, <1>9, <2>1, GrowsHeld DEF C
  <2>. QED
    BY <1>9, <2>2, <1>2
<1>10. CASE HandleValue
  <2>1. regs' = regs /\ calls' = calls
    BY <1>10 DEF HandleValue, clientVars
  <2>2. Call("observe", 0) \notin {Call("query", Len(queries) + 1)}
    BY DEF Call
  <2>. QED
    BY <1>9, <1>10, <2>1, <2>2, ValueSteps
<1>11. CASE HandleInitial \/ HandleEntered
  <2>1. regs' = regs /\ calls' = calls
    BY <1>11 DEF HandleInitial, HandleEntered, clientVars
  <2>2. PICK keys \in SUBSET Near : Report(keys)
    BY <1>11, BlockTaken DEF HandleInitial, HandleEntered
  <2>3. Call("observe", 0) \notin {Call("read", d) : d \in keys}
    BY DEF Call
  <2>. QED
    BY <1>9, <2>1, <2>2, <2>3, ReportGrows
<1>12. CASE HandleUser
  <2>1. regs' = regs /\ calls' = calls
    BY <1>12 DEF HandleUser, clientVars
  <2>2. Call("observe", 0) \notin {Call("unread", Head(mainQ).of)}
    BY DEF Call
  <2>. QED
    BY <1>9, <1>12, <2>1, <2>2, UserSteps
<1>13. CASE Relaunch
  <2>1. regs' = 0 /\ calls' = 0 /\ libQ' = <<>>
    BY <1>13 DEF Relaunch
  <2>2. Count(<<>>, {Call("observe", 0)}) = 0
    BY Nothing
  <2>. QED
    BY <2>1, <2>2
<1>. QED
  BY <1>4, <1>6, <1>7, <1>8, <1>10, <1>11, <1>12, <1>13 DEF MapNext, Library, Main

\* Every step keeps the count of reads.
LEMMA ReadsStep ==
    ASSUME Typed, ReadsCounted, MapNext
    PROVE  ReadsCounted'
<1>. SUFFICES ASSUME NEW d \in Drivers
              PROVE  /\ reads'[d] = waiting'[d] + Count(mainQ', Users(d)) + Count(libQ', {Call("unread", d)})
                     /\ waiting'[d] > 0 => d \in Near
  BY DEF ReadsCounted, Users
<1>. DEFINE U == Count(mainQ, Users(d))
            V == Count(libQ, {Call("unread", d)})
            U1 == Count(mainQ', Users(d))
            V1 == Count(libQ', {Call("unread", d)})
<1>1. /\ libQ \in Seq(Task) /\ mainQ \in Seq(Block)
      /\ reads \in [Drivers -> Nat] /\ waiting \in [Drivers -> Nat]
  BY Types
<1>2. U \in Nat /\ V \in Nat /\ reads[d] = waiting[d] + U + V /\ (waiting[d] > 0 => d \in Near)
  BY <1>1, HitsFinite DEF ReadsCounted
<1>. HIDE DEF U, V, U1, V1
<1>. SUFFICES reads'[d] = waiting'[d] + U1 + V1 /\ (waiting'[d] > 0 => d \in Near)
  BY DEF U1, V1
\* How the two counts may stay.
<1>3. /\ mainQ' = mainQ => U1 = U
      /\ libQ' = libQ => V1 = V
  BY DEF U, U1, V, V1
<1>4. ASSUME NEW B, Grows(mainQ', mainQ, Block, B), Users(d) \cap B = {} PROVE U1 = U
  BY <1>1, <1>4, GrowsHeld DEF U, U1
<1>5. ASSUME NEW B, Grows(libQ', libQ, Task, B), {Call("unread", d)} \cap B = {} PROVE V1 = V
  BY <1>1, <1>5, GrowsHeld DEF V, V1
<1>6. ASSUME NEW op, NextTask(op), op # "unread" PROVE V1 = V
  <2>1. Head(libQ) # Call("unread", d) /\ V1 \in Nat
    BY <1>6, TaskTaken DEF Call, V1
  <2>2. V = V1 + (IF Head(libQ) \in {Call("unread", d)} THEN 1 ELSE 0)
    BY <1>6, TaskTaken DEF V, V1
  <2>. QED
    BY <2>1, <2>2
<1>7. ASSUME NEW kind, RunBlock(kind), kind # "user"
      PROVE  /\ mainQ' = Tail(mainQ) => U1 = U
             /\ \A B : Grows(mainQ', Tail(mainQ), Block, B) /\ Users(d) \cap B = {} => U1 = U
  <2>1. Head(mainQ) \notin Users(d) /\ Tail(mainQ) \in Seq(Block)
    BY <1>7, BlockTaken DEF User, Users
  <2>2. U = Count(Tail(mainQ), Users(d)) /\ U \in Nat
    <3>1. PICK n : n = Count(Tail(mainQ), Users(d))
      OBVIOUS
    <3>2. n \in Nat /\ U = n + (IF Head(mainQ) \in Users(d) THEN 1 ELSE 0)
      BY <1>7, <3>1, BlockTaken DEF U
    <3>. QED
      BY <3>1, <3>2, <2>1
  <2>3. mainQ' = Tail(mainQ) => U1 = U
    BY <2>2 DEF U1
  <2>4. ASSUME NEW B, Grows(mainQ', Tail(mainQ), Block, B), Users(d) \cap B = {} PROVE U1 = U
    <3>1. PICK t \in Seq(Block) : t = Tail(mainQ)
      BY <2>1
    <3>2. Grows(mainQ', t, Block, B)
      BY <2>4, <3>1
    <3>3. Count(mainQ', Users(d)) = Count(t, Users(d))
      BY <2>4, <3>2, GrowsHeld
    <3>. QED
      BY <2>2, <3>1, <3>3 DEF U1
  <2>. QED
    BY <2>3, <2>4
<1>8. U1 = U /\ V1 = V /\ UNCHANGED <<reads, waiting>>
        => reads'[d] = waiting'[d] + U1 + V1 /\ (waiting'[d] > 0 => d \in Near)
  BY <1>2
<1>9. CASE Environment \/ Server
  BY <1>3, <1>8, <1>9 DEF Environment, Server, DriverLocated, DriverUploaded, ServerListen, clientVars
<1>10. CASE Observe
  <2>1. V1 = V /\ UNCHANGED <<reads, waiting>>
    BY <1>6, <1>10 DEF Observe
  <2>2. U1 = U
    BY <1>4, <1>10, ObserveGrows, Distinct
  <2>. QED
    BY <2>1, <2>2, <1>8
<1>11. CASE RegisterQuery
  <2>1. V1 = V /\ UNCHANGED <<reads, waiting>>
    BY <1>6, <1>11 DEF RegisterQuery, clientVars
  <2>2. Users(d) \cap {Added(Head(libQ).of, e) : e \in cache} = {}
    BY Distinct
  <2>3. U1 = U
    BY <1>4, <1>11, <2>2, RegisterGrows
  <2>. QED
    BY <2>1, <2>3, <1>8
<1>12. CASE DeliverLocations
  <2>1. V1 = V /\ UNCHANGED <<reads, waiting>>
    BY <1>3, <1>12 DEF DeliverLocations
  <2>2. Users(d) \cap ({Value} \cup {Added(q, e) : q \in Registered, e \in cache' \ cache}) = {}
    BY Distinct
  <2>3. U1 = U
    BY <1>4, <1>12, <2>2, LocationsGrow
  <2>. QED
    BY <2>1, <2>3, <1>8
<1>13. CASE Read
  <2>1. PICK e : e = Head(libQ).of
    OBVIOUS
  <2>2. e \in Near /\ e \in Drivers
    BY <1>13, <2>1, TaskTaken, Types DEF Read
  <2>3. V1 = V
    BY <1>6, <1>13 DEF Read
  <2>4. reads' = [reads EXCEPT ![e] = @ + 1]
    BY <1>13, <2>1 DEF Read
  <2>5. CASE seen[e] = "unknown"
    <3>1. U1 = U /\ waiting' = [waiting EXCEPT ![e] = @ + 1]
      BY <1>3, <1>13, <2>1, <2>5 DEF Read
    <3>. QED
      BY <1>1, <1>2, <2>2, <2>3, <2>4, <3>1
  <2>6. CASE seen[e] # "unknown"
    <3>1. waiting' = waiting
      BY <1>13, <2>1, <2>6 DEF Read
    <3>2. CASE e = d
      <4>1. U1 = U + 1
        BY <1>13, <2>1, <2>6, <3>2, ReadGrows DEF U, U1
      <4>. QED
        BY <1>1, <1>2, <2>2, <2>3, <2>4, <3>1, <3>2, <4>1
    <3>3. CASE e # d
      <4>1. seen[e] \in {"unknown", "none", "profile"}
        BY <2>2, Types
      <4>2. \E B : Grows(mainQ', mainQ, Block, B) /\ B \subseteq Users(e)
        BY <1>13, <2>1, <2>6, <4>1, ReadGrows DEF Users
      <4>3. U1 = U
        BY <4>2, <1>4, <3>3, Distinct
      <4>. QED
        BY <1>1, <1>2, <2>2, <2>3, <2>4, <3>1, <3>3, <4>3
    <3>. QED
      BY <3>2, <3>3
  <2>. QED
    BY <2>5, <2>6
<1>14. CASE Unread
  <2>1. PICK e : e = Head(libQ).of
    OBVIOUS
  <2>2. /\ e \in Near /\ e \in Drivers /\ Head(libQ) = Call("unread", e)
    BY <1>14, <2>1, TaskTaken, Types DEF Unread
  <2>3. U1 = U /\ waiting' = waiting /\ reads' = [reads EXCEPT ![e] = @ - 1]
    BY <1>3, <1>14, <2>1 DEF Unread
  <2>4. V = V1 + (IF Head(libQ) \in {Call("unread", d)} THEN 1 ELSE 0) /\ V1 \in Nat
    BY <1>14, TaskTaken DEF Unread, V, V1
  <2>5. CASE e = d
    <3>1. V = V1 + 1
      BY <2>2, <2>4, <2>5
    <3>. QED
      BY <1>1, <1>2, <2>2, <2>3, <2>4, <2>5, <3>1
  <2>6. CASE e # d
    <3>1. V = V1
      BY <2>2, <2>4, <2>6, Distinct
    <3>. QED
      BY <1>1, <1>2, <2>2, <2>3, <2>6, <3>1
  <2>. QED
    BY <2>5, <2>6
<1>15. CASE DeliverUser
  <2>1. PICK e : e = Head(inbox).at
    OBVIOUS
  <2>2. e \in Drivers /\ V1 = V /\ reads' = reads
    BY <1>3, <1>15, <2>1 DEF DeliverUser
  <2>3. CASE reads[e] = 0
    <3>1. U1 = U /\ waiting' = waiting
      BY <1>3, <1>15, <2>1, <2>3 DEF DeliverUser
    <3>. QED
      BY <3>1, <2>2, <1>8
  <2>4. CASE reads[e] # 0
    <3>1. waiting' = [waiting EXCEPT ![e] = 0]
      BY <1>15, <2>1, <2>4 DEF DeliverUser, Answered
    <3>2. CASE e = d
      <4>1. U1 = U + waiting[d]
        BY <1>15, <2>1, <2>4, <3>2, UsersGrow DEF U, U1
      <4>. QED
        BY <1>1, <1>2, <2>2, <3>1, <3>2, <4>1
    <3>3. CASE e # d
      <4>1. \E B : Grows(mainQ', mainQ, Block, B) /\ B \subseteq Users(e)
        BY <1>15, <2>1, <2>4, UsersGrow DEF Users
      <4>2. U1 = U
        BY <4>1, <1>4, <3>3, Distinct
      <4>. QED
        BY <1>1, <1>2, <2>2, <3>1, <3>3, <4>2
    <3>. QED
      BY <3>2, <3>3
  <2>. QED
    BY <2>3, <2>4
<1>16. CASE FetchDrivers
  <2>1. UNCHANGED <<reads, waiting, mainQ>>
    BY <1>16 DEF FetchDrivers, clientVars
  <2>2. V1 = V
    BY <1>5, <1>16, FetchSteps, Distinct
  <2>. QED
    BY <2>1, <2>2, <1>3, <1>8
<1>17. CASE HandleValue
  <2>1. UNCHANGED <<reads, waiting>> /\ RunBlock("value")
    BY <1>17 DEF HandleValue, clientVars
  <2>2. PICK q : q = Len(queries) + 1
    OBVIOUS
  <2>3. /\ Grows(libQ', libQ, Task, {Call("query", q)}) /\ {Call("unread", d)} \cap {Call("query", q)} = {}
        /\ Grows(mainQ', Tail(mainQ), Block, {Initial(q)}) /\ Users(d) \cap {Initial(q)} = {}
    BY <1>17, <2>2, ValueSteps, Distinct
  <2>4. V1 = V
    BY <1>5, <2>3
  <2>5. U1 = U
    BY <1>7, <2>1, <2>3
  <2>. QED
    BY <2>1, <2>4, <2>5, <1>8
<1>18. CASE HandleInitial \/ HandleEntered
  <2>1. UNCHANGED <<reads, waiting>> /\ mainQ' = Tail(mainQ)
    BY <1>18 DEF HandleInitial, HandleEntered, clientVars
  <2>2. PICK keys \in SUBSET Near : Report(keys)
    BY <1>18, BlockTaken DEF HandleInitial, HandleEntered
  <2>3. {Call("unread", d)} \cap {Call("read", e) : e \in keys} = {}
    BY Distinct
  <2>4. V1 = V
    BY <1>5, <2>2, <2>3, ReportGrows
  <2>5. U1 = U
    BY <1>7, <1>18, <2>1 DEF HandleInitial, HandleEntered
  <2>. QED
    BY <2>1, <2>4, <2>5, <1>8
<1>19. CASE HandleAdded
  <2>1. UNCHANGED <<reads, waiting, libQ>> /\ RunBlock("added")
    BY <1>19 DEF HandleAdded, clientVars
  <2>2. PICK e : e = Head(mainQ).of
    OBVIOUS
  <2>3. mainQ' = Tail(mainQ) \/ Grows(mainQ', Tail(mainQ), Block, {Entered(e)})
    BY <1>19, <2>2, AddedSteps
  <2>4. Users(d) \cap {Entered(e)} = {}
    BY Distinct
  <2>5. U1 = U
    BY <1>7, <2>1, <2>3, <2>4
  <2>. QED
    BY <2>1, <2>5, <1>3, <1>8
<1>20. CASE HandleUser
  <2>1. PICK e : e = Head(mainQ).of
    OBVIOUS
  <2>2. UNCHANGED <<reads, waiting>> /\ mainQ' = Tail(mainQ) /\ RunBlock("user")
    BY <1>20 DEF HandleUser, clientVars
  <2>3. e \in Drivers /\ Head(mainQ) \in Users(e)
    BY <2>1, <2>2, BlockTaken, Types
  <2>4. U = U1 + (IF Head(mainQ) \in Users(d) THEN 1 ELSE 0) /\ U1 \in Nat
    BY <2>2, BlockTaken DEF U, U1
  <2>5. V1 = V + (IF Call("unread", e) \in {Call("unread", d)} THEN 1 ELSE 0)
    BY <1>20, <2>1, UserSteps DEF V, V1
  <2>6. CASE e = d
    <3>1. U = U1 + 1 /\ V1 = V + 1
      BY <2>3, <2>4, <2>5, <2>6
    <3>2. reads'[d] = reads[d] /\ waiting'[d] = waiting[d] /\ waiting[d] \in Nat
      BY <2>2, <1>1
    <3>3. waiting[d] + U + V = waiting[d] + U1 + V1
      BY <1>2, <2>4, <3>1, <3>2
    <3>. QED
      BY <1>2, <3>2, <3>3
  <2>7. CASE e # d
    <3>1. Head(mainQ) \notin Users(d) /\ Call("unread", e) \notin {Call("unread", d)}
      BY <2>3, <2>7, Distinct
    <3>. QED
      BY <1>2, <2>2, <2>4, <2>5, <3>1
  <2>. QED
    BY <2>6, <2>7
<1>21. CASE Relaunch
  <2>1. reads'[d] = 0 /\ waiting'[d] = 0 /\ mainQ' = <<>> /\ libQ' = <<>>
    BY <1>21 DEF Relaunch
  <2>2. U1 = 0 /\ V1 = 0
    BY <2>1, Nothing DEF U1, V1
  <2>. QED
    BY <2>1, <2>2
<1>. QED
  BY <1>9, <1>10, <1>11, <1>12, <1>13, <1>14, <1>15, <1>16, <1>17, <1>18, <1>19, <1>20, <1>21
     DEF MapNext, Library, Main

\* The server's data, the queries and the circle only grow while a process
\* lives, so that what is right in a queue stays right.
LEMMA RightStays ==
    ASSUME located \subseteq located', profiles \subseteq profiles', DOMAIN queries \subseteq DOMAIN queries'
    PROVE  /\ \A e : MessageRight(e) => MessageRight(e)'
           /\ \A e : TaskRight(e) => TaskRight(e)'
           /\ \A e : BlockRight(e) => BlockRight(e)'
<1>1. \A e : MessageRight(e) => MessageRight(e)'
  BY DEF MessageRight, None, Found, Places
<1>2. \A e : TaskRight(e) => TaskRight(e)'
  BY DEF TaskRight, Call
<1>3. \A e : BlockRight(e) => BlockRight(e)'
  BY DEF BlockRight, Value, Initial, Added, Entered, User
<1>. QED
  BY <1>1, <1>2, <1>3

\* Every step puts only such entries in the queues.
LEMMA QueuesStep ==
    ASSUME Typed, ReadsCounted, MapNext,
           \A d \in Drivers : seen[d] = "profile" => d \in profiles
    PROVE  QueuesRight'
<1>1. /\ \A e \in Held(inbox) : MessageRight(e)
      /\ \A e \in Held(libQ) : TaskRight(e)
      /\ \A e \in Held(mainQ) : BlockRight(e)
  BY DEF Typed, QueuesRight
<1>2. /\ inbox \in Seq(Message) /\ libQ \in Seq(Task) /\ mainQ \in Seq(Block)
      /\ profiles \subseteq located /\ located \subseteq Drivers /\ DOMAIN queries = 1 .. Len(queries)
      /\ Near \subseteq Drivers
  BY Types
<1>3. CASE Relaunch
  <2>1. Held(inbox') = {} /\ Held(libQ') = {} /\ Held(mainQ') = {}
    BY <1>3, Nothing DEF Relaunch
  <2>. QED
    BY <2>1 DEF QueuesRight
<1>. SUFFICES ASSUME ~Relaunch PROVE QueuesRight'
  BY <1>3
<1>4. located \subseteq located' /\ profiles \subseteq profiles' /\ DOMAIN queries \subseteq DOMAIN queries'
  <2>1. CASE Environment
    BY <2>1 DEF Environment, DriverLocated, DriverUploaded, queryVars, serverVars
  <2>2. CASE Server \/ Library \/ FetchDrivers
    BY <2>2 DEF Server, ServerListen, Library, Observe, RegisterQuery, Read, Unread, DeliverLocations,
         DeliverUser, FetchDrivers, queryVars, serverVars
  <2>3. CASE HandleValue
    BY <2>3, ValueSteps DEF HandleValue, serverVars
  <2>4. CASE HandleAdded
    BY <2>4, AddedSteps DEF HandleAdded, serverVars
  <2>5. CASE HandleInitial \/ HandleEntered \/ HandleUser
    BY <2>5 DEF HandleInitial, HandleEntered, HandleUser, serverVars
  <2>. QED
    BY <2>1, <2>2, <2>3, <2>4, <2>5 DEF MapNext, Main
<1>5. /\ \A e : MessageRight(e) => MessageRight(e)'
      /\ \A e : TaskRight(e) => TaskRight(e)'
      /\ \A e : BlockRight(e) => BlockRight(e)'
  BY <1>4, RightStays
<1>6. \A e \in Held(inbox') : MessageRight(e)'
  <2>1. ASSUME NEW m \in Message, inbox' = Append(inbox, m), MessageRight(m)'
        PROVE  \A e \in Held(inbox') : MessageRight(e)'
    BY <2>1, <1>1, <1>5, MessageAdded
  <2>2. ASSUME inbox' = inbox PROVE \A e \in Held(inbox') : MessageRight(e)'
    BY <2>2, <1>1, <1>5
  <2>3. ASSUME NEW path \in Path, ServerListen(path) PROVE \A e \in Held(inbox') : MessageRight(e)'
    <3>1. PICK m : m = [at |-> path, keys |-> Data(path)]
      OBVIOUS
    <3>2. inbox' = Append(inbox, m) /\ UNCHANGED <<located, profiles>>
      BY <2>3, <3>1 DEF ServerListen, serverVars
    <3>3. m \in Message /\ MessageRight(m)'
      <4>1. CASE path = Places
        BY <3>1, <3>2, <4>1, <1>2 DEF Data, Places, Message, MessageRight
      <4>2. CASE path \in Drivers /\ path # Places
        <5>1. m = [at |-> path, keys |-> profiles \cap {path}]
          BY <3>1, <4>2 DEF Data, Places
        <5>2. CASE path \in profiles
          <6>1. m = Found(path) /\ m.at = path
            BY <5>1, <5>2 DEF Found
          <6>. QED
            BY <6>1, <5>2, <4>2, <3>2, EntryTypes DEF MessageRight, Found
        <5>3. CASE path \notin profiles
          <6>1. m = None(path) /\ m.at = path
            BY <5>1, <5>3 DEF None
          <6>. QED
            BY <6>1, <5>3, <4>2, <3>2, EntryTypes DEF MessageRight, None
        <5>. QED
          BY <5>2, <5>3
      <4>. QED
        BY <4>1, <4>2 DEF Path, Places
    <3>. QED
      BY <3>2, <3>3, <2>1
  <2>4. ASSUME NEW d \in Drivers, DriverLocated(d) PROVE \A e \in Held(inbox') : MessageRight(e)'
    <3>1. PICK m : m = [at |-> Places, keys |-> located']
      OBVIOUS
    <3>2. m \in Message /\ MessageRight(m)'
      BY <2>4, <3>1, <1>2 DEF DriverLocated, Message, MessageRight, Path, Places
    <3>3. inbox' = inbox \/ inbox' = Append(inbox, m)
      BY <2>4, <3>1 DEF DriverLocated, Push, Places
    <3>. QED
      BY <3>2, <3>3, <2>1, <2>2
  <2>5. ASSUME NEW d \in Drivers, DriverUploaded(d) PROVE \A e \in Held(inbox') : MessageRight(e)'
    <3>1. Found(d) \in Message /\ Found(d).at = d /\ d \in profiles'
      BY <2>5, EntryTypes DEF DriverUploaded, Found
    <3>2. MessageRight(Found(d))'
      BY <3>1 DEF MessageRight, Found
    <3>3. inbox' = inbox \/ inbox' = Append(inbox, Found(d))
      BY <2>5 DEF DriverUploaded, Push, Found
    <3>. QED
      BY <3>1, <3>2, <3>3, <2>1, <2>2
  <2>6. CASE DeliverLocations \/ DeliverUser
    <3>1. Held(inbox') \subseteq Held(inbox)
      BY <2>6, MessageTaken DEF DeliverLocations, DeliverUser
    <3>. QED
      BY <3>1, <1>1, <1>5
  <2>7. CASE inbox' = inbox
    BY <2>2, <2>7
  <2>8. \/ inbox' = inbox \/ DeliverLocations \/ DeliverUser
        \/ \E path \in Path : ServerListen(path)
        \/ \E d \in Drivers : DriverLocated(d) \/ DriverUploaded(d)
    BY DEF MapNext, Environment, Server, Library, Main, Observe, RegisterQuery, Read, Unread,
       FetchDrivers, HandleValue, HandleInitial, HandleAdded, HandleEntered, HandleUser, linkVars
  <2>. QED
    BY <2>3, <2>4, <2>5, <2>6, <2>7, <2>8
<1>7. \A e \in Held(libQ') : TaskRight(e)'
  <2>1. ASSUME NEW B, Grows(libQ', libQ, Task, B), \A e \in B : TaskRight(e)'
        PROVE  \A e \in Held(libQ') : TaskRight(e)'
    <3>1. Held(libQ') \subseteq Held(libQ) \cup B
      BY <2>1, <1>2, GrowsHeld
    <3>. QED
      BY <2>1, <3>1, <1>1, <1>5
  <2>2. CASE libQ' = libQ
    BY <2>2, <1>1, <1>5
  <2>3. CASE Observe \/ RegisterQuery \/ Read \/ Unread
    <3>1. Held(libQ') \subseteq Held(libQ)
      BY <2>3, TaskTaken DEF Observe, RegisterQuery, Read, Unread
    <3>. QED
      BY <3>1, <1>1, <1>5
  <2>4. CASE FetchDrivers
    BY <2>1, <2>4, FetchSteps DEF TaskRight
  <2>5. CASE HandleValue
    <3>1. PICK q : q = Len(queries) + 1
      OBVIOUS
    <3>2. q \in DOMAIN queries' /\ Grows(libQ', libQ, Task, {Call("query", q)})
      BY <2>5, <3>1, ValueSteps
    <3>3. TaskRight(Call("query", q))'
      BY <3>2 DEF TaskRight, Call
    <3>. QED
      BY <2>1, <3>2, <3>3
  <2>6. CASE HandleInitial \/ HandleEntered
    <3>1. PICK keys \in SUBSET Near : Report(keys)
      BY <2>6, BlockTaken DEF HandleInitial, HandleEntered
    <3>2. \A e \in {Call("read", d) : d \in keys} : TaskRight(e)'
      BY DEF TaskRight, Call
    <3>. QED
      BY <2>1, <3>1, <3>2, ReportGrows
  <2>7. CASE HandleUser
    <3>1. PICK d : d = Head(mainQ).of
      OBVIOUS
    <3>2. d \in Near
      BY <2>7, <3>1, BlockTaken DEF HandleUser
    <3>3. TaskRight(Call("unread", d))'
      BY <3>2 DEF TaskRight, Call
    <3>4. Grows(libQ', libQ, Task, {Call("unread", d)})
      BY <2>7, <3>1, UserSteps
    <3>. QED
      BY <2>1, <3>3, <3>4
  <2>8. \/ libQ' = libQ \/ Observe \/ RegisterQuery \/ Read \/ Unread \/ FetchDrivers \/ HandleValue
        \/ HandleInitial \/ HandleEntered \/ HandleUser
    BY DEF MapNext, Environment, Server, Library, Main, DriverLocated, DriverUploaded, ServerListen,
       DeliverLocations, DeliverUser, HandleAdded
  <2>. QED
    BY <2>2, <2>3, <2>4, <2>5, <2>6, <2>7, <2>8
<1>8. \A e \in Held(mainQ') : BlockRight(e)'
  <2>1. ASSUME NEW t \in Seq(Block), NEW B, Held(t) \subseteq Held(mainQ),
               Grows(mainQ', t, Block, B), \A e \in B : BlockRight(e)'
        PROVE  \A e \in Held(mainQ') : BlockRight(e)'
    <3>1. Held(mainQ') \subseteq Held(t) \cup B
      BY <2>1, GrowsHeld
    <3>. QED
      BY <2>1, <3>1, <1>1, <1>5
  <2>2. CASE mainQ' = mainQ
    BY <2>2, <1>1, <1>5
  <2>3. CASE Observe
    BY <2>1, <2>3, <1>2, ObserveGrows DEF BlockRight
  <2>4. CASE RegisterQuery
    <3>1. PICK q : q = Head(libQ).of
      OBVIOUS
    <3>2. q \in DOMAIN queries /\ queries' = queries /\ located' = located /\ cache \subseteq located
      BY <2>4, <3>1, TaskTaken, Types DEF RegisterQuery, queryVars, serverVars
    <3>3. \A e \in {Added(q, d) : d \in cache} : BlockRight(e)'
      BY <3>2 DEF BlockRight
    <3>. QED
      BY <2>1, <2>4, <1>2, <3>1, <3>3, RegisterGrows
  <2>5. CASE Read
    <3>1. PICK d : d = Head(libQ).of
      OBVIOUS
    <3>2. d \in Near /\ seen[d] \in {"unknown", "none", "profile"}
      BY <2>5, <3>1, TaskTaken, Types DEF Read
    <3>3. BlockRight(User(d, FALSE))'
      BY <3>2 DEF BlockRight, User
    <3>4. CASE seen[d] = "profile"
      <4>1. d \in profiles'
        BY <3>2, <3>4, <1>2, <1>4
      <4>2. BlockRight(User(d, TRUE))'
        BY <3>2, <4>1 DEF BlockRight, User
      <4>3. Grows(mainQ', mainQ, Block, {User(d, TRUE)})
        BY <2>5, <3>1, <3>4, ReadGrows
      <4>. QED
        BY <2>1, <1>2, <4>2, <4>3
    <3>5. CASE seen[d] = "none"
      <4>1. Grows(mainQ', mainQ, Block, {User(d, FALSE)})
        BY <2>5, <3>1, <3>5, ReadGrows
      <4>. QED
        BY <2>1, <1>2, <3>3, <4>1
    <3>6. CASE seen[d] = "unknown"
      BY <2>5, <3>1, <3>6, <2>2, ReadGrows
    <3>. QED
      BY <3>2, <3>4, <3>5, <3>6
  <2>6. CASE DeliverLocations
    <3>1. queries' = queries /\ located' = located /\ cache' \subseteq located
      <4>1. Head(inbox).at = Places /\ cache' = Head(inbox).keys /\ MessageRight(Head(inbox))
        BY <2>6, MessageTaken DEF DeliverLocations, Places
      <4>2. Head(inbox).keys \subseteq located
        BY <4>1, DriversAssumption, <1>2 DEF MessageRight, Places
      <4>. QED
        BY <2>6, <4>1, <4>2 DEF DeliverLocations, queryVars, serverVars
    <3>2. \A e \in {Value} \cup {Added(q, d) : q \in Registered, d \in cache' \ cache} : BlockRight(e)'
      <4>1. BlockRight(Value)'
        BY DEF BlockRight, Value
      <4>2. ASSUME NEW q \in Registered, NEW d \in cache' \ cache PROVE BlockRight(Added(q, d))'
        <5>1. q \in DOMAIN queries' /\ d \in located'
          BY <3>1 DEF Registered
        <5>. QED
          BY <5>1 DEF BlockRight, Added
      <4>. QED
        BY <4>1, <4>2
    <3>. QED
      BY <2>1, <2>6, <1>2, <3>2, LocationsGrow
  <2>7. CASE DeliverUser
    <3>1. PICK d : d = Head(inbox).at
      OBVIOUS
    <3>2. d \in Drivers
      BY <2>7, <3>1 DEF DeliverUser
    <3>3. CASE reads[d] = 0 \/ waiting[d] = 0
      <4>1. mainQ' = mainQ
        BY <2>7, <3>1, <3>3, UsersGrow DEF DeliverUser
      <4>. QED
        BY <4>1, <2>2
    <3>4. CASE reads[d] # 0 /\ waiting[d] # 0
      <4>1. d \in Near
        <5>1. waiting[d] \in Nat
          BY <3>2, Types
        <5>2. waiting[d] > 0
          BY <3>4, <5>1
        <5>. QED
          BY <3>2, <5>2 DEF ReadsCounted
      <4>2. CASE d \in Head(inbox).keys
        <5>1. d \in profiles
          BY <2>7, <3>1, <3>2, <4>2, MessageTaken, DriversAssumption DEF DeliverUser, MessageRight, None, Places
        <5>2. BlockRight(User(d, TRUE))'
          BY <4>1, <5>1, <1>4 DEF BlockRight, User
        <5>3. Grows(mainQ', mainQ, Block, {User(d, TRUE)})
          BY <2>7, <3>1, <3>4, <4>2, UsersGrow
        <5>. QED
          BY <2>1, <1>2, <5>2, <5>3
      <4>3. CASE d \notin Head(inbox).keys
        <5>1. BlockRight(User(d, FALSE))'
          BY <4>1 DEF BlockRight, User
        <5>2. Grows(mainQ', mainQ, Block, {User(d, FALSE)})
          BY <2>7, <3>1, <3>4, <4>3, UsersGrow
        <5>. QED
          BY <2>1, <1>2, <5>1, <5>2
      <4>. QED
        BY <4>2, <4>3
    <3>. QED
      BY <3>3, <3>4
  <2>8. CASE HandleValue
    <3>1. PICK q : q = Len(queries) + 1
      OBVIOUS
    <3>2. q \in DOMAIN queries' /\ Grows(mainQ', Tail(mainQ), Block, {Initial(q)})
      BY <2>8, <3>1, ValueSteps
    <3>3. BlockRight(Initial(q))'
      BY <3>2 DEF BlockRight, Initial
    <3>4. PICK t \in Seq(Block) : t = Tail(mainQ) /\ Held(t) \subseteq Held(mainQ)
      BY <2>8, BlockTaken DEF HandleValue
    <3>. QED
      BY <2>1, <3>2, <3>3, <3>4
  <2>9. CASE HandleInitial \/ HandleEntered \/ HandleUser
    <3>1. Held(mainQ') \subseteq Held(mainQ)
      BY <2>9, BlockTaken DEF HandleInitial, HandleEntered, HandleUser
    <3>. QED
      BY <3>1, <1>1, <1>5
  <2>10. CASE HandleAdded
    <3>1. PICK d : d = Head(mainQ).of
      OBVIOUS
    <3>2. PICK t \in Seq(Block) : t = Tail(mainQ) /\ Held(t) \subseteq Held(mainQ)
      BY <2>10, BlockTaken DEF HandleAdded
    <3>3. CASE mainQ' = Tail(mainQ)
      BY <3>2, <3>3, <1>1, <1>5
    <3>4. CASE d \in Near /\ Grows(mainQ', t, Block, {Entered(d)})
      <4>1. BlockRight(Entered(d))'
        BY <3>4 DEF BlockRight, Entered
      <4>. QED
        BY <2>1, <3>2, <3>4, <4>1
    <3>. QED
      BY <2>10, <3>1, <3>2, <3>3, <3>4, AddedSteps
  <2>11. \/ mainQ' = mainQ \/ Observe \/ RegisterQuery \/ Read \/ DeliverLocations \/ DeliverUser
         \/ HandleValue \/ HandleInitial \/ HandleEntered \/ HandleUser \/ HandleAdded
    BY DEF MapNext, Environment, Server, Library, Main, DriverLocated, DriverUploaded, ServerListen,
       Unread, FetchDrivers
  <2>. QED
    BY <2>2, <2>3, <2>4, <2>5, <2>6, <2>7, <2>8, <2>9, <2>10, <2>11
<1>. QED
  BY <1>6, <1>7, <1>8 DEF QueuesRight

\* The types of the location services.
LEMMA LocationStep ==
    ASSUME Typed, MapNext
    PROVE  LocationTypeOK'
<1>1. LocationTypeOK
  BY DEF Typed, MapTypeOK
<1>2. \A s \in Authorization : Asks(s) \in {"none", "whenInUse", "always"} /\ StartsUpdates(s) \in BOOLEAN
  BY DEF Authorization, Asks, StartsUpdates
<1>3. CASE Relaunch
  BY <1>1, <1>2, <1>3 DEF LocationTypeOK, Relaunch, EnableLocationServices
<1>4. CASE LocationFix
  BY <1>1, <1>4 DEF LocationTypeOK, LocationFix
<1>5. ASSUME NEW s \in Authorization, LocationManagerDidChangeAuthorization(s) PROVE LocationTypeOK'
  BY <1>1, <1>5, ChangesAssumption DEF LocationTypeOK, LocationManagerDidChangeAuthorization
<1>6. CASE UNCHANGED locationVars
  BY <1>1, <1>6 DEF LocationTypeOK, locationVars
<1>7. \/ UNCHANGED locationVars \/ Relaunch \/ LocationFix
      \/ \E s \in Authorization : LocationManagerDidChangeAuthorization(s)
  BY DEF MapNext, Environment, Server, Library, Main, Observe, RegisterQuery, Read, Unread,
     DeliverLocations, DeliverUser, FetchDrivers, HandleValue, HandleInitial, HandleAdded,
     HandleEntered, HandleUser, DriverLocated, DriverUploaded, ServerListen
<1>. QED
  BY <1>3, <1>4, <1>5, <1>6, <1>7

\* The types of what each part of the system keeps.
LEMMA TypeStep ==
    ASSUME Typed, ReadsCounted, RegsCounted, MapNext
    PROVE  MapTypeOK'
<1>0. LocationTypeOK'
  BY LocationStep
<1>1. /\ inbox \in Seq(Message) /\ libQ \in Seq(Task) /\ mainQ \in Seq(Block)
      /\ queries \in Seq(SUBSET located) /\ annotations \in Seq(Drivers)
      /\ profiles \subseteq located /\ located \subseteq Drivers /\ cache \subseteq located
      /\ reads \in [Drivers -> Nat] /\ waiting \in [Drivers -> Nat]
      /\ entered \in [Drivers -> Nat]
      /\ seen \in [Drivers -> {"unknown", "none", "profile"}]
      /\ loaded \in BOOLEAN /\ followed \subseteq profiles
      /\ asks \subseteq Path /\ listens \subseteq Path /\ Near \subseteq Drivers
  BY Types
<1>2. regs \in 0 .. MaxCalls /\ calls \in 0 .. MaxCalls /\ launches \in 0 .. MaxLaunches
      /\ MaxCalls \in Nat /\ MaxLaunches \in Nat
  BY CallsAssumption DEF Typed, MapTypeOK
\* Server.
<1>3. /\ profiles' \subseteq located' /\ located' \subseteq Drivers /\ followed' \subseteq profiles'
      /\ located \subseteq located'
  <2>1. CASE Environment
    BY <2>1, <1>1 DEF Environment, DriverLocated, DriverUploaded, serverVars
  <2>2. CASE Server
    BY <2>2, <1>1 DEF Server, ServerListen, serverVars
  <2>3. CASE Relaunch
    BY <2>3, <1>1 DEF Relaunch, serverVars
  <2>4. CASE UNCHANGED <<serverVars, followed>>
    BY <2>4, <1>1 DEF serverVars
  <2>5. Environment \/ Server \/ Relaunch \/ UNCHANGED <<serverVars, followed>>
    BY DEF MapNext, Library, Main, Observe, RegisterQuery, Read, Unread, DeliverLocations, DeliverUser,
       FetchDrivers, HandleValue, HandleInitial, HandleAdded, HandleEntered, HandleUser
  <2>. QED
    BY <2>1, <2>2, <2>3, <2>4, <2>5
\* Connection.
<1>4. asks' \subseteq Path /\ listens' \subseteq Path
  <2>1. CASE Server
    BY <2>1, <1>1 DEF Server, ServerListen
  <2>2. CASE Observe \/ Unread \/ Relaunch
    BY <2>2, <1>1 DEF Observe, Unread, Relaunch, Path
  <2>3. CASE Read
    <3>1. Head(libQ).of \in Drivers
      BY <2>3, <1>1, TaskTaken DEF Read
    <3>2. listens' = listens /\ (asks' = asks \/ asks' = asks \cup {Head(libQ).of})
      BY <2>3 DEF Read
    <3>. QED
      BY <3>1, <3>2, <1>1 DEF Path
  <2>4. CASE UNCHANGED <<asks, listens>>
    BY <2>4, <1>1
  <2>5. Server \/ Observe \/ Unread \/ Relaunch \/ Read \/ UNCHANGED <<asks, listens>>
    BY DEF MapNext, Environment, DriverLocated, DriverUploaded, Library, Main, RegisterQuery,
       DeliverLocations, DeliverUser, FetchDrivers, HandleValue, HandleInitial, HandleAdded,
       HandleEntered, HandleUser, linkVars
  <2>. QED
    BY <2>1, <2>2, <2>3, <2>4, <2>5
<1>5. inbox' \in Seq(Message)
  <2>1. ASSUME NEW path \in Path, ServerListen(path) PROVE inbox' \in Seq(Message)
    <3>1. Data(path) \in SUBSET Drivers
      BY <1>1 DEF Data
    <3>2. [at |-> path, keys |-> Data(path)] \in Message
      BY <3>1 DEF Message
    <3>. QED
      BY <2>1, <3>2, <1>1 DEF ServerListen
  <2>2. ASSUME NEW d \in Drivers, DriverLocated(d) PROVE inbox' \in Seq(Message)
    <3>1. [at |-> "driver-locations", keys |-> located'] \in Message
      BY <1>3 DEF Message, Path
    <3>. QED
      BY <2>2, <3>1, <1>1 DEF DriverLocated, Push
  <2>3. ASSUME NEW d \in Drivers, DriverUploaded(d) PROVE inbox' \in Seq(Message)
    <3>1. [at |-> d, keys |-> {d}] \in Message
      BY DEF Message, Path
    <3>. QED
      BY <2>3, <3>1, <1>1 DEF DriverUploaded, Push
  <2>4. CASE DeliverLocations \/ DeliverUser
    BY <2>4, MessageTaken DEF DeliverLocations, DeliverUser
  <2>5. CASE Relaunch
    BY <2>5 DEF Relaunch
  <2>6. CASE inbox' = inbox
    BY <2>6, <1>1
  <2>7. \/ inbox' = inbox \/ DeliverLocations \/ DeliverUser \/ Relaunch
        \/ \E path \in Path : ServerListen(path)
        \/ \E d \in Drivers : DriverLocated(d) \/ DriverUploaded(d)
    BY DEF MapNext, Environment, Server, Library, Main, Observe, RegisterQuery, Read, Unread,
       FetchDrivers, HandleValue, HandleInitial, HandleAdded, HandleEntered, HandleUser, linkVars
  <2>. QED
    BY <2>1, <2>2, <2>3, <2>4, <2>5, <2>6, <2>7
\* The client's calls and registrations.
<1>6. libQ' \in Seq(Task)
  <2>1. ASSUME NEW B, Grows(libQ', libQ, Task, B) PROVE libQ' \in Seq(Task)
    BY <2>1, <1>1, GrowsHeld
  <2>2. CASE Observe \/ RegisterQuery \/ Read \/ Unread
    BY <2>2, TaskTaken DEF Observe, RegisterQuery, Read, Unread
  <2>3. CASE FetchDrivers
    BY <2>1, <2>3, FetchSteps
  <2>4. CASE HandleValue
    BY <2>1, <2>4, ValueSteps
  <2>5. CASE HandleInitial \/ HandleEntered
    <3>1. PICK keys \in SUBSET Near : Report(keys)
      BY <2>5, BlockTaken DEF HandleInitial, HandleEntered
    <3>. QED
      BY <2>1, <3>1, ReportGrows
  <2>6. CASE HandleUser
    BY <2>1, <2>6, UserSteps
  <2>7. CASE libQ' = libQ \/ libQ' = <<>>
    <3>1. <<>> \in Seq(Task)
      OBVIOUS
    <3>. QED
      BY <2>7, <1>1, <3>1
  <2>8. \/ libQ' = libQ \/ libQ' = <<>> \/ Observe \/ RegisterQuery \/ Read \/ Unread \/ FetchDrivers
        \/ HandleValue \/ HandleInitial \/ HandleEntered \/ HandleUser
    BY DEF MapNext, Environment, Server, Library, Main, DriverLocated, DriverUploaded, ServerListen,
       DeliverLocations, DeliverUser, HandleAdded, Relaunch
  <2>. QED
    BY <2>2, <2>3, <2>4, <2>5, <2>6, <2>7, <2>8
<1>7. regs' \in 0 .. MaxCalls /\ calls' \in 0 .. MaxCalls /\ launches' \in 0 .. MaxLaunches
  <2>1. CASE Observe
    <3>1. PICK n : n = Count(libQ, {Call("observe", 0)})
      OBVIOUS
    <3>2. n \in Nat /\ n >= 1
      BY <2>1, <3>1, TaskTaken DEF Observe
    <3>3. regs + n <= calls
      BY <3>1 DEF RegsCounted
    <3>4. regs' = regs + 1 /\ calls' = calls /\ launches' = launches
      BY <2>1 DEF Observe
    <3>. QED
      BY <3>2, <3>3, <3>4, <1>2
  <2>2. CASE FetchDrivers
    BY <2>2, <1>2 DEF FetchDrivers, clientVars
  <2>3. CASE Relaunch
    BY <2>3, <1>2 DEF Relaunch
  <2>4. CASE UNCHANGED <<regs, calls, launches>>
    BY <2>4, <1>2
  <2>5. Observe \/ FetchDrivers \/ Relaunch \/ UNCHANGED <<regs, calls, launches>>
    BY DEF MapNext, Environment, Server, Library, Main, DriverLocated, DriverUploaded, ServerListen,
       RegisterQuery, Read, Unread, DeliverLocations, DeliverUser, HandleValue, HandleInitial,
       HandleAdded, HandleEntered, HandleUser, clientVars
  <2>. QED
    BY <2>1, <2>2, <2>3, <2>4, <2>5
<1>8. /\ loaded' \in BOOLEAN /\ cache' \subseteq located'
      /\ reads' \in [Drivers -> Nat] /\ waiting' \in [Drivers -> Nat]
      /\ seen' \in [Drivers -> {"unknown", "none", "profile"}]
  <2>1. CASE DeliverLocations
    <3>1. Head(inbox).at = Places /\ cache' = Head(inbox).keys /\ MessageRight(Head(inbox))
      BY <2>1, MessageTaken DEF DeliverLocations, Places
    <3>2. Head(inbox).keys \subseteq located
      BY <3>1, DriversAssumption, <1>1 DEF MessageRight, Places
    <3>. QED
      BY <2>1, <3>1, <3>2, <1>1 DEF DeliverLocations, serverVars
  <2>2. CASE DeliverUser
    <3>1. PICK d \in Drivers : d = Head(inbox).at
      BY <2>2 DEF DeliverUser
    <3>2. UNCHANGED <<loaded, cache, reads, located>>
      BY <2>2 DEF DeliverUser, serverVars
    <3>3. \/ UNCHANGED <<seen, waiting>>
          \/ /\ waiting' = [waiting EXCEPT ![d] = 0]
             /\ \E a \in {"none", "profile"} : seen' = [seen EXCEPT ![d] = a]
      BY <2>2, <3>1 DEF DeliverUser, Answered
    <3>4. waiting' \in [Drivers -> Nat]
      BY <3>3, <1>1
    <3>5. seen' \in [Drivers -> {"unknown", "none", "profile"}]
      BY <3>3, <1>1
    <3>6. loaded' \in BOOLEAN /\ cache' \subseteq located' /\ reads' \in [Drivers -> Nat]
      BY <3>2, <1>1
    <3>. QED
      BY <3>4, <3>5, <3>6
  <2>3. CASE Read
    <3>1. Head(libQ).of \in Drivers
      BY <2>3, <1>1, TaskTaken DEF Read
    <3>2. UNCHANGED <<loaded, cache, seen, located>>
      BY <2>3 DEF Read, serverVars
    <3>3. reads' \in [Drivers -> Nat] /\ waiting' \in [Drivers -> Nat]
      BY <2>3, <3>1, <1>1 DEF Read
    <3>. QED
      BY <3>2, <3>3, <1>1
  <2>4. CASE Unread
    <3>1. PICK d \in Drivers : d = Head(libQ).of /\ Head(libQ) = Call("unread", d)
      BY <2>4, <1>1, TaskTaken DEF Unread
    <3>2. UNCHANGED <<loaded, cache, waiting, located>>
      BY <2>4 DEF Unread, serverVars
    <3>3. PICK n : n = Count(libQ, {Call("unread", d)})
      OBVIOUS
    <3>4. PICK k \in Nat : k = Count(mainQ, Users(d))
      BY <1>1, HitsFinite
    <3>5. n \in Nat /\ n >= 1
      BY <2>4, <3>1, <3>3, TaskTaken DEF Unread
    <3>6. reads[d] = waiting[d] + k + n
      BY <3>3, <3>4 DEF ReadsCounted
    <3>7. reads[d] - 1 \in Nat
      BY <3>4, <3>5, <3>6, <1>1
    <3>8. reads' = [reads EXCEPT ![d] = reads[d] - 1]
      BY <2>4, <3>1, <1>1 DEF Unread
    <3>9. seen' \in [Drivers -> {"unknown", "none", "profile"}]
      BY <2>4, <3>1, <1>1 DEF Unread
    <3>. QED
      BY <3>2, <3>7, <3>8, <3>9, <1>1
  <2>5. CASE Relaunch
    BY <2>5, <1>1, <1>3 DEF Relaunch
  <2>6. CASE UNCHANGED <<loaded, cache, reads, waiting, seen>>
    BY <2>6, <1>1, <1>3
  <2>7. DeliverLocations \/ DeliverUser \/ Read \/ Unread \/ Relaunch
        \/ UNCHANGED <<loaded, cache, reads, waiting, seen>>
    BY DEF MapNext, Environment, Server, Library, Main, DriverLocated, DriverUploaded, ServerListen,
       Observe, RegisterQuery, FetchDrivers, HandleValue, HandleInitial, HandleAdded, HandleEntered,
       HandleUser, clientVars
  <2>. QED
    BY <2>1, <2>2, <2>3, <2>4, <2>5, <2>6, <2>7
\* The rider's process.
<1>9. mainQ' \in Seq(Block)
  <2>1. ASSUME NEW B, Grows(mainQ', mainQ, Block, B) PROVE mainQ' \in Seq(Block)
    BY <2>1, <1>1, GrowsHeld
  <2>2. ASSUME NEW t \in Seq(Block), NEW B, Grows(mainQ', t, Block, B) PROVE mainQ' \in Seq(Block)
    BY <2>2, GrowsHeld
  <2>3. CASE Observe \/ RegisterQuery \/ DeliverLocations
    BY <2>1, <2>3, ObserveGrows, RegisterGrows, LocationsGrow
  <2>4. CASE Read
    <3>1. seen[Head(libQ).of] \in {"unknown", "none", "profile"}
      BY <2>4, TaskTaken, <1>1 DEF Read
    <3>. QED
      BY <2>1, <2>4, <3>1, <1>1, ReadGrows
  <2>5. CASE DeliverUser
    <3>1. CASE reads[Head(inbox).at] = 0
      BY <2>5, <3>1, <1>1 DEF DeliverUser
    <3>2. CASE reads[Head(inbox).at] # 0
      BY <2>1, <2>5, <3>2, UsersGrow
    <3>. QED
      BY <3>1, <3>2
  <2>6. CASE HandleValue
    <3>1. PICK t \in Seq(Block) : t = Tail(mainQ)
      BY <2>6, BlockTaken DEF HandleValue
    <3>2. \E B : Grows(mainQ', t, Block, B)
      BY <2>6, <3>1, ValueSteps
    <3>. QED
      BY <2>2, <3>2
  <2>7. CASE HandleAdded
    <3>1. PICK t \in Seq(Block) : t = Tail(mainQ)
      BY <2>7, BlockTaken DEF HandleAdded
    <3>2. mainQ' = t \/ \E B : Grows(mainQ', t, Block, B)
      BY <2>7, <3>1, AddedSteps
    <3>. QED
      BY <2>2, <3>2
  <2>8. CASE HandleInitial \/ HandleEntered \/ HandleUser
    BY <2>8, BlockTaken DEF HandleInitial, HandleEntered, HandleUser
  <2>9. CASE mainQ' = mainQ \/ mainQ' = <<>>
    <3>1. <<>> \in Seq(Block)
      OBVIOUS
    <3>. QED
      BY <2>9, <1>1, <3>1
  <2>10. \/ mainQ' = mainQ \/ mainQ' = <<>> \/ Observe \/ RegisterQuery \/ Read \/ DeliverLocations
         \/ DeliverUser \/ HandleValue \/ HandleInitial \/ HandleEntered \/ HandleUser \/ HandleAdded
    BY DEF MapNext, Environment, Server, Library, Main, DriverLocated, DriverUploaded, ServerListen,
       Unread, FetchDrivers, Relaunch
  <2>. QED
    BY <2>3, <2>4, <2>5, <2>6, <2>7, <2>8, <2>9, <2>10
<1>10. queries' \in Seq(SUBSET located')
  <2>1. CASE HandleValue
    BY <2>1, ValueSteps DEF HandleValue, serverVars
  <2>2. CASE HandleAdded
    BY <2>2, AddedSteps DEF HandleAdded, serverVars
  <2>3. CASE queries' = <<>>
    BY <2>3
  <2>4. CASE queries' = queries
    <3>1. queries \in Seq(SUBSET located')
      <4>1. \A i \in 1 .. Len(queries) : queries[i] \in SUBSET located'
        BY <1>1, <1>3
      <4>2. queries = [i \in 1 .. Len(queries) |-> queries[i]] /\ Len(queries) \in Nat
        BY <1>1
      <4>. QED
        BY <4>1, <4>2
    <3>. QED
      BY <2>4, <3>1
  <2>5. HandleValue \/ HandleAdded \/ queries' = <<>> \/ queries' = queries
    BY DEF MapNext, Environment, Server, Library, Main, DriverLocated, DriverUploaded, ServerListen,
       Observe, RegisterQuery, Read, Unread, DeliverLocations, DeliverUser, FetchDrivers, HandleInitial,
       HandleEntered, HandleUser, Relaunch, queryVars
  <2>. QED
    BY <2>1, <2>2, <2>3, <2>4, <2>5
<1>11. annotations' \in Seq(Drivers)
  <2>1. CASE HandleUser
    <3>1. Head(mainQ).of \in Drivers
      BY <2>1, <1>1, BlockTaken DEF HandleUser
    <3>. QED
      BY <2>1, <3>1, <1>1 DEF HandleUser
  <2>2. CASE annotations' = annotations \/ annotations' = <<>>
    <3>1. <<>> \in Seq(Drivers)
      OBVIOUS
    <3>. QED
      BY <2>2, <1>1, <3>1
  <2>3. HandleUser \/ annotations' = annotations \/ annotations' = <<>>
    BY DEF MapNext, Environment, Server, Library, Main, DriverLocated, DriverUploaded, ServerListen,
       Observe, RegisterQuery, Read, Unread, DeliverLocations, DeliverUser, FetchDrivers, HandleInitial,
       HandleEntered, HandleValue, HandleAdded, Relaunch, queryVars
  <2>. QED
    BY <2>1, <2>2, <2>3
<1>12. entered' \in [Drivers -> Nat]
  <2>1. CASE HandleInitial \/ HandleEntered
    <3>1. PICK keys \in SUBSET Near : Report(keys)
      BY <2>1, BlockTaken DEF HandleInitial, HandleEntered
    <3>. QED
      BY <3>1, ReportGrows
  <2>2. CASE entered' = entered \/ Relaunch
    BY <2>2, <1>1 DEF Relaunch
  <2>3. HandleInitial \/ HandleEntered \/ entered' = entered \/ Relaunch
    BY DEF MapNext, Environment, Server, Library, Main, DriverLocated, DriverUploaded, ServerListen,
       Observe, RegisterQuery, Read, Unread, DeliverLocations, DeliverUser, FetchDrivers, HandleUser,
       HandleValue, HandleAdded, queryVars
  <2>. QED
    BY <2>1, <2>2, <2>3
<1>. QED
  BY <1>0, <1>3, <1>4, <1>5, <1>6, <1>7, <1>8, <1>9, <1>10, <1>11, <1>12 DEF MapTypeOK

\* What the client knows of users/<d> is true, was told to every read, and is
\* known or on its way as long as someone reads.
SeenRight ==
    \A d \in Drivers :
        /\ seen[d] = "profile" => d \in profiles
        /\ seen[d] # "unknown" => waiting[d] = 0 /\ reads[d] > 0
        /\ seen[d] = "unknown" /\ reads[d] > 0 => d \in asks \/ \E e \in Held(inbox) : e.at = d

\* Every step keeps what the client knows right.
LEMMA SeenStep ==
    ASSUME Typed, ReadsCounted, SeenRight, MapNext
    PROVE  SeenRight'
<1>. SUFFICES ASSUME NEW d \in Drivers
              PROVE  /\ seen'[d] = "profile" => d \in profiles'
                     /\ seen'[d] # "unknown" => waiting'[d] = 0 /\ reads'[d] > 0
                     /\ seen'[d] = "unknown" /\ reads'[d] > 0 =>
                            d \in asks' \/ \E e \in Held(inbox') : e.at = d
  BY DEF SeenRight
<1>1. /\ seen[d] = "profile" => d \in profiles
      /\ seen[d] # "unknown" => waiting[d] = 0 /\ reads[d] > 0
      /\ seen[d] = "unknown" /\ reads[d] > 0 => d \in asks \/ \E e \in Held(inbox) : e.at = d
  BY DEF SeenRight
<1>2. /\ reads \in [Drivers -> Nat] /\ waiting \in [Drivers -> Nat]
      /\ seen \in [Drivers -> {"unknown", "none", "profile"}] /\ inbox \in Seq(Message)
      /\ d # Places /\ located \subseteq Drivers
  BY Types, DriversAssumption DEF Places
<1>3. ASSUME UNCHANGED <<seen, waiting, reads, asks>>, Held(inbox) \subseteq Held(inbox'),
             profiles \subseteq profiles'
      PROVE  /\ seen'[d] = "profile" => d \in profiles'
             /\ seen'[d] # "unknown" => waiting'[d] = 0 /\ reads'[d] > 0
             /\ seen'[d] = "unknown" /\ reads'[d] > 0 =>
                    d \in asks' \/ \E e \in Held(inbox') : e.at = d
  BY <1>1, <1>3
<1>4. CASE Environment
  <2>1. UNCHANGED <<seen, waiting, reads, asks>> /\ profiles \subseteq profiles'
    BY <1>4 DEF Environment, DriverLocated, DriverUploaded, clientVars, linkVars, serverVars
  <2>2. CASE inbox' = inbox
    BY <1>3, <2>1, <2>2
  <2>3. ASSUME NEW m \in Message, inbox' = Append(inbox, m) PROVE Held(inbox) \subseteq Held(inbox')
    BY <2>3, MessageAdded
  <2>4. inbox' = inbox \/ \E m \in Message : inbox' = Append(inbox, m)
    <3>1. ASSUME NEW e \in Drivers, DriverLocated(e)
          PROVE  inbox' = inbox \/ inbox' = Append(inbox, [at |-> Places, keys |-> located'])
      BY <3>1 DEF DriverLocated, Push, Places
    <3>2. ASSUME NEW e \in Drivers, DriverLocated(e) PROVE [at |-> Places, keys |-> located'] \in Message
      BY <3>2, <1>2 DEF DriverLocated, Message, Path, Places
    <3>3. ASSUME NEW e \in Drivers, DriverUploaded(e)
          PROVE  inbox' = inbox \/ inbox' = Append(inbox, Found(e))
      BY <3>3 DEF DriverUploaded, Push, Found
    <3>. QED
      BY <1>4, <3>1, <3>2, <3>3, EntryTypes DEF Environment, linkVars
  <2>. QED
    BY <1>3, <2>1, <2>2, <2>3, <2>4
<1>5. CASE Server
  <2>1. PICK path \in Path : ServerListen(path)
    BY <1>5 DEF Server
  <2>2. PICK m : m = [at |-> path, keys |-> Data(path)]
    OBVIOUS
  <2>3. m \in Message /\ m.at = path
    BY <2>2, <1>2, Types DEF Data, Message
  <2>4. inbox' = Append(inbox, m) /\ asks' = asks \ {path} /\ UNCHANGED <<seen, waiting, reads, profiles>>
    BY <2>1, <2>2 DEF ServerListen, clientVars, serverVars
  <2>5. Held(inbox') = Held(inbox) \cup {m}
    BY <2>3, <2>4, MessageAdded
  <2>. QED
    BY <1>1, <2>3, <2>4, <2>5
<1>6. CASE Read
  <2>1. PICK e \in Drivers : e = Head(libQ).of
    BY <1>6, TaskTaken, Types DEF Read
  <2>2. UNCHANGED <<seen, inbox, profiles>> /\ reads' = [reads EXCEPT ![e] = @ + 1]
    BY <1>6, <2>1 DEF Read, serverVars
  <2>3. CASE seen[e] # "unknown"
    <3>1. UNCHANGED <<waiting, asks>>
      BY <1>6, <2>1, <2>3 DEF Read
    <3>. QED
      BY <1>1, <1>2, <2>2, <2>3, <3>1
  <2>4. CASE seen[e] = "unknown"
    <3>1. /\ waiting' = [waiting EXCEPT ![e] = @ + 1]
          /\ asks' = IF reads[e] = 0 THEN asks \cup {e} ELSE asks
      BY <1>6, <2>1, <2>4 DEF Read
    <3>2. CASE e = d
      BY <1>1, <1>2, <2>2, <2>4, <3>1, <3>2
    <3>3. CASE e # d
      BY <1>1, <1>2, <2>2, <3>1, <3>3
    <3>. QED
      BY <3>2, <3>3
  <2>. QED
    BY <2>3, <2>4
<1>7. CASE Unread
  <2>1. PICK e \in Drivers : e = Head(libQ).of
    BY <1>7, TaskTaken, Types DEF Unread
  <2>2. /\ UNCHANGED <<inbox, profiles, waiting, asks>> /\ reads' = [reads EXCEPT ![e] = @ - 1]
        /\ seen' = IF reads[e] = 1 THEN [seen EXCEPT ![e] = "unknown"] ELSE seen
    BY <1>7, <2>1 DEF Unread, serverVars
  <2>3. CASE e = d
    <3>1. CASE reads[d] = 1
      BY <1>1, <1>2, <2>2, <2>3, <3>1
    <3>2. CASE reads[d] # 1
      BY <1>1, <1>2, <2>2, <2>3, <3>2
    <3>. QED
      BY <3>1, <3>2
  <2>4. CASE e # d
    BY <1>1, <1>2, <2>2, <2>4
  <2>. QED
    BY <2>3, <2>4
<1>8. CASE DeliverLocations
  <2>1. UNCHANGED <<seen, waiting, reads, asks, profiles>>
    BY <1>8 DEF DeliverLocations, serverVars
  <2>2. Head(inbox).at # d /\ Held(inbox) = {Head(inbox)} \cup Held(inbox')
    BY <1>8, <1>2, MessageTaken DEF DeliverLocations, Places
  <2>. QED
    BY <1>1, <2>1, <2>2
<1>9. CASE DeliverUser
  <2>1. PICK e \in Drivers : e = Head(inbox).at
    BY <1>9 DEF DeliverUser
  <2>2. UNCHANGED <<reads, asks, profiles>> /\ Held(inbox) = {Head(inbox)} \cup Held(inbox')
        /\ MessageRight(Head(inbox))
    BY <1>9, MessageTaken DEF DeliverUser, serverVars
  <2>3. CASE reads[e] = 0
    <3>1. UNCHANGED <<seen, waiting>>
      BY <1>9, <2>1, <2>3 DEF DeliverUser
    <3>. QED
      BY <1>1, <2>1, <2>2, <2>3, <3>1
  <2>4. CASE reads[e] # 0
    <3>1. /\ waiting' = [waiting EXCEPT ![e] = 0]
          /\ seen' = [seen EXCEPT ![e] = IF e \in Head(inbox).keys THEN "profile" ELSE "none"]
      BY <1>9, <2>1, <2>4 DEF DeliverUser, Answered
    <3>2. CASE e = d
      <4>1. d \in Head(inbox).keys => d \in profiles
        BY <2>1, <2>2, <3>2, <1>2 DEF MessageRight, None, Places
      <4>. QED
        BY <1>2, <2>2, <2>4, <3>1, <3>2, <4>1
    <3>3. CASE e # d
      BY <1>1, <1>2, <2>1, <2>2, <3>1, <3>3
    <3>. QED
      BY <3>2, <3>3
  <2>. QED
    BY <2>3, <2>4
<1>10. CASE Relaunch
  BY <1>10 DEF Relaunch
<1>11. CASE Observe
  <2>1. UNCHANGED <<seen, waiting, reads, inbox, profiles>> /\ asks \subseteq asks'
    BY <1>11 DEF Observe, serverVars
  <2>. QED
    BY <1>1, <2>1
<1>12. CASE RegisterQuery \/ Main \/ FetchDrivers
  <2>1. UNCHANGED <<seen, waiting, reads, asks, inbox, profiles>>
    BY <1>12 DEF Main, RegisterQuery, FetchDrivers, HandleValue, HandleInitial, HandleAdded, HandleEntered,
         HandleUser, clientVars, linkVars, serverVars
  <2>. QED
    BY <1>3, <2>1
<1>. QED
  BY <1>4, <1>5, <1>6, <1>7, <1>8, <1>9, <1>10, <1>11, <1>12 DEF MapNext, Library

\* The block with the keys that a query knew when it was made runs before all
\* of its child events.
InOrder(s) ==
    \A i, j \in 1 .. Len(s) :
        s[i].kind = "added" /\ s[j].kind = "initial" /\ s[i].q = s[j].q => j < i

\* A query is registered once, and before that, and before its first block has
\* run, it has no keys.
QueriesFresh ==
    /\ InOrder(mainQ)
    /\ \A q \in DOMAIN queries :
        /\ Count(libQ, {Call("query", q)}) <= 1
        /\ Call("query", q) \in Held(libQ) =>
               queries[q] = {} /\ \A d \in Drivers : Added(q, d) \notin Held(mainQ)
        /\ Initial(q) \in Held(mainQ) => queries[q] = {}

\* The order stays when a block runs.
LEMMA OrderTail ==
    ASSUME NEW s \in Seq(Block), s # <<>>, InOrder(s)
    PROVE  InOrder(Tail(s))
<1>. SUFFICES ASSUME NEW i \in 1 .. Len(Tail(s)), NEW j \in 1 .. Len(Tail(s)),
                     Tail(s)[i].kind = "added", Tail(s)[j].kind = "initial", Tail(s)[i].q = Tail(s)[j].q
              PROVE  j < i
  BY DEF InOrder
<1>1. /\ i + 1 \in 1 .. Len(s) /\ Tail(s)[i] = s[i + 1]
      /\ j + 1 \in 1 .. Len(s) /\ Tail(s)[j] = s[j + 1]
  BY HeadTail
<1>2. j + 1 < i + 1
  BY <1>1 DEF InOrder
<1>3. i \in Int /\ j \in Int
  OBVIOUS
<1>. QED
  BY <1>2, <1>3

\* The order stays when blocks come, none of them a query's first one behind its
\* child events.
LEMMA OrderGrows ==
    ASSUME NEW base \in Seq(Block), InOrder(base), NEW s, NEW B, Grows(s, base, Block, B),
           \A e \in B : e.kind = "initial" =>
               \A x \in Held(base) \cup B : ~(x.kind = "added" /\ x.q = e.q)
    PROVE  InOrder(s)
<1>1. PICK new \in Seq(Block) : s = base \o new /\ Held(new) \subseteq B
  BY DEF Grows
<1>2. Held(s) = Held(base) \cup Held(new) /\ s \in Seq(Block)
  BY <1>1, Concat, HeldConcat
<1>3. /\ Len(base) \in Nat /\ Len(new) \in Nat
      /\ \A i \in 1 .. Len(base) : s[i] = base[i]
      /\ \A i \in 1 .. Len(new) : s[Len(base) + i] = new[i]
      /\ \A i \in 1 .. Len(s) : i \in 1 .. Len(base) \/ (\E k \in 1 .. Len(new) : i = Len(base) + k)
  <2>1. s = base \o new
    BY <1>1
  <2>2. \A i \in 1 .. Len(base) : s[i] = base[i]
    BY <2>1, ConcatIs
  <2>3. \A i \in 1 .. Len(new) : s[Len(base) + i] = new[i]
    BY <2>1, ConcatIs
  <2>4. \A i \in 1 .. Len(s) : i \in 1 .. Len(base) \/ (\E k \in 1 .. Len(new) : i = Len(base) + k)
    BY <2>1, ConcatIs
  <2>5. Len(base) \in Nat /\ Len(new) \in Nat
    OBVIOUS
  <2>. QED
    BY <2>2, <2>3, <2>4, <2>5
<1>. SUFFICES ASSUME NEW i \in 1 .. Len(s), NEW j \in 1 .. Len(s),
                     s[i].kind = "added", s[j].kind = "initial", s[i].q = s[j].q
              PROVE  j < i
  BY DEF InOrder
<1>4. CASE j \in 1 .. Len(base)
  <2>1. CASE i \in 1 .. Len(base)
    BY <1>3, <1>4, <2>1 DEF InOrder
  <2>2. CASE \E k \in 1 .. Len(new) : i = Len(base) + k
    BY <1>3, <1>4, <2>2
  <2>. QED
    BY <2>1, <2>2, <1>3
<1>5. CASE \E k \in 1 .. Len(new) : j = Len(base) + k
  <2>1. s[j] \in B
    BY <1>1, <1>3, <1>5 DEF Held
  <2>2. s[i] \in Held(base) \cup B
    <3>1. s[i] \in Held(s)
      BY DEF Held
    <3>. QED
      BY <3>1, <1>1, <1>2
  <2>. QED
    BY <2>1, <2>2
<1>. QED
  BY <1>3, <1>4, <1>5

\* Every step keeps the order of the blocks.
LEMMA OrderStep ==
    ASSUME Typed, QueriesFresh, MapNext
    PROVE  InOrder(mainQ')
<1>1. mainQ \in Seq(Block) /\ InOrder(mainQ)
  BY Types DEF QueriesFresh
<1>2. ASSUME NEW B, Grows(mainQ', mainQ, Block, B), \A e \in B : e.kind # "initial"
      PROVE  InOrder(mainQ')
  BY <1>1, <1>2, OrderGrows
<1>3. ASSUME NEW kind, RunBlock(kind)
      PROVE  Tail(mainQ) \in Seq(Block) /\ InOrder(Tail(mainQ)) /\ Held(Tail(mainQ)) \subseteq Held(mainQ)
  BY <1>1, <1>3, BlockTaken, OrderTail DEF RunBlock
<1>4. CASE Observe
  <2>1. \A e \in {Value} : e.kind # "initial"
    BY DEF Value
  <2>. QED
    BY <1>2, <1>4, <2>1, ObserveGrows
<1>5. CASE RegisterQuery
  <2>1. \A e \in {Added(Head(libQ).of, d) : d \in cache} : e.kind # "initial"
    BY DEF Added
  <2>. QED
    BY <1>2, <1>5, <2>1, RegisterGrows
<1>6. CASE DeliverLocations
  <2>1. \A e \in {Value} \cup {Added(q, d) : q \in Registered, d \in cache' \ cache} : e.kind # "initial"
    BY DEF Added, Value
  <2>. QED
    BY <1>2, <1>6, <2>1, LocationsGrow
<1>7. CASE mainQ' = mainQ
  BY <1>1, <1>7
<1>8. ASSUME NEW d, NEW B, B \subseteq Users(d), Grows(mainQ', mainQ, Block, B) PROVE InOrder(mainQ')
  <2>1. \A e \in B : e.kind # "initial"
    BY <1>8 DEF Users, User
  <2>. QED
    BY <1>2, <1>8, <2>1
<1>9. CASE Read
  <2>1. PICK d : d = Head(libQ).of
    OBVIOUS
  <2>2. d \in Drivers /\ seen[d] \in {"unknown", "none", "profile"}
    BY <1>9, <2>1, TaskTaken, Types DEF Read
  <2>3. mainQ' = mainQ \/ \E B : B \subseteq Users(d) /\ Grows(mainQ', mainQ, Block, B)
    BY <1>9, <2>1, <2>2, ReadGrows DEF Users
  <2>. QED
    BY <1>7, <1>8, <2>3
<1>10. CASE DeliverUser
  <2>1. PICK d : d = Head(inbox).at
    OBVIOUS
  <2>2. CASE reads[d] = 0
    BY <1>7, <1>10, <2>1, <2>2 DEF DeliverUser
  <2>3. CASE reads[d] # 0
    <3>1. \E B : B \subseteq Users(d) /\ Grows(mainQ', mainQ, Block, B)
      BY <1>10, <2>1, <2>3, UsersGrow DEF Users
    <3>. QED
      BY <1>8, <3>1
  <2>. QED
    BY <2>2, <2>3
<1>11. CASE HandleValue
  <2>1. PICK q : q = Len(queries) + 1
    OBVIOUS
  <2>2. PICK t : t = Tail(mainQ)
    OBVIOUS
  <2>3. t \in Seq(Block) /\ InOrder(t) /\ Held(t) \subseteq Held(mainQ)
    BY <1>3, <1>11, <2>2 DEF HandleValue
  <2>4. q \notin DOMAIN queries /\ Grows(mainQ', t, Block, {Initial(q)})
    BY <1>11, <2>1, <2>2, ValueSteps
  <2>5. ASSUME NEW x \in Held(t) \cup {Initial(q)}, x.kind = "added" PROVE x.q # q
    <3>1. x \in Held(t) /\ BlockRight(x)
      BY <2>3, <2>5 DEF Typed, QueuesRight, Initial
    <3>2. x.q \in DOMAIN queries
      BY <3>1, <2>5 DEF BlockRight, Value, Initial, Added, Entered, User
    <3>. QED
      BY <3>2, <2>4
  <2>6. \A e \in {Initial(q)} : e.q = q
    BY DEF Initial
  <2>. QED
    BY <2>3, <2>4, <2>5, <2>6, OrderGrows
<1>12. CASE HandleInitial \/ HandleEntered \/ HandleUser
  BY <1>3, <1>12 DEF HandleInitial, HandleEntered, HandleUser
<1>13. CASE HandleAdded
  <2>1. PICK t : t = Tail(mainQ)
    OBVIOUS
  <2>2. t \in Seq(Block) /\ InOrder(t)
    BY <1>3, <1>13, <2>1 DEF HandleAdded
  <2>3. PICK d : d = Head(mainQ).of
    OBVIOUS
  <2>4. mainQ' = t \/ Grows(mainQ', t, Block, {Entered(d)})
    BY <1>13, <2>1, <2>3, AddedSteps
  <2>5. \A e \in {Entered(d)} : e.kind # "initial"
    BY DEF Entered
  <2>. QED
    BY <2>2, <2>4, <2>5, OrderGrows
<1>14. CASE mainQ' = <<>>
  BY <1>14 DEF InOrder
<1>15. \/ mainQ' = mainQ \/ mainQ' = <<>> \/ Observe \/ RegisterQuery \/ Read \/ DeliverLocations
       \/ DeliverUser \/ HandleValue \/ HandleInitial \/ HandleEntered \/ HandleUser \/ HandleAdded
  BY DEF MapNext, Environment, Server, Library, Main, DriverLocated, DriverUploaded, ServerListen,
     Unread, FetchDrivers, Relaunch
<1>. QED
  BY <1>4, <1>5, <1>6, <1>7, <1>9, <1>10, <1>11, <1>12, <1>13, <1>14, <1>15

\* Every step keeps queries without keys before they are registered.
LEMMA FreshStep ==
    ASSUME Typed, QueriesFresh, MapNext
    PROVE  QueriesFresh'
<1>1. /\ mainQ \in Seq(Block) /\ libQ \in Seq(Task) /\ located \subseteq Drivers
      /\ DOMAIN queries = 1 .. Len(queries)
  BY Types
<1>2. InOrder(mainQ')
  BY OrderStep
<1>. SUFFICES ASSUME NEW q \in DOMAIN queries'
              PROVE  /\ Count(libQ', {Call("query", q)}) <= 1
                     /\ Call("query", q) \in Held(libQ') =>
                          queries'[q] = {} /\ \A d \in Drivers : Added(q, d) \notin Held(mainQ')
                     /\ Initial(q) \in Held(mainQ') => queries'[q] = {}
  BY <1>2 DEF QueriesFresh, Added, Initial, Call
<1>. DEFINE n == Count(libQ, {Call("query", q)})
<1>3. n \in Nat
  BY <1>1, HitsFinite
<1>4. q \in DOMAIN queries =>
         /\ n <= 1
         /\ Call("query", q) \in Held(libQ) =>
                queries[q] = {} /\ \A d \in Drivers : Added(q, d) \notin Held(mainQ)
         /\ Initial(q) \in Held(mainQ) => queries[q] = {}
  BY DEF QueriesFresh
<1>. HIDE DEF n
\* The main queue gets no child event of this query, the client no call.
<1>5. ASSUME queries' = queries,
             libQ' = libQ \/ (\E B : Grows(libQ', libQ, Task, B) /\ Call("query", q) \notin B),
             \A d \in Drivers : Added(q, d) \in Held(mainQ') => Added(q, d) \in Held(mainQ),
             Initial(q) \in Held(mainQ') => Initial(q) \in Held(mainQ)
      PROVE  /\ Count(libQ', {Call("query", q)}) <= 1
             /\ Call("query", q) \in Held(libQ') =>
                  queries'[q] = {} /\ \A d \in Drivers : Added(q, d) \notin Held(mainQ')
             /\ Initial(q) \in Held(mainQ') => queries'[q] = {}
  <2>1. Count(libQ', {Call("query", q)}) = n /\ (Call("query", q) \in Held(libQ') => Call("query", q) \in Held(libQ))
    <3>1. CASE libQ' = libQ
      BY <3>1 DEF n
    <3>2. ASSUME NEW B, Grows(libQ', libQ, Task, B), Call("query", q) \notin B
          PROVE  /\ Count(libQ', {Call("query", q)}) = n
                 /\ Call("query", q) \in Held(libQ') => Call("query", q) \in Held(libQ)
      <4>1. {Call("query", q)} \cap B = {}
        BY <3>2
      <4>. QED
        BY <1>1, <3>2, <4>1, GrowsHeld DEF n
    <3>. QED
      BY <3>1, <3>2, <1>5
  <2>. QED
    BY <1>4, <1>5, <2>1
\* The client runs a call.
<1>6. ASSUME NEW op, NextTask(op)
      PROVE  /\ Count(libQ', {Call("query", q)}) \in Nat /\ Count(libQ', {Call("query", q)}) <= n
             /\ Call("query", q) \in Held(libQ') => Call("query", q) \in Held(libQ)
  BY <1>6, TaskTaken DEF n
<1>7. ASSUME queries' = queries, NEW op, NextTask(op),
             \A d \in Drivers : Added(q, d) \in Held(mainQ') => Added(q, d) \in Held(mainQ),
             Initial(q) \in Held(mainQ') => Initial(q) \in Held(mainQ)
      PROVE  /\ Count(libQ', {Call("query", q)}) <= 1
             /\ Call("query", q) \in Held(libQ') =>
                  queries'[q] = {} /\ \A d \in Drivers : Added(q, d) \notin Held(mainQ')
             /\ Initial(q) \in Held(mainQ') => queries'[q] = {}
  <2>1. /\ Count(libQ', {Call("query", q)}) \in Nat /\ Count(libQ', {Call("query", q)}) <= n
        /\ Call("query", q) \in Held(libQ') => Call("query", q) \in Held(libQ)
    BY <1>6, <1>7
  <2>. QED
    BY <1>3, <1>4, <1>7, <2>1
<1>8. ASSUME NEW B, Grows(mainQ', mainQ, Block, B),
             \A d \in Drivers : Added(q, d) \notin B, Initial(q) \notin B
      PROVE  /\ \A d \in Drivers : Added(q, d) \in Held(mainQ') => Added(q, d) \in Held(mainQ)
             /\ Initial(q) \in Held(mainQ') => Initial(q) \in Held(mainQ)
  <2>1. Held(mainQ') \subseteq Held(mainQ) \cup B
    BY <1>1, <1>8, GrowsHeld
  <2>. QED
    BY <1>8, <2>1
<1>9. ASSUME NEW e, NEW B, B \subseteq Users(e) \cup {Value}
      PROVE  (\A d \in Drivers : Added(q, d) \notin B) /\ Initial(q) \notin B
  BY <1>9 DEF Users, User, Added, Initial, Value
<1>10. CASE Observe
  <2>1. queries' = queries /\ NextTask("observe")
    BY <1>10 DEF Observe, queryVars
  <2>2. (\A d \in Drivers : Added(q, d) \notin {Value}) /\ Initial(q) \notin {Value}
    BY DEF Added, Initial, Value
  <2>. QED
    BY <1>7, <1>8, <1>10, <2>1, <2>2, ObserveGrows
<1>11. CASE Read
  <2>1. queries' = queries /\ NextTask("read")
    BY <1>11 DEF Read, queryVars
  <2>2. PICK e : e = Head(libQ).of
    OBVIOUS
  <2>3. e \in Drivers /\ seen[e] \in {"unknown", "none", "profile"}
    BY <1>11, <2>2, TaskTaken, Types DEF Read
  <2>4. mainQ' = mainQ \/ \E B : B \subseteq Users(e) \cup {Value} /\ Grows(mainQ', mainQ, Block, B)
    BY <1>11, <2>2, <2>3, ReadGrows DEF Users
  <2>5. /\ \A d \in Drivers : Added(q, d) \in Held(mainQ') => Added(q, d) \in Held(mainQ)
        /\ Initial(q) \in Held(mainQ') => Initial(q) \in Held(mainQ)
    BY <1>8, <1>9, <2>4
  <2>. QED
    BY <1>7, <2>1, <2>5
<1>12. CASE Unread
  <2>1. queries' = queries /\ NextTask("unread") /\ mainQ' = mainQ
    BY <1>12 DEF Unread, queryVars
  <2>. QED
    BY <1>7, <2>1
<1>13. CASE RegisterQuery
  <2>1. queries' = queries /\ NextTask("query")
    BY <1>13 DEF RegisterQuery, queryVars
  <2>2. PICK r : r = Head(libQ).of
    OBVIOUS
  <2>3. Head(libQ) = Call("query", r)
    BY <2>1, <2>2, TaskTaken
  <2>4. Grows(mainQ', mainQ, Block, {Added(r, d) : d \in cache})
    BY <1>13, <2>2, RegisterGrows
  <2>5. CASE r = q
    <3>1. PICK k : k = Count(libQ', {Call("query", q)})
      OBVIOUS
    <3>2. k \in Nat /\ n = k + 1
      BY <2>1, <2>3, <2>5, <3>1, TaskTaken DEF n
    <3>3. k = 0
      BY <3>2, <1>4, <2>1
    <3>4. libQ' \in Seq(Task)
      BY <2>1, TaskTaken
    <3>5. Call("query", q) \notin Held(libQ')
      BY <3>1, <3>3, <3>4, CountNone
    <3>6. Initial(q) \in Held(mainQ') => Initial(q) \in Held(mainQ)
      <4>1. Held(mainQ') \subseteq Held(mainQ) \cup {Added(r, d) : d \in cache}
        BY <1>1, <2>4, GrowsHeld
      <4>2. Initial(q) \notin {Added(r, d) : d \in cache}
        BY DEF Initial, Added
      <4>. QED
        BY <4>1, <4>2
    <3>. QED
      BY <3>1, <3>3, <3>5, <3>6, <1>4, <2>1
  <2>6. CASE r # q
    <3>1. (\A d \in Drivers : Added(q, d) \notin {Added(r, e) : e \in cache})
          /\ Initial(q) \notin {Added(r, d) : d \in cache}
      BY <2>6 DEF Initial, Added
    <3>. QED
      BY <1>7, <1>8, <2>1, <2>4, <3>1
  <2>. QED
    BY <2>5, <2>6
<1>14. CASE DeliverLocations
  <2>1. queries' = queries /\ libQ' = libQ
    BY <1>14 DEF DeliverLocations, queryVars
  <2>. DEFINE B == {Value} \cup {Added(r, d) : r \in Registered, d \in cache' \ cache}
  <2>3. Grows(mainQ', mainQ, Block, B)
    BY <1>14, LocationsGrow
  <2>2. ASSUME NEW e \in B, e # Value
        PROVE  \E r \in Registered, d \in cache' \ cache : e = Added(r, d)
    BY <2>2
  <2>4. Held(mainQ') \subseteq Held(mainQ) \cup B
    BY <1>1, <2>3, GrowsHeld
  <2>. HIDE DEF B
  <2>5. Initial(q) \notin B
    BY <2>2 DEF Initial, Added, Value
  <2>6. Call("query", q) \in Held(libQ) => \A d \in Drivers : Added(q, d) \notin B
    <3>1. Call("query", q) \in Held(libQ) => q \notin Registered
      BY <1>1 DEF Registered, Held
    <3>2. \A d \in Drivers : Added(q, d) \in B => q \in Registered
      BY <2>2 DEF Added, Value
    <3>. QED
      BY <3>1, <3>2
  <2>7. Count(libQ', {Call("query", q)}) = n
    BY <2>1 DEF n
  <2>. QED
    BY <1>4, <2>1, <2>4, <2>5, <2>6, <2>7
<1>15. CASE DeliverUser
  <2>1. queries' = queries /\ libQ' = libQ
    BY <1>15 DEF DeliverUser, queryVars
  <2>2. PICK e : e = Head(inbox).at
    OBVIOUS
  <2>3. mainQ' = mainQ \/ \E B : B \subseteq Users(e) \cup {Value} /\ Grows(mainQ', mainQ, Block, B)
    <3>1. CASE reads[e] = 0
      BY <1>15, <2>2, <3>1 DEF DeliverUser
    <3>2. CASE reads[e] # 0
      BY <1>15, <2>2, <3>2, UsersGrow DEF Users
    <3>. QED
      BY <3>1, <3>2
  <2>4. /\ \A d \in Drivers : Added(q, d) \in Held(mainQ') => Added(q, d) \in Held(mainQ)
        /\ Initial(q) \in Held(mainQ') => Initial(q) \in Held(mainQ)
    BY <1>8, <1>9, <2>3
  <2>. QED
    BY <1>5, <2>1, <2>4
<1>16. CASE FetchDrivers
  <2>1. queries' = queries /\ mainQ' = mainQ
    BY <1>16 DEF FetchDrivers, queryVars
  <2>2. Call("query", q) \notin {Call("observe", 0)}
    BY DEF Call
  <2>. QED
    BY <1>5, <1>16, <2>1, <2>2, FetchSteps
<1>17. CASE HandleInitial \/ HandleEntered
  <2>1. queries' = queries /\ Held(mainQ') \subseteq Held(mainQ)
    BY <1>17, BlockTaken DEF HandleInitial, HandleEntered
  <2>2. PICK keys \in SUBSET Near : Report(keys)
    BY <1>17, BlockTaken DEF HandleInitial, HandleEntered
  <2>3. Call("query", q) \notin {Call("read", d) : d \in keys}
    BY DEF Call
  <2>. QED
    BY <1>5, <2>1, <2>2, <2>3, ReportGrows
<1>18. CASE HandleUser
  <2>1. queries' = queries /\ Held(mainQ') \subseteq Held(mainQ)
    BY <1>18, BlockTaken DEF HandleUser
  <2>2. Call("query", q) \notin {Call("unread", Head(mainQ).of)}
    BY DEF Call
  <2>3. Grows(libQ', libQ, Task, {Call("unread", Head(mainQ).of)})
    BY <1>18, UserSteps
  <2>. QED
    BY <1>5, <2>1, <2>2, <2>3
<1>19. CASE HandleValue
  <2>1. PICK r : r = Len(queries) + 1
    OBVIOUS
  <2>2. PICK t : t = Tail(mainQ)
    OBVIOUS
  <2>3. t \in Seq(Block) /\ Held(t) \subseteq Held(mainQ)
    BY <1>19, <2>2, BlockTaken DEF HandleValue
  <2>4. /\ r \notin DOMAIN queries /\ DOMAIN queries' = DOMAIN queries \cup {r}
        /\ queries'[r] = {} /\ \A i \in DOMAIN queries : queries'[i] = queries[i]
        /\ Grows(mainQ', t, Block, {Initial(r)}) /\ Grows(libQ', libQ, Task, {Call("query", r)})
        /\ \A S : Count(libQ', S) = Count(libQ, S) + (IF Call("query", r) \in S THEN 1 ELSE 0)
    BY <1>19, <2>1, <2>2, ValueSteps
  <2>5. Held(mainQ') \subseteq Held(mainQ) \cup {Initial(r)}
    BY <2>3, <2>4, GrowsHeld
  <2>6. Held(libQ') \subseteq Held(libQ) \cup {Call("query", r)}
    BY <1>1, <2>4, GrowsHeld
  <2>7. \A d \in Drivers : Added(q, d) # Initial(r)
    BY DEF Added, Initial
  <2>8. CASE q = r
    <3>1. Call("query", q) \notin Held(libQ)
      BY <2>4, <2>8 DEF Typed, QueuesRight, TaskRight, Call
    <3>2. Held(libQ) \cap {Call("query", q)} = {}
      BY <3>1
    <3>3. n = 0
      BY <3>2, <1>1, CountNone DEF n
    <3>4. Count(libQ', {Call("query", q)}) = 1
      BY <2>4, <2>8, <3>3 DEF n
    <3>5. \A d \in Drivers : Added(q, d) \notin Held(mainQ)
      <4>1. SUFFICES ASSUME NEW d \in Drivers, BlockRight(Added(q, d)) PROVE FALSE
        BY DEF Typed, QueuesRight
      <4>. QED
        BY <4>1, <2>4, <2>8 DEF BlockRight, Added, Value, Initial, Entered, User
    <3>. QED
      BY <2>4, <2>5, <2>7, <2>8, <3>4, <3>5
  <2>9. CASE q # r
    <3>1. Call("query", q) # Call("query", r) /\ Initial(q) # Initial(r)
      BY <2>9 DEF Call, Initial
    <3>2. Count(libQ', {Call("query", q)}) = n
      BY <2>4, <3>1, <1>3 DEF n
    <3>. QED
      BY <1>4, <2>4, <2>5, <2>6, <2>7, <2>9, <3>1, <3>2
  <2>. QED
    BY <2>8, <2>9
<1>20. CASE HandleAdded
  <2>1. PICK r : r = Head(mainQ).q
    OBVIOUS
  <2>2. PICK d : d = Head(mainQ).of
    OBVIOUS
  <2>3. /\ Head(mainQ) = Added(r, d) /\ DOMAIN queries' = DOMAIN queries
        /\ \A i \in DOMAIN queries : i # r => queries'[i] = queries[i]
        /\ d \in located
    BY <1>20, <2>1, <2>2, AddedSteps
  <2>4. libQ' = libQ /\ RunBlock("added")
    BY <1>20 DEF HandleAdded
  <2>5. PICK t : t = Tail(mainQ)
    OBVIOUS
  <2>6. t \in Seq(Block) /\ Held(t) \subseteq Held(mainQ)
    BY <2>4, <2>5, BlockTaken
  <2>7. mainQ' = t \/ Grows(mainQ', t, Block, {Entered(d)})
    BY <1>20, <2>1, <2>2, <2>5, AddedSteps
  <2>8. Held(mainQ') \subseteq Held(mainQ) \cup {Entered(d)}
    BY <2>6, <2>7, GrowsHeld
  <2>9. /\ \A e \in Drivers : Added(q, e) \in Held(mainQ') => Added(q, e) \in Held(mainQ)
        /\ Initial(q) \in Held(mainQ') => Initial(q) \in Held(mainQ)
    BY <2>8 DEF Added, Initial, Entered
  <2>10. Count(libQ', {Call("query", q)}) = n
    BY <2>4 DEF n
  <2>11. CASE q # r
    BY <1>4, <2>3, <2>4, <2>9, <2>10, <2>11
  <2>12. CASE q = r
    <3>1. Added(q, d) \in Held(mainQ) /\ d \in Drivers
      BY <1>1, <2>3, <2>4, <2>12, BlockTaken
    <3>2. Call("query", q) \notin Held(libQ')
      BY <3>1, <1>4, <2>3, <2>4
    <3>3. Initial(q) \notin Held(mainQ)
      <4>. SUFFICES ASSUME Initial(q) \in Held(mainQ) PROVE FALSE
        OBVIOUS
      <4>1. PICK j \in 1 .. Len(mainQ) : mainQ[j] = Initial(q)
        BY DEF Held
      <4>2. 1 \in 1 .. Len(mainQ) /\ mainQ[1] = Added(q, d)
        BY <1>1, <2>3, <2>4, <2>12, HeadTail DEF RunBlock
      <4>3. j < 1
        BY <4>1, <4>2 DEF QueriesFresh, InOrder, Added, Initial
      <4>. QED
        BY <4>1, <4>3
    <3>. QED
      BY <1>4, <2>3, <2>9, <2>10, <3>2, <3>3
  <2>. QED
    BY <2>11, <2>12
<1>21. CASE Relaunch
  BY <1>21 DEF Relaunch
<1>22. CASE Environment \/ Server
  <2>1. queries' = queries /\ mainQ' = mainQ /\ libQ' = libQ
    BY <1>22 DEF Environment, Server, DriverLocated, DriverUploaded, ServerListen, queryVars
  <2>. QED
    BY <1>5, <2>1
<1>. QED
  BY <1>10, <1>11, <1>12, <1>13, <1>14, <1>15, <1>16, <1>17, <1>18, <1>19, <1>20, <1>21, <1>22
     DEF MapNext, Library, Main

\* The queries that have reported a driver or are about to.
Reporters(d) == {q \in DOMAIN queries : d \in queries[q]}
Reported ==
    \A d \in Drivers : entered[d] + Count(mainQ, {Entered(d)}) <= Cardinality(Reporters(d))

\* There are no more reporters than queries.
LEMMA ReportersFinite ==
    ASSUME NEW T, NEW s \in Seq(T), NEW d
    PROVE  /\ IsFiniteSet({q \in DOMAIN s : d \in s[q]})
           /\ Cardinality({q \in DOMAIN s : d \in s[q]}) \in Nat
           /\ Cardinality({q \in DOMAIN s : d \in s[q]}) <= Len(s)
<1>. DEFINE R == {q \in DOMAIN s : d \in s[q]}
<1>1. Len(s) \in Nat /\ R \in SUBSET (1 .. Len(s))
  OBVIOUS
<1>2. IsFiniteSet(1 .. Len(s)) /\ Cardinality(1 .. Len(s)) = Len(s)
  BY <1>1, FS_Interval
<1>. HIDE DEF R
<1>3. IsFiniteSet(R) /\ Cardinality(R) <= Len(s)
  BY <1>1, <1>2, FS_Subset
<1>4. Cardinality(R) \in Nat
  BY <1>3, FS_CardinalityType
<1>. QED
  BY <1>3, <1>4 DEF R

\* Every report has a query of its own.
LEMMA ReportedStep ==
    ASSUME Typed, MapTypeOK', QueriesFresh, Reported, MapNext
    PROVE  Reported'
<1>. SUFFICES ASSUME NEW d \in Drivers
              PROVE  entered'[d] + Count(mainQ', {Entered(d)}) <= Cardinality(Reporters(d)')
  BY DEF Reported, Entered
<1>. DEFINE n == Count(mainQ, {Entered(d)})
            c == Cardinality(Reporters(d))
<1>1. mainQ \in Seq(Block) /\ entered \in [Drivers -> Nat] /\ DOMAIN queries = 1 .. Len(queries)
  BY Types
<1>2. n \in Nat /\ entered[d] \in Nat
  BY <1>1, HitsFinite
<1>3. c \in Nat /\ IsFiniteSet(Reporters(d))
  BY Types, ReportersFinite DEF Reporters
<1>4. Cardinality(Reporters(d)') \in Nat /\ IsFiniteSet(Reporters(d)')
  <2>1. PICK s : s = queries'
    OBVIOUS
  <2>2. s \in Seq(SUBSET located')
    BY <2>1 DEF MapTypeOK
  <2>3. PICK T : T = SUBSET located'
    OBVIOUS
  <2>4. s \in Seq(T)
    BY <2>2, <2>3
  <2>5. Reporters(d)' = {q \in DOMAIN s : d \in s[q]}
    BY <2>1 DEF Reporters
  <2>. QED
    BY <2>4, <2>5, ReportersFinite
<1>5. entered[d] + n <= c
  BY DEF Reported
<1>. HIDE DEF n, c
<1>6. ASSUME Reporters(d) \subseteq Reporters(d)' PROVE c <= Cardinality(Reporters(d)')
  BY <1>4, <1>6, FS_Subset DEF c
<1>7. ASSUME queries' = queries, entered'[d] = entered[d], Count(mainQ', {Entered(d)}) = n
      PROVE  entered'[d] + Count(mainQ', {Entered(d)}) <= Cardinality(Reporters(d)')
  <2>1. Reporters(d)' = Reporters(d)
    BY <1>7 DEF Reporters
  <2>. QED
    BY <1>5, <1>7, <2>1 DEF c
<1>8. ASSUME NEW B, Grows(mainQ', mainQ, Block, B), Entered(d) \notin B
      PROVE  Count(mainQ', {Entered(d)}) = n
  <2>1. {Entered(d)} \cap B = {}
    BY <1>8
  <2>. QED
    BY <1>1, <1>8, <2>1, GrowsHeld DEF n
<1>9. ASSUME NEW e, NEW B, B \subseteq Users(e) \cup {Value} PROVE Entered(d) \notin B
  BY <1>9 DEF Users, User, Entered, Value
\* The client and the servers change no query.
<1>10. CASE Observe
  BY <1>7, <1>8, <1>9, <1>10, ObserveGrows DEF Observe, queryVars
<1>11. CASE Read
  <2>2. PICK e : e = Head(libQ).of
    OBVIOUS
  <2>3. e \in Drivers /\ seen[e] \in {"unknown", "none", "profile"}
    BY <1>11, <2>2, TaskTaken, Types DEF Read
  <2>4. mainQ' = mainQ \/ \E B : B \subseteq Users(e) \cup {Value} /\ Grows(mainQ', mainQ, Block, B)
    BY <1>11, <2>2, <2>3, ReadGrows DEF Users
  <2>5. Count(mainQ', {Entered(d)}) = n
    BY <1>8, <1>9, <2>4 DEF n
  <2>. QED
    BY <1>7, <1>11, <2>5 DEF Read, queryVars
<1>12. CASE RegisterQuery
  <2>1. Entered(d) \notin {Added(Head(libQ).of, e) : e \in cache}
    BY DEF Entered, Added
  <2>. QED
    BY <1>7, <1>8, <1>12, <2>1, RegisterGrows DEF RegisterQuery, queryVars
<1>13. CASE DeliverLocations
  <2>. DEFINE B == {Value} \cup {Added(r, e) : r \in Registered, e \in cache' \ cache}
  <2>1. Grows(mainQ', mainQ, Block, B)
    BY <1>13, LocationsGrow
  <2>2. Entered(d) \notin B
    <3>1. ASSUME NEW e \in B, e # Value
          PROVE  \E r \in Registered, x \in cache' \ cache : e = Added(r, x)
      BY <3>1
    <3>2. \A r, x : Entered(d) # Added(r, x)
      BY DEF Entered, Added
    <3>3. Entered(d) # Value
      BY DEF Entered, Value
    <3>. HIDE DEF B
    <3>. QED
      BY <3>1, <3>2, <3>3
  <2>. HIDE DEF B
  <2>. QED
    BY <1>7, <1>8, <1>13, <2>1, <2>2 DEF DeliverLocations, queryVars
<1>14. CASE DeliverUser
  <2>2. PICK e : e = Head(inbox).at
    OBVIOUS
  <2>3. mainQ' = mainQ \/ \E B : B \subseteq Users(e) \cup {Value} /\ Grows(mainQ', mainQ, Block, B)
    <3>1. CASE reads[e] = 0
      BY <1>14, <2>2, <3>1 DEF DeliverUser
    <3>2. CASE reads[e] # 0
      BY <1>14, <2>2, <3>2, UsersGrow DEF Users
    <3>. QED
      BY <3>1, <3>2
  <2>4. Count(mainQ', {Entered(d)}) = n
    BY <1>8, <1>9, <2>3 DEF n
  <2>. QED
    BY <1>7, <1>14, <2>4 DEF DeliverUser, queryVars
<1>15. CASE mainQ' = mainQ /\ queries' = queries /\ entered' = entered
  BY <1>7, <1>15 DEF n
<1>16. CASE Unread \/ FetchDrivers \/ Environment \/ Server
  BY <1>15, <1>16 DEF Unread, FetchDrivers, Environment, Server, DriverLocated, DriverUploaded,
     ServerListen, queryVars
\* The main queue.
<1>17. ASSUME NEW kind, RunBlock(kind), NEW t, t = Tail(mainQ)
      PROVE  /\ t \in Seq(Block) /\ Count(t, {Entered(d)}) \in Nat
             /\ Head(mainQ) = Entered(d) => n = Count(t, {Entered(d)}) + 1
             /\ Head(mainQ) # Entered(d) => n = Count(t, {Entered(d)})
             /\ kind # "entered" => n = Count(t, {Entered(d)})
  <2>1. PICK m : m = Count(Tail(mainQ), {Entered(d)})
    OBVIOUS
  <2>2. /\ n = m + (IF Head(mainQ) \in {Entered(d)} THEN 1 ELSE 0)
        /\ m \in Nat /\ Tail(mainQ) \in Seq(Block) /\ Head(mainQ).kind = kind
    BY <1>17, <2>1, BlockTaken DEF n
  <2>3. kind # "entered" => Head(mainQ) # Entered(d)
    BY <2>2 DEF Entered
  <2>4. m = Count(t, {Entered(d)}) /\ t \in Seq(Block)
    BY <1>17, <2>1, <2>2
  <2>. QED
    BY <2>2, <2>3, <2>4
<1>24. ASSUME RunBlock("value") \/ RunBlock("initial") \/ RunBlock("added") \/ RunBlock("user"),
              NEW t, t = Tail(mainQ)
       PROVE  t \in Seq(Block) /\ Count(t, {Entered(d)}) \in Nat /\ n = Count(t, {Entered(d)})
  <2>1. PICK kind : RunBlock(kind) /\ kind # "entered"
    BY <1>24
  <2>. QED
    BY <1>17, <1>24, <2>1
<1>18. CASE HandleInitial
  <2>1. PICK q : q = Head(mainQ).q
    OBVIOUS
  <2>2. q \in DOMAIN queries /\ Initial(q) \in Held(mainQ)
    BY <1>18, <2>1, BlockTaken DEF HandleInitial
  <2>3. queries[q] = {}
    BY <2>2 DEF QueriesFresh
  <2>4. Report({})
    <3>1. queries[q] \cap Near = {}
      BY <2>3
    <3>2. Report(queries[q] \cap Near)
      BY <1>18, <2>1 DEF HandleInitial
    <3>. QED
      BY <3>1, <3>2
  <2>5. entered'[d] = entered[d]
    <3>1. PICK keys : keys = {}
      OBVIOUS
    <3>2. keys \in SUBSET Near /\ Report(keys) /\ d \notin keys
      BY <2>4, <3>1
    <3>3. entered'[d] = entered[d] + (IF d \in keys THEN 1 ELSE 0)
      BY <3>2, ReportGrows
    <3>. QED
      BY <3>2, <3>3, <1>2
  <2>6. RunBlock("initial") /\ mainQ' = Tail(mainQ) /\ queries' = queries
    BY <1>18 DEF HandleInitial
  <2>7. n = Count(mainQ', {Entered(d)})
    BY <1>24, <2>6
  <2>. QED
    BY <1>7, <2>5, <2>6, <2>7
<1>19. CASE HandleEntered
  <2>1. PICK e : e = Head(mainQ).of
    OBVIOUS
  <2>2. e \in Near /\ Head(mainQ) = Entered(e) /\ Report({e})
    BY <1>19, <2>1, BlockTaken DEF HandleEntered
  <2>3. entered'[d] = entered[d] + (IF d \in {e} THEN 1 ELSE 0)
    BY <2>2, ReportGrows
  <2>4. Head(mainQ) = Entered(d) <=> d = e
    BY <2>2 DEF Entered
  <2>5. PICK m : m = Count(Tail(mainQ), {Entered(d)})
    OBVIOUS
  <2>6. n = m + (IF Head(mainQ) = Entered(d) THEN 1 ELSE 0) /\ m \in Nat
    <3>1. RunBlock("entered")
      BY <1>19 DEF HandleEntered
    <3>2. /\ Head(mainQ) = Entered(d) => n = m + 1
          /\ Head(mainQ) # Entered(d) => n = m
          /\ m \in Nat
      BY <1>17, <2>5, <3>1
    <3>. QED
      BY <3>2
  <2>7. entered'[d] + m = entered[d] + n
    BY <2>3, <2>4, <2>6, <1>2
  <2>8. Reporters(d)' = Reporters(d) /\ mainQ' = Tail(mainQ)
    BY <1>19 DEF HandleEntered, Reporters
  <2>. QED
    BY <1>5, <2>5, <2>7, <2>8 DEF c
<1>20. CASE HandleUser
  <2>1. RunBlock("user") /\ mainQ' = Tail(mainQ) /\ queries' = queries /\ entered' = entered
    BY <1>20 DEF HandleUser
  <2>2. n = Count(mainQ', {Entered(d)})
    BY <1>24, <2>1
  <2>. QED
    BY <1>7, <2>1, <2>2
<1>21. CASE HandleValue
  <2>1. PICK r : r = Len(queries) + 1
    OBVIOUS
  <2>2. PICK t : t = Tail(mainQ)
    OBVIOUS
  <2>3. t \in Seq(Block) /\ n = Count(t, {Entered(d)})
    <3>1. RunBlock("value")
      BY <1>21 DEF HandleValue
    <3>. QED
      BY <1>24, <2>2, <3>1
  <2>4. /\ r \notin DOMAIN queries /\ DOMAIN queries' = DOMAIN queries \cup {r}
        /\ \A i \in DOMAIN queries : queries'[i] = queries[i]
        /\ Grows(mainQ', t, Block, {Initial(r)})
    BY <1>21, <2>1, <2>2, ValueSteps
  <2>5. Reporters(d) \subseteq Reporters(d)'
    BY <2>4 DEF Reporters
  <2>6. {Entered(d)} \cap {Initial(r)} = {}
    BY DEF Entered, Initial
  <2>7. Count(mainQ', {Entered(d)}) = n
    <3>1. PICK S : S = {Entered(d)}
      OBVIOUS
    <3>2. S \cap {Initial(r)} = {}
      BY <2>6, <3>1
    <3>3. Count(mainQ', S) = Count(t, S)
      BY <2>3, <2>4, <3>2, GrowsHeld
    <3>. QED
      BY <2>3, <3>1, <3>3
  <2>8. entered'[d] = entered[d]
    BY <1>21 DEF HandleValue
  <2>. QED
    BY <1>2, <1>3, <1>4, <1>5, <1>6, <2>5, <2>7, <2>8
<1>22. CASE HandleAdded
  <2>1. PICK r : r = Head(mainQ).q
    OBVIOUS
  <2>2. PICK e : e = Head(mainQ).of
    OBVIOUS
  <2>3. PICK m : m = Count(Tail(mainQ), {Entered(d)})
    OBVIOUS
  <2>4. n = m /\ m \in Nat
    <3>1. RunBlock("added")
      BY <1>22 DEF HandleAdded
    <3>. QED
      BY <1>24, <2>3, <3>1
  <2>5. /\ r \in DOMAIN queries /\ DOMAIN queries' = DOMAIN queries
        /\ queries'[r] = queries[r] \cup {e}
        /\ \A i \in DOMAIN queries : i # r => queries'[i] = queries[i]
    BY <1>22, <2>1, <2>2, AddedSteps
  <2>6. Reporters(d) \subseteq Reporters(d)'
    BY <2>5 DEF Reporters
  <2>7. entered'[d] = entered[d]
    BY <1>22 DEF HandleAdded
  <2>8. CASE e = d /\ d \in Near \ queries[r]
    <3>1. Reporters(d)' = Reporters(d) \cup {r} /\ r \notin Reporters(d)
      BY <2>5, <2>8 DEF Reporters
    <3>2. Cardinality(Reporters(d)') = c + 1
      BY <3>1, <1>3, FS_AddElement DEF c
    <3>3. Count(mainQ', {Entered(d)}) = n + 1
      <4>1. Count(mainQ', {Entered(d)}) = m + (IF Entered(d) \in {Entered(d)} THEN 1 ELSE 0)
        BY <1>22, <2>1, <2>2, <2>3, <2>8, AddedSteps
      <4>. QED
        BY <4>1, <2>4
    <3>. QED
      BY <1>2, <1>3, <1>5, <2>7, <3>2, <3>3
  <2>9. CASE ~(e = d /\ d \in Near \ queries[r])
    <3>1. Count(mainQ', {Entered(d)}) = n
      <4>1. CASE e \in Near \ queries[r]
        <5>1. Count(mainQ', {Entered(d)}) = m + (IF Entered(e) \in {Entered(d)} THEN 1 ELSE 0)
          BY <1>22, <2>1, <2>2, <2>3, <4>1, AddedSteps
        <5>2. Entered(e) \notin {Entered(d)}
          BY <2>9, <4>1 DEF Entered
        <5>. QED
          BY <5>1, <5>2, <2>4
      <4>2. CASE e \notin Near \ queries[r]
        BY <1>22, <2>1, <2>2, <2>3, <2>4, <4>2, AddedSteps
      <4>. QED
        BY <4>1, <4>2
    <3>. QED
      BY <1>2, <1>3, <1>4, <1>5, <1>6, <2>6, <2>7, <3>1
  <2>. QED
    BY <2>8, <2>9
<1>23. CASE Relaunch
  <2>1. entered'[d] = 0 /\ mainQ' = <<>>
    BY <1>23 DEF Relaunch
  <2>2. Count(<<>>, {Entered(d)}) = 0
    BY Nothing
  <2>3. Count(mainQ', {Entered(d)}) = 0
    BY <2>1, <2>2
  <2>. QED
    BY <2>1, <2>3, <1>4
<1>. QED
  BY <1>10, <1>11, <1>12, <1>13, <1>14, <1>16, <1>18, <1>19, <1>20, <1>21, <1>22, <1>23
     DEF MapNext, Library, Main

(* The connection.                                                         *)

\* The positions on their way are newer from one message to the next, and
\* newer than what the client has.
Newer ==
    /\ \A i, j \in DOMAIN inbox :
         inbox[i].at = Places /\ inbox[j].at = Places /\ i < j =>
             inbox[i].keys \subseteq inbox[j].keys /\ inbox[i].keys # inbox[j].keys
    /\ \A i \in DOMAIN inbox :
         inbox[i].at = Places =>
             cache \subseteq inbox[i].keys /\ (loaded => cache # inbox[i].keys)

\* They come only once the server pushes them.
Positions ==
    /\ regs = 0 => Places \notin asks /\ Places \notin listens
    /\ Places \notin listens =>
           ~loaded /\ followed = {} /\ \A i \in DOMAIN inbox : inbox[i].at # Places
    /\ Places \in asks => Places \notin listens
    /\ ~loaded => cache = {}
    /\ Newer

\* What the server adds to the connection.
LEMMA PathsDiffer == \A d \in Drivers : d # Places
BY DriversAssumption DEF Places

\* The messages on their way.
LEMMA InboxType ==
    ASSUME Typed
    PROVE  /\ inbox \in Seq(Message) /\ Len(inbox) \in Nat /\ DOMAIN inbox = 1 .. Len(inbox)
           /\ \A i \in DOMAIN inbox : inbox[i] \in Held(inbox) /\ MessageRight(inbox[i])
<1>1. inbox \in Seq(Message)
  BY Types
<1>2. Len(inbox) \in Nat /\ DOMAIN inbox = 1 .. Len(inbox)
  BY <1>1
<1>3. \A i \in DOMAIN inbox : inbox[i] \in Held(inbox)
  BY <1>2 DEF Held
<1>. QED
  BY <1>1, <1>2, <1>3 DEF Typed, QueuesRight

\* The server starts to push a path.
LEMMA ListenSteps ==
    ASSUME Typed, NEW path \in Path, ServerListen(path), NEW e, e = [at |-> path, keys |-> Data(path)]
    PROVE  /\ path \in asks /\ asks' = asks \ {path} /\ listens' = listens \cup {path}
           /\ e \in Message /\ inbox' = Append(inbox, e) /\ e.at = path
           /\ path = Places => e.keys = located /\ followed' = profiles
           /\ path # Places => /\ path \in Drivers /\ followed' = followed
                               /\ path \in profiles => e = Found(path)
                               /\ path \notin profiles => e = None(path)
<1>1. path \in asks /\ asks' = asks \ {path} /\ listens' = listens \cup {path}
      /\ inbox' = Append(inbox, [at |-> path, keys |-> Data(path)])
      /\ followed' = IF path = Places THEN profiles ELSE followed
  BY DEF ServerListen, Places
<1>2. inbox' = Append(inbox, e)
  BY <1>1
<1>3. located \subseteq Drivers /\ profiles \subseteq Drivers
  BY Types
<1>4. CASE path = Places
  <2>1. e = [at |-> Places, keys |-> located]
    BY <1>4 DEF Data, Places
  <2>2. e \in Message /\ e.at = path /\ e.keys = located
    BY <1>3, <1>4, <2>1, EntryTypes
  <2>. QED
    BY <1>1, <1>2, <1>4, <2>2
<1>5. CASE path # Places
  <2>1. path \in Drivers /\ e = [at |-> path, keys |-> profiles \cap {path}]
    BY <1>5 DEF Data, Places, Path
  <2>2. e.at = path
    BY <2>1
  <2>3. CASE path \in profiles
    <3>1. profiles \cap {path} = {path}
      BY <2>3
    <3>2. e = Found(path)
      BY <2>1, <3>1 DEF Found
    <3>. QED
      BY <1>1, <1>2, <1>5, <2>1, <2>2, <2>3, <3>2, EntryTypes
  <2>4. CASE path \notin profiles
    <3>1. profiles \cap {path} = {}
      BY <2>4
    <3>2. e = None(path)
      BY <2>1, <3>1 DEF None
    <3>. QED
      BY <1>1, <1>2, <1>5, <2>1, <2>2, <2>4, <3>2, EntryTypes
  <2>. QED
    BY <2>3, <2>4
<1>. QED
  BY <1>4, <1>5

\* The first write of a sign-up.
LEMMA LocatedSteps ==
    ASSUME Typed, NEW d \in Drivers, DriverLocated(d), NEW e, e = [at |-> Places, keys |-> located \cup {d}]
    PROVE  /\ d \notin located /\ located' = located \cup {d} /\ profiles' = profiles
           /\ e \in Message /\ e.at = Places /\ e.keys = located \cup {d}
           /\ Places \in listens => inbox' = Append(inbox, e) /\ followed' = profiles
           /\ Places \notin listens => inbox' = inbox /\ followed' = followed
           /\ asks' = asks /\ listens' = listens
<1>1. /\ d \notin located /\ located' = located \cup {d} /\ profiles' = profiles
      /\ asks' = asks /\ listens' = listens
      /\ Push("driver-locations", located \cup {d})
      /\ followed' = IF Places \in listens THEN profiles ELSE followed
  BY DEF DriverLocated, Places
<1>2. inbox' = IF Places \in listens THEN Append(inbox, e) ELSE inbox
  BY <1>1 DEF Push, Places
<1>3. located \cup {d} \in SUBSET Drivers
  BY Types
<1>4. e \in Message /\ e.at = Places /\ e.keys = located \cup {d}
  BY <1>3, EntryTypes
<1>. QED
  BY <1>1, <1>2, <1>4

\* Its second write.
LEMMA UploadedSteps ==
    ASSUME Typed, NEW d \in Drivers, DriverUploaded(d), NEW e, e = Found(d)
    PROVE  /\ d \in located /\ d \notin profiles /\ profiles' = profiles \cup {d} /\ located' = located
           /\ e \in Message /\ e.at = d /\ followed' = followed
           /\ d \in listens => inbox' = Append(inbox, e)
           /\ d \notin listens => inbox' = inbox
           /\ asks' = asks /\ listens' = listens
<1>1. /\ d \in located /\ d \notin profiles /\ profiles' = profiles \cup {d} /\ located' = located
      /\ asks' = asks /\ listens' = listens /\ followed' = followed
      /\ Push(d, {d})
  BY DEF DriverUploaded
<1>2. inbox' = IF d \in listens THEN Append(inbox, e) ELSE inbox
  BY <1>1 DEF Push, Found
<1>3. e \in Message /\ e.at = d
  BY EntryTypes DEF Found
<1>. QED
  BY <1>1, <1>2, <1>3

-----------------------------------------------------------------------------
\* Every step keeps positions in order.
LEMMA PositionsStep ==
    ASSUME Typed, Positions, MapNext
    PROVE  Positions'
<1>. DEFINE same == regs' = regs /\ loaded' = loaded /\ cache' = cache
            link == inbox' = inbox /\ followed' = followed
<1>1. /\ regs \in Nat /\ cache \subseteq located /\ loaded \in BOOLEAN
      /\ Len(inbox) \in Nat /\ DOMAIN inbox = 1 .. Len(inbox)
  BY Types, InboxType
<1>2. ASSUME same, link, Places \in asks' <=> Places \in asks, Places \in listens' <=> Places \in listens
      PROVE  Positions'
  BY <1>2 DEF Positions, Newer
\* A message that is not about positions is added or taken.
<1>3. ASSUME same, followed' = followed,
             Places \in asks' <=> Places \in asks, Places \in listens' <=> Places \in listens,
             NEW e \in Message, inbox' = Append(inbox, e), e.at # Places
      PROVE  Positions'
  <2>1. /\ DOMAIN inbox' = DOMAIN inbox \cup {Len(inbox) + 1} /\ inbox'[Len(inbox) + 1] = e
        /\ \A i \in DOMAIN inbox : inbox'[i] = inbox[i]
    BY <1>3, MessageAdded
  <2>2. \A i \in DOMAIN inbox' : inbox'[i].at = Places => i \in DOMAIN inbox /\ inbox'[i] = inbox[i]
    BY <1>3, <2>1
  <2>3. Newer'
    BY <1>3, <2>2 DEF Positions, Newer
  <2>. QED
    BY <1>3, <2>2, <2>3 DEF Positions
<1>4. CASE Observe
  <2>1. /\ regs' = regs + 1 /\ asks' = (IF regs = 0 THEN asks \cup {Places} ELSE asks)
        /\ listens' = listens /\ inbox' = inbox /\ loaded' = loaded /\ cache' = cache /\ followed' = followed
    BY <1>4 DEF Observe, Places
  <2>2. regs' # 0
    BY <2>1, <1>1
  <2>3. Newer'
    BY <2>1 DEF Positions, Newer
  <2>. QED
    BY <2>1, <2>2, <2>3 DEF Positions
<1>5. CASE RegisterQuery \/ FetchDrivers \/ Main
  <2>1. same /\ link /\ asks' = asks /\ listens' = listens
    BY <1>5 DEF RegisterQuery, FetchDrivers, Main, HandleValue, HandleInitial, HandleAdded, HandleEntered,
       HandleUser, clientVars, linkVars
  <2>. QED
    BY <1>2, <2>1
<1>6. CASE Read
  <2>1. PICK d : d = Head(libQ).of
    OBVIOUS
  <2>2. d # Places
    BY <1>6, <2>1, TaskTaken, Types, PathsDiffer DEF Read
  <2>3. same /\ link /\ listens' = listens /\ (asks' = asks \/ asks' = asks \cup {d})
    BY <1>6, <2>1 DEF Read
  <2>. QED
    BY <1>2, <2>2, <2>3
<1>7. CASE Unread
  <2>1. PICK d : d = Head(libQ).of
    OBVIOUS
  <2>2. d # Places
    BY <1>7, <2>1, TaskTaken, Types, PathsDiffer DEF Unread
  <2>3. same /\ link /\ asks' = asks /\ (listens' = listens \/ listens' = listens \ {d})
    BY <1>7, <2>1 DEF Unread
  <2>. QED
    BY <1>2, <2>2, <2>3
<1>8. CASE DeliverLocations
  <2>1. /\ inbox # <<>> /\ inbox' = Tail(inbox) /\ Head(inbox).at = Places
        /\ loaded' = TRUE /\ cache' = Head(inbox).keys
        /\ regs' = regs /\ asks' = asks /\ listens' = listens /\ followed' = followed
    BY <1>8 DEF DeliverLocations, Places
  <2>2. /\ \A i \in DOMAIN inbox' : i + 1 \in DOMAIN inbox /\ inbox'[i] = inbox[i + 1]
        /\ Head(inbox) = inbox[1] /\ Len(inbox) >= 1
        /\ Len(inbox') = Len(inbox) - 1 /\ inbox' \in Seq(Message)
    BY <2>1, MessageTaken
  <2>3. 1 \in DOMAIN inbox /\ inbox[1].at = Places /\ cache' = inbox[1].keys
    BY <2>1, <2>2, <1>1
  <2>4. Places \in listens /\ regs # 0 /\ Places \notin asks
    BY <2>3 DEF Positions
  <2>5. ASSUME NEW i \in DOMAIN inbox' PROVE i \in Int /\ 1 < i + 1
    BY <2>2
  <2>6. Newer'
    <3>1. ASSUME NEW i \in DOMAIN inbox', NEW j \in DOMAIN inbox',
                 inbox'[i].at = Places, inbox'[j].at = Places, i < j
          PROVE  inbox'[i].keys \subseteq inbox'[j].keys /\ inbox'[i].keys # inbox'[j].keys
      <4>1. i + 1 < j + 1
        BY <2>5, <3>1
      <4>. QED
        BY <2>2, <3>1, <4>1 DEF Positions, Newer
    <3>2. ASSUME NEW i \in DOMAIN inbox', inbox'[i].at = Places
          PROVE  cache' \subseteq inbox'[i].keys /\ cache' # inbox'[i].keys
      BY <2>2, <2>3, <2>5, <3>2 DEF Positions, Newer
    <3>. QED
      BY <3>1, <3>2 DEF Newer
  <2>. QED
    BY <2>1, <2>4, <2>6 DEF Positions
<1>9. CASE DeliverUser
  <2>1. /\ inbox # <<>> /\ inbox' = Tail(inbox) /\ same
        /\ asks' = asks /\ listens' = listens /\ followed' = followed
    BY <1>9 DEF DeliverUser
  <2>2. /\ \A i \in DOMAIN inbox' : i + 1 \in DOMAIN inbox /\ inbox'[i] = inbox[i + 1]
        /\ inbox' \in Seq(Message)
    BY <2>1, MessageTaken
  <2>3. ASSUME NEW i \in DOMAIN inbox' PROVE i \in Int
    BY <2>2
  <2>6. Newer'
    <3>1. ASSUME NEW i \in DOMAIN inbox', NEW j \in DOMAIN inbox',
                 inbox'[i].at = Places, inbox'[j].at = Places, i < j
          PROVE  inbox'[i].keys \subseteq inbox'[j].keys /\ inbox'[i].keys # inbox'[j].keys
      <4>1. i + 1 < j + 1
        BY <2>3, <3>1
      <4>. QED
        BY <2>2, <3>1, <4>1 DEF Positions, Newer
    <3>2. ASSUME NEW i \in DOMAIN inbox', inbox'[i].at = Places
          PROVE  cache' \subseteq inbox'[i].keys /\ (loaded' => cache' # inbox'[i].keys)
      BY <2>1, <2>2, <3>2 DEF Positions, Newer
    <3>. QED
      BY <3>1, <3>2 DEF Newer
  <2>7. Places \notin listens' => \A i \in DOMAIN inbox' : inbox'[i].at # Places
    BY <2>1, <2>2 DEF Positions
  <2>. QED
    BY <2>1, <2>6, <2>7 DEF Positions
<1>10. ASSUME same, asks' \subseteq asks, listens' = listens \cup {Places},
              Places \in listens \/ Places \in asks, Places \notin asks',
              NEW e \in Message, inbox' = Append(inbox, e), e.at = Places, cache \subseteq e.keys,
              loaded => cache # e.keys,
              \A i \in DOMAIN inbox : inbox[i].at = Places =>
                  inbox[i].keys \subseteq e.keys /\ inbox[i].keys # e.keys
       PROVE  Positions'
  <2>1. /\ DOMAIN inbox' = DOMAIN inbox \cup {Len(inbox) + 1} /\ inbox'[Len(inbox) + 1] = e
        /\ \A i \in DOMAIN inbox : inbox'[i] = inbox[i] /\ i < Len(inbox) + 1
    BY <1>10, MessageAdded
  <2>2. PICK k : k = Len(inbox) + 1
    OBVIOUS
  <2>3. /\ DOMAIN inbox' = DOMAIN inbox \cup {k} /\ inbox'[k] = e /\ k \in Nat
        /\ \A i \in DOMAIN inbox : inbox'[i] = inbox[i] /\ i < k /\ i \in Nat
    BY <2>1, <2>2, <1>1
  <2>4. regs # 0 /\ Places \in listens'
    BY <1>10 DEF Positions
  <2>5. ASSUME NEW i \in DOMAIN inbox', NEW j \in DOMAIN inbox',
               inbox'[i].at = Places, inbox'[j].at = Places, i < j
        PROVE  inbox'[i].keys \subseteq inbox'[j].keys /\ inbox'[i].keys # inbox'[j].keys
    <3>1. CASE j = k
      <4>1. i \in DOMAIN inbox
        BY <2>3, <2>5, <3>1
      <4>. QED
        BY <1>10, <2>3, <2>5, <3>1, <4>1
    <3>2. CASE j # k
      <4>1. j \in DOMAIN inbox
        BY <2>3, <3>2
      <4>2. i \in DOMAIN inbox
        BY <2>3, <2>5, <4>1
      <4>. QED
        BY <2>3, <2>5, <4>1, <4>2 DEF Positions, Newer
    <3>. QED
      BY <3>1, <3>2
  <2>6. ASSUME NEW i \in DOMAIN inbox', inbox'[i].at = Places
        PROVE  cache' \subseteq inbox'[i].keys /\ (loaded' => cache' # inbox'[i].keys)
    BY <1>10, <2>3, <2>6 DEF Positions, Newer
  <2>7. Newer'
    BY <2>5, <2>6 DEF Newer
  <2>. QED
    BY <1>10, <2>4, <2>7 DEF Positions
<1>11. CASE Server
  <2>1. PICK path \in Path : ServerListen(path)
    BY <1>11 DEF Server
  <2>2. same
    BY <2>1 DEF ServerListen, clientVars
  <2>3. PICK e : e = [at |-> path, keys |-> Data(path)]
    OBVIOUS
  <2>4. CASE path = Places
    <3>1. /\ path \in asks /\ asks' = asks \ {path} /\ listens' = listens \cup {path}
          /\ e \in Message /\ inbox' = Append(inbox, e) /\ e.at = path
      BY <2>1, <2>3, ListenSteps
    <3>2. ~loaded /\ cache = {} /\ \A i \in DOMAIN inbox : inbox[i].at # Places
      BY <2>4, <3>1 DEF Positions
    <3>3. Places \notin asks' /\ asks' \subseteq asks /\ cache \subseteq e.keys
      BY <2>4, <3>1, <3>2
    <3>. QED
      BY <1>10, <2>2, <2>4, <3>1, <3>2, <3>3
  <2>5. CASE path # Places
    BY <1>3, <2>1, <2>2, <2>3, <2>5, ListenSteps
  <2>. QED
    BY <2>4, <2>5
<1>12. ASSUME NEW d \in Drivers, DriverLocated(d) PROVE Positions'
  <2>1. same
    BY <1>12 DEF DriverLocated, clientVars
  <2>2. PICK e : e = [at |-> Places, keys |-> located \cup {d}]
    OBVIOUS
  <2>3. CASE Places \in listens
    <3>1. /\ d \notin located /\ asks' = asks /\ listens' = listens
          /\ e \in Message /\ e.at = Places /\ e.keys = located \cup {d} /\ inbox' = Append(inbox, e)
      BY <1>12, <2>2, <2>3, LocatedSteps
    <3>2. Places \notin asks
      BY <2>3 DEF Positions
    <3>3. ASSUME NEW i \in DOMAIN inbox, inbox[i].at = Places PROVE inbox[i].keys \subseteq located
      BY <3>3, InboxType, PathsDiffer, Types DEF MessageRight
    <3>4. cache \subseteq e.keys /\ cache # e.keys
      BY <3>1, <1>1
    <3>5. \A i \in DOMAIN inbox : inbox[i].at = Places =>
                  inbox[i].keys \subseteq e.keys /\ inbox[i].keys # e.keys
      BY <3>1, <3>3
    <3>6. listens' = listens \cup {Places}
      BY <2>3, <3>1
    <3>. QED
      BY <1>10, <2>1, <2>3, <3>1, <3>2, <3>4, <3>5, <3>6
  <2>4. CASE Places \notin listens
    BY <1>2, <1>12, <2>1, <2>2, <2>4, LocatedSteps
  <2>. QED
    BY <2>3, <2>4
<1>13. ASSUME NEW d \in Drivers, DriverUploaded(d) PROVE Positions'
  <2>1. same
    BY <1>13 DEF DriverUploaded, clientVars
  <2>2. PICK e : e = Found(d)
    OBVIOUS
  <2>3. d # Places
    BY PathsDiffer
  <2>4. CASE d \in listens
    BY <1>3, <1>13, <2>1, <2>2, <2>3, <2>4, UploadedSteps
  <2>5. CASE d \notin listens
    BY <1>2, <1>13, <2>1, <2>2, <2>5, UploadedSteps
  <2>. QED
    BY <2>4, <2>5
<1>14. CASE UNCHANGED <<serverVars, linkVars, libQ, clientVars, mainQ, queryVars, calls, launches, followed>>
  BY <1>2, <1>14 DEF linkVars, clientVars
<1>15. CASE Relaunch
  <2>1. /\ regs' = 0 /\ asks' = {} /\ listens' = {} /\ inbox' = <<>> /\ loaded' = FALSE
        /\ cache' = {} /\ followed' = {}
    BY <1>15 DEF Relaunch
  <2>2. DOMAIN inbox' = {}
    BY <2>1
  <2>. QED
    BY <2>1, <2>2 DEF Positions, Newer
<1>. QED
  BY <1>4, <1>5, <1>6, <1>7, <1>8, <1>9, <1>11, <1>12, <1>13, <1>14, <1>15
     DEF MapNext, Library, Environment

\* A driver without a profile: the client waits for the one answer on its way,
\* or knows that there is no profile and the server pushes one when it comes.
WaitsFor(d) ==
    /\ seen[d] = "none" => d \in listens /\ d \notin asks /\ \A i \in DOMAIN inbox : inbox[i].at # d
    /\ \A i \in DOMAIN inbox : inbox[i].at = d =>
          /\ d \in listens /\ d \notin asks
          /\ waiting[d] = reads[d] /\ reads[d] > 0 /\ seen[d] = "unknown"
          /\ \A j \in DOMAIN inbox : inbox[j].at = d => j = i
    /\ d \in asks => waiting[d] = reads[d] /\ reads[d] > 0 /\ seen[d] = "unknown"
Listening == \A d \in Drivers \ profiles : WaitsFor(d)

\* Every step keeps the client listening for a profile that is missing.
LEMMA ListeningStep ==
    ASSUME Typed, ReadsCounted, SeenRight, Listening, MapNext
    PROVE  Listening'
<1>. SUFFICES ASSUME NEW d \in Drivers, d \notin profiles' PROVE WaitsFor(d)'
  BY DEF Listening
<1>1. /\ reads \in [Drivers -> Nat] /\ waiting \in [Drivers -> Nat]
      /\ seen \in [Drivers -> {"unknown", "none", "profile"}]
      /\ mainQ \in Seq(Block) /\ libQ \in Seq(Task)
      /\ Len(inbox) \in Nat /\ DOMAIN inbox = 1 .. Len(inbox)
  BY Types, InboxType
<1>2. d \notin profiles
  BY DEF MapNext, Environment, Server, ServerListen, Library, Main, Observe, RegisterQuery, Read, Unread,
     DeliverLocations, DeliverUser, HandleValue, HandleInitial, HandleAdded, HandleEntered, HandleUser,
     FetchDrivers, Relaunch, DriverLocated, DriverUploaded, serverVars
<1>3. WaitsFor(d) /\ d # Places
  BY <1>2, PathsDiffer DEF Listening
<1>4. seen[d] # "unknown" => seen[d] = "none" /\ waiting[d] = 0 /\ reads[d] > 0
  BY <1>1, <1>2 DEF SeenRight
<1>. DEFINE kept == /\ reads'[d] = reads[d] /\ waiting'[d] = waiting[d] /\ seen'[d] = seen[d]
                    /\ d \in asks' <=> d \in asks
                    /\ d \in listens' <=> d \in listens
\* Nothing of this driver changes.
<1>5. ASSUME kept, inbox' = inbox PROVE WaitsFor(d)'
  BY <1>3, <1>5 DEF WaitsFor
<1>6. ASSUME kept, NEW e \in Message, inbox' = Append(inbox, e), e.at # d PROVE WaitsFor(d)'
  <2>1. /\ DOMAIN inbox' = DOMAIN inbox \cup {Len(inbox) + 1} /\ inbox'[Len(inbox) + 1] = e
        /\ \A i \in DOMAIN inbox : inbox'[i] = inbox[i]
    BY <1>6, MessageAdded
  <2>2. \A i \in DOMAIN inbox' : inbox'[i].at = d => i \in DOMAIN inbox /\ inbox[i].at = d
    BY <1>6, <2>1
  <2>. QED
    BY <1>3, <1>6, <2>2 DEF WaitsFor
<1>7. ASSUME kept, inbox # <<>>, inbox' = Tail(inbox) PROVE WaitsFor(d)'
  <2>1. \A i \in DOMAIN inbox' : i + 1 \in DOMAIN inbox /\ inbox'[i] = inbox[i + 1] /\ i \in Int
    BY <1>7, MessageTaken
  <2>2. \A i \in DOMAIN inbox' : inbox'[i].at = d => i + 1 \in DOMAIN inbox /\ inbox[i + 1].at = d
    BY <2>1
  <2>3. \A i, j \in DOMAIN inbox' : i + 1 = j + 1 => i = j
    BY <2>1
  <2>. QED
    BY <1>3, <1>7, <2>2, <2>3 DEF WaitsFor
<1>8. CASE Observe
  <2>1. kept /\ inbox' = inbox
    BY <1>3, <1>8 DEF Observe, Places
  <2>. QED
    BY <1>5, <2>1
<1>9. CASE RegisterQuery \/ FetchDrivers \/ Main
  <2>1. kept /\ inbox' = inbox
    BY <1>9 DEF RegisterQuery, FetchDrivers, Main, HandleValue, HandleInitial, HandleAdded, HandleEntered,
       HandleUser, clientVars, linkVars
  <2>. QED
    BY <1>5, <2>1
<1>10. CASE Read
  <2>1. PICK x : x = Head(libQ).of
    OBVIOUS
  <2>2. x \in Drivers
    BY <1>10, <2>1, TaskTaken, Types DEF Read
  <2>3. /\ reads' = [reads EXCEPT ![x] = @ + 1]
        /\ seen[x] # "unknown" => waiting' = waiting /\ asks' = asks
        /\ seen[x] = "unknown" => /\ waiting' = [waiting EXCEPT ![x] = @ + 1]
                                  /\ asks' = IF reads[x] = 0 THEN asks \cup {x} ELSE asks
        /\ inbox' = inbox /\ listens' = listens /\ seen' = seen
    BY <1>10, <2>1 DEF Read
  <2>4. CASE x # d
    <3>1. kept
      BY <2>2, <2>3, <2>4, <1>1
    <3>. QED
      BY <1>5, <2>3, <3>1
  <2>5. CASE x = d /\ seen[d] # "unknown"
    BY <1>3, <1>4, <2>3, <2>5 DEF WaitsFor
  <2>6. CASE x = d /\ seen[d] = "unknown"
    <3>1. PICK r, w : r = reads[d] /\ w = waiting[d]
      OBVIOUS
    <3>2. r \in Nat /\ w \in Nat
      BY <1>1, <3>1
    <3>3. reads'[d] = r + 1 /\ waiting'[d] = w + 1
      BY <2>3, <2>6, <3>1, <1>1
    <3>4. r = 0 => w = 0
      <4>1. r = w + Count(mainQ, Users(d)) + Count(libQ, {Call("unread", d)})
        BY <3>1 DEF ReadsCounted
      <4>2. Count(mainQ, Users(d)) \in Nat /\ Count(libQ, {Call("unread", d)}) \in Nat
        BY <1>1, HitsFinite
      <4>. QED
        BY <3>2, <4>1, <4>2
    <3>5. r + 1 > 0 /\ (w = r => w + 1 = r + 1)
      BY <3>2
    <3>6. asks' = IF r = 0 THEN asks \cup {d} ELSE asks
      BY <2>3, <2>6, <3>1
    <3>7. r > 0 => asks' = asks
      BY <3>2, <3>6
    <3>8. d \in asks' => w + 1 = r + 1
      BY <1>3, <3>1, <3>2, <3>4, <3>6 DEF WaitsFor
    <3>. QED
      BY <1>3, <2>3, <2>6, <3>1, <3>3, <3>5, <3>7, <3>8 DEF WaitsFor
  <2>. QED
    BY <2>4, <2>5, <2>6
<1>11. CASE Unread
  <2>1. PICK x : x = Head(libQ).of
    OBVIOUS
  <2>2. x \in Drivers /\ Head(libQ) = Call("unread", x)
    BY <1>11, <2>1, TaskTaken, Types DEF Unread
  <2>3. /\ reads' = [reads EXCEPT ![x] = @ - 1]
        /\ reads[x] = 1 => seen' = [seen EXCEPT ![x] = "unknown"] /\ listens' = listens \ {x}
        /\ reads[x] # 1 => seen' = seen /\ listens' = listens
        /\ inbox' = inbox /\ asks' = asks /\ waiting' = waiting
    BY <1>11, <2>1 DEF Unread
  <2>4. CASE x # d
    <3>1. kept
      BY <2>2, <2>3, <2>4, <1>1
    <3>. QED
      BY <1>5, <2>3, <3>1
  <2>5. CASE x = d
    <3>1. waiting[d] # reads[d]
      <4>1. PICK r, w, m, u : /\ r = reads[d] /\ w = waiting[d] /\ m = Count(mainQ, Users(d))
                              /\ u = Count(libQ, {Call("unread", d)})
        OBVIOUS
      <4>2. r = w + m + u
        BY <4>1 DEF ReadsCounted
      <4>3. w \in Nat /\ m \in Nat /\ u \in Nat
        BY <4>1, <1>1, HitsFinite
      <4>4. u # 0
        <5>1. Call("unread", d) \in Held(libQ)
          BY <1>11, <2>2, <2>5, TaskTaken DEF Unread
        <5>2. Held(libQ) \cap {Call("unread", d)} # {}
          BY <5>1
        <5>. QED
          BY <4>1, <5>2, <1>1, CountNone
      <4>. QED
        BY <4>1, <4>2, <4>3, <4>4
    <3>2. d \notin asks /\ \A i \in DOMAIN inbox : inbox[i].at # d
      BY <3>1, <1>3 DEF WaitsFor
    <3>3. CASE reads[d] = 1
      <4>1. seen'[d] = "unknown"
        BY <2>3, <2>5, <3>3, <1>1
      <4>. QED
        BY <2>3, <3>2, <4>1 DEF WaitsFor
    <3>4. CASE reads[d] # 1
      BY <1>3, <2>3, <2>5, <3>2, <3>4 DEF WaitsFor
    <3>. QED
      BY <3>3, <3>4
  <2>. QED
    BY <2>4, <2>5
<1>12. CASE DeliverLocations
  <2>1. kept /\ inbox # <<>> /\ inbox' = Tail(inbox)
    BY <1>12 DEF DeliverLocations
  <2>. QED
    BY <1>7, <2>1
<1>13. CASE DeliverUser
  <2>1. PICK x : x = Head(inbox).at
    OBVIOUS
  <2>2. /\ x \in Drivers /\ inbox # <<>> /\ inbox' = Tail(inbox) /\ asks' = asks /\ listens' = listens
        /\ reads' = reads
        /\ reads[x] = 0 => seen' = seen /\ waiting' = waiting
        /\ reads[x] # 0 => /\ seen' = [seen EXCEPT ![x] = IF x \in Head(inbox).keys THEN "profile" ELSE "none"]
                           /\ waiting' = [waiting EXCEPT ![x] = 0]
    BY <1>13, <2>1 DEF DeliverUser, Answered
  <2>3. CASE x # d
    <3>1. kept
      BY <2>2, <2>3, <1>1
    <3>. QED
      BY <1>7, <2>2, <3>1
  <2>4. CASE x = d
    <3>1. /\ \A i \in DOMAIN inbox' : i + 1 \in DOMAIN inbox /\ inbox'[i] = inbox[i + 1] /\ i \in Int /\ i + 1 # 1
          /\ Head(inbox) = inbox[1] /\ MessageRight(Head(inbox)) /\ Len(inbox) >= 1
      BY <2>2, MessageTaken
    <3>2. 1 \in DOMAIN inbox /\ inbox[1].at = d
      BY <3>1, <1>1, <2>1, <2>4
    <3>3. /\ d \in listens /\ d \notin asks /\ reads[d] > 0
          /\ \A j \in DOMAIN inbox : inbox[j].at = d => j = 1
      BY <3>2, <1>3 DEF WaitsFor
    <3>4. \A i \in DOMAIN inbox' : inbox'[i].at # d
      BY <3>1, <3>3
    <3>. QED
      BY <2>2, <3>3, <3>4 DEF WaitsFor
  <2>. QED
    BY <2>3, <2>4
<1>14. CASE Server
  <2>1. PICK path \in Path : ServerListen(path)
    BY <1>14 DEF Server
  <2>2. reads' = reads /\ waiting' = waiting /\ seen' = seen
    BY <2>1 DEF ServerListen, clientVars
  <2>3. PICK e : e = [at |-> path, keys |-> Data(path)]
    OBVIOUS
  <2>4. /\ path \in asks /\ asks' = asks \ {path} /\ listens' = listens \cup {path}
        /\ e \in Message /\ inbox' = Append(inbox, e) /\ e.at = path
    BY <2>1, <2>3, ListenSteps
  <2>5. CASE path # d
    <3>1. kept
      BY <2>2, <2>4, <2>5
    <3>. QED
      BY <1>6, <2>4, <2>5, <3>1
  <2>6. CASE path = d
    <3>1. /\ waiting[d] = reads[d] /\ reads[d] > 0 /\ seen[d] = "unknown"
          /\ \A i \in DOMAIN inbox : inbox[i].at # d
      BY <1>3, <2>4, <2>6 DEF WaitsFor
    <3>2. /\ DOMAIN inbox' = DOMAIN inbox \cup {Len(inbox) + 1} /\ inbox'[Len(inbox) + 1] = e
          /\ \A i \in DOMAIN inbox : inbox'[i] = inbox[i]
      BY <2>4, MessageAdded
    <3>3. \A i \in DOMAIN inbox' : inbox'[i].at = d => i = Len(inbox) + 1
      BY <3>1, <3>2
    <3>. QED
      BY <2>2, <2>4, <2>6, <3>1, <3>3 DEF WaitsFor
  <2>. QED
    BY <2>5, <2>6
<1>15. ASSUME NEW x \in Drivers, DriverLocated(x) PROVE WaitsFor(d)'
  <2>1. reads' = reads /\ waiting' = waiting /\ seen' = seen
    BY <1>15 DEF DriverLocated, clientVars
  <2>2. PICK e : e = [at |-> Places, keys |-> located \cup {x}]
    OBVIOUS
  <2>3. /\ e \in Message /\ e.at = Places /\ asks' = asks /\ listens' = listens
        /\ inbox' = inbox \/ inbox' = Append(inbox, e)
    BY <1>15, <2>2, LocatedSteps
  <2>. QED
    BY <1>3, <1>5, <1>6, <2>1, <2>3
<1>16. ASSUME NEW x \in Drivers, DriverUploaded(x) PROVE WaitsFor(d)'
  <2>1. reads' = reads /\ waiting' = waiting /\ seen' = seen
    BY <1>16 DEF DriverUploaded, clientVars
  <2>2. PICK e : e = Found(x)
    OBVIOUS
  <2>3. /\ e \in Message /\ e.at = x /\ asks' = asks /\ listens' = listens /\ profiles' = profiles \cup {x}
        /\ inbox' = inbox \/ inbox' = Append(inbox, e)
    BY <1>16, <2>2, UploadedSteps
  <2>4. x # d
    BY <2>3
  <2>. QED
    BY <1>5, <1>6, <2>1, <2>3, <2>4
<1>17. CASE UNCHANGED <<serverVars, linkVars, libQ, clientVars, mainQ, queryVars, calls, launches, followed>>
  BY <1>5, <1>17 DEF linkVars, clientVars
<1>18. CASE Relaunch
  <2>1. asks' = {} /\ inbox' = <<>> /\ seen'[d] = "unknown"
    BY <1>18 DEF Relaunch
  <2>2. DOMAIN inbox' = {}
    BY <2>1
  <2>. QED
    BY <2>1, <2>2 DEF WaitsFor
<1>. QED
  BY <1>8, <1>9, <1>10, <1>11, <1>12, <1>13, <1>14, <1>15, <1>16, <1>17, <1>18
     DEF MapNext, Library, Environment

\* The client has, or the i-th message on its way says, that a driver has no
\* profile.
Stale(d, i) == IF i = 0 THEN seen[d] = "none" ELSE inbox[i] = None(d)

\* When that is no longer so, the profile is on its way behind it, and when
\* positions were sent since, before the newest positions.
CatchesUp(d) ==
    \A i \in 0 .. Len(inbox) : Stale(d, i) =>
        \E j \in DOMAIN inbox :
            /\ i < j /\ inbox[j] = Found(d)
            /\ d \in followed => \E k \in DOMAIN inbox : j < k /\ inbox[k].at = Places
Overtaken == \A d \in profiles : CatchesUp(d)

\* Nothing arrives and nothing is sent.
LEMMA CatchesUpSame ==
    ASSUME NEW d, CatchesUp(d), inbox' = inbox,
           seen'[d] = "none" => seen[d] = "none", d \in followed' => d \in followed
    PROVE  CatchesUp(d)'
<1>1. ASSUME NEW i \in 0 .. Len(inbox), Stale(d, i)' PROVE Stale(d, i)
  <2>1. CASE i = 0
    BY <1>1, <2>1 DEF Stale
  <2>2. CASE i # 0
    BY <1>1, <2>2 DEF Stale, None
  <2>. QED
    BY <2>1, <2>2
<1>. QED
  BY <1>1 DEF CatchesUp, Found

\* The server sends something.
LEMMA CatchesUpMore ==
    ASSUME Typed, NEW d, CatchesUp(d), NEW e \in Message, inbox' = Append(inbox, e), e # None(d),
           seen'[d] = seen[d], d \in followed' => d \in followed \/ e.at = Places
    PROVE  CatchesUp(d)'
<1>1. /\ Len(inbox) \in Nat /\ DOMAIN inbox = 1 .. Len(inbox) /\ inbox' \in Seq(Message)
      /\ DOMAIN inbox' = DOMAIN inbox \cup {Len(inbox) + 1} /\ inbox'[Len(inbox) + 1] = e
      /\ \A i \in DOMAIN inbox : inbox'[i] = inbox[i] /\ i < Len(inbox) + 1
  BY MessageAdded
<1>2. PICK n : n = Len(inbox) + 1
  OBVIOUS
<1>3. Len(inbox') = n
  BY <1>1, <1>2
<1>4. SUFFICES ASSUME NEW i \in 0 .. n, Stale(d, i)'
               PROVE  \E j \in DOMAIN inbox' :
                        /\ i < j /\ inbox'[j] = Found(d)
                        /\ d \in followed' => \E k \in DOMAIN inbox' : j < k /\ inbox'[k].at = Places
  BY <1>3 DEF CatchesUp, Found, Places
<1>5. i # n
  <2>1. n # 0 /\ inbox'[n] # None(d)
    BY <1>1, <1>2
  <2>. QED
    BY <1>4, <2>1 DEF Stale, None
<1>6. i \in 0 .. Len(inbox) /\ Stale(d, i)
  <2>1. i \in 0 .. Len(inbox) /\ (i # 0 => i \in DOMAIN inbox)
    BY <1>1, <1>2, <1>5
  <2>2. i # 0 => inbox'[i] = inbox[i]
    BY <2>1, <1>1
  <2>. QED
    BY <1>4, <2>1, <2>2 DEF Stale, None
<1>7. PICK j \in DOMAIN inbox :
        /\ i < j /\ inbox[j] = Found(d)
        /\ d \in followed => \E k \in DOMAIN inbox : j < k /\ inbox[k].at = Places
  BY <1>6 DEF CatchesUp
<1>8. ASSUME d \in followed' PROVE \E k \in DOMAIN inbox' : j < k /\ inbox'[k].at = Places
  <2>1. CASE d \in followed
    BY <1>1, <1>7, <2>1
  <2>2. CASE e.at = Places
    BY <1>1, <1>7, <2>2
  <2>. QED
    BY <1>8, <2>1, <2>2
<1>. QED
  BY <1>1, <1>7, <1>8

\* The client takes the oldest message.
LEMMA CatchesUpLess ==
    ASSUME Typed, NEW d, CatchesUp(d), inbox # <<>>, inbox' = Tail(inbox), d \in followed' => d \in followed,
           seen'[d] = "none" => Head(inbox) = None(d) \/ (seen[d] = "none" /\ Head(inbox) # Found(d))
    PROVE  CatchesUp(d)'
<1>1. /\ Len(inbox) \in Nat /\ DOMAIN inbox = 1 .. Len(inbox) /\ Head(inbox) = inbox[1]
      /\ Len(inbox') = Len(inbox) - 1 /\ DOMAIN inbox' = 1 .. Len(inbox') /\ Len(inbox) >= 1
      /\ \A i \in DOMAIN inbox' : i + 1 \in DOMAIN inbox /\ inbox'[i] = inbox[i + 1]
      /\ \A i \in DOMAIN inbox : i = 1 \/ (i - 1 \in DOMAIN inbox' /\ inbox[i] = inbox'[i - 1])
  BY MessageTaken, InboxType
<1>2. SUFFICES ASSUME NEW i \in 0 .. Len(inbox'), Stale(d, i)'
               PROVE  \E j \in DOMAIN inbox' :
                        /\ i < j /\ inbox'[j] = Found(d)
                        /\ d \in followed' => \E k \in DOMAIN inbox' : j < k /\ inbox'[k].at = Places
  BY DEF CatchesUp, Found, Places
<1>3. ASSUME NEW h \in 0 .. Len(inbox), Stale(d, h), h >= i,
             h = i => Head(inbox) # Found(d), h = i => i = 0, h <= i + 1
      PROVE  \E j \in DOMAIN inbox' :
                /\ i < j /\ inbox'[j] = Found(d)
                /\ d \in followed' => \E k \in DOMAIN inbox' : j < k /\ inbox'[k].at = Places
  <2>1. PICK j \in DOMAIN inbox :
          /\ h < j /\ inbox[j] = Found(d)
          /\ d \in followed => \E k \in DOMAIN inbox : j < k /\ inbox[k].at = Places
    BY <1>3 DEF CatchesUp
  <2>2. j # 1
    BY <1>1, <1>3, <2>1
  <2>3. j - 1 \in DOMAIN inbox' /\ inbox'[j - 1] = Found(d)
    BY <1>1, <2>1, <2>2
  <2>4. i < j - 1
    BY <1>1, <1>3, <2>1, <2>2
  <2>5. ASSUME d \in followed' PROVE \E k \in DOMAIN inbox' : j - 1 < k /\ inbox'[k].at = Places
    <3>1. PICK k \in DOMAIN inbox : j < k /\ inbox[k].at = Places
      BY <2>1, <2>5
    <3>2. k # 1 /\ j - 1 < k - 1
      BY <1>1, <2>1, <3>1
    <3>3. k - 1 \in DOMAIN inbox' /\ inbox'[k - 1].at = Places
      BY <1>1, <3>1, <3>2
    <3>. QED
      BY <3>2, <3>3
  <2>. QED
    BY <2>3, <2>4, <2>5
<1>4. CASE i # 0
  <2>1. i \in DOMAIN inbox' /\ i + 1 \in 0 .. Len(inbox) /\ i + 1 # 0 /\ i + 1 >= i /\ i + 1 # i
    BY <1>1, <1>4
  <2>2. inbox'[i] = None(d)
    BY <1>2, <1>4 DEF Stale, None
  <2>3. Stale(d, i + 1)
    BY <1>1, <2>1, <2>2 DEF Stale
  <2>. QED
    BY <1>3, <2>1, <2>3
<1>5. CASE i = 0 /\ Head(inbox) = None(d)
  <2>1. Stale(d, 1) /\ 1 \in 0 .. Len(inbox)
    BY <1>1, <1>5 DEF Stale
  <2>. QED
    BY <1>3, <1>5, <2>1
<1>6. CASE i = 0 /\ seen[d] = "none" /\ Head(inbox) # Found(d)
  <2>1. Stale(d, 0) /\ 0 \in 0 .. Len(inbox)
    BY <1>1, <1>6 DEF Stale
  <2>. QED
    BY <1>3, <1>6, <2>1
<1>7. i = 0 => seen'[d] = "none"
  BY <1>2 DEF Stale
<1>. QED
  BY <1>4, <1>5, <1>6, <1>7

-----------------------------------------------------------------------------
\* Every step keeps the profile behind what it replaces.
LEMMA OvertakenStep ==
    ASSUME Typed, SeenRight, Listening, Overtaken, MapNext
    PROVE  Overtaken'
<1>. SUFFICES ASSUME NEW d \in profiles' PROVE CatchesUp(d)'
  BY DEF Overtaken
<1>1. /\ seen \in [Drivers -> {"unknown", "none", "profile"}] /\ profiles \subseteq Drivers
      /\ followed \subseteq profiles
  BY Types
<1>2. d \in profiles => CatchesUp(d) /\ d \in Drivers /\ d # Places
  BY <1>1, PathsDiffer DEF Overtaken
<1>3. CASE Observe \/ RegisterQuery \/ FetchDrivers \/ Main \/ Read
  <2>1. profiles' = profiles /\ inbox' = inbox /\ seen' = seen /\ followed' = followed
    BY <1>3 DEF Observe, RegisterQuery, FetchDrivers, Main, HandleValue, HandleInitial, HandleAdded,
       HandleEntered, HandleUser, Read, clientVars, linkVars, serverVars
  <2>. QED
    BY <1>2, <2>1, CatchesUpSame
<1>4. CASE Unread
  <2>1. PICK x : x = Head(libQ).of
    OBVIOUS
  <2>2. /\ profiles' = profiles /\ inbox' = inbox /\ followed' = followed
        /\ seen' = seen \/ seen' = [seen EXCEPT ![x] = "unknown"]
    BY <1>4, <2>1 DEF Unread, serverVars
  <2>3. seen'[d] = "none" => seen[d] = "none"
    BY <1>1, <1>2, <2>2
  <2>. QED
    BY <1>2, <2>2, <2>3, CatchesUpSame
<1>5. CASE DeliverLocations
  <2>1. /\ profiles' = profiles /\ seen' = seen /\ followed' = followed
        /\ inbox # <<>> /\ inbox' = Tail(inbox) /\ Head(inbox).at = Places
    BY <1>5 DEF DeliverLocations, serverVars, Places
  <2>2. Head(inbox) # Found(d)
    BY <1>2, <2>1 DEF Found
  <2>. QED
    BY <1>2, <2>1, <2>2, CatchesUpLess
<1>6. CASE DeliverUser
  <2>1. PICK x : x = Head(inbox).at
    OBVIOUS
  <2>2. /\ profiles' = profiles /\ followed' = followed
        /\ x \in Drivers /\ inbox # <<>> /\ inbox' = Tail(inbox)
        /\ reads[x] = 0 => seen' = seen
        /\ reads[x] # 0 => seen' = [seen EXCEPT ![x] = IF x \in Head(inbox).keys THEN "profile" ELSE "none"]
    BY <1>6, <2>1 DEF DeliverUser, serverVars
  <2>3. MessageRight(Head(inbox))
    BY <2>2, MessageTaken
  <2>4. ASSUME seen'[d] = "none"
        PROVE  Head(inbox) = None(d) \/ (seen[d] = "none" /\ Head(inbox) # Found(d))
    <3>1. CASE x # d
      <4>1. seen'[d] = seen[d]
        BY <1>1, <1>2, <2>2, <3>1
      <4>2. Head(inbox) # Found(d)
        BY <2>1, <3>1 DEF Found
      <4>. QED
        BY <2>4, <4>1, <4>2
    <3>2. CASE x = d
      <4>1. Head(inbox) = None(d) \/ Head(inbox) = Found(d)
        BY <2>1, <2>3, <3>2, <1>2, <2>2 DEF MessageRight
      <4>2. CASE Head(inbox) = Found(d)
        <5>1. d \in Head(inbox).keys
          BY <4>2 DEF Found
        <5>2. reads[d] # 0 => seen'[d] = "profile"
          BY <1>1, <2>2, <3>2, <5>1
        <5>3. reads[d] = 0
          BY <2>4, <5>2
        <5>4. seen[d] = "none"
          BY <2>2, <2>4, <3>2, <5>3
        <5>. QED
          BY <5>3, <5>4, <2>2, <3>2 DEF SeenRight
      <4>. QED
        BY <4>1, <4>2
    <3>. QED
      BY <3>1, <3>2
  <2>. QED
    BY <1>2, <2>2, <2>4, CatchesUpLess
<1>7. CASE Server
  <2>1. PICK path \in Path : ServerListen(path)
    BY <1>7 DEF Server
  <2>2. seen' = seen /\ profiles' = profiles
    BY <2>1 DEF ServerListen, clientVars, serverVars
  <2>3. PICK e : e = [at |-> path, keys |-> Data(path)]
    OBVIOUS
  <2>4. /\ e \in Message /\ inbox' = Append(inbox, e) /\ e.at = path
        /\ path # Places => /\ followed' = followed
                            /\ path \in profiles => e = Found(path)
    BY <2>1, <2>3, ListenSteps
  <2>5. e # None(d)
    <3>1. CASE path = d
      <4>1. e = Found(d)
        BY <2>2, <2>4, <3>1, <1>2
      <4>. QED
        BY <4>1 DEF Found, None
    <3>2. CASE path # d
      BY <2>4, <3>2 DEF None
    <3>. QED
      BY <3>1, <3>2
  <2>. QED
    BY <1>2, <2>2, <2>4, <2>5, CatchesUpMore
<1>8. ASSUME NEW x \in Drivers, DriverLocated(x) PROVE CatchesUp(d)'
  <2>1. seen' = seen /\ profiles' = profiles
    BY <1>8 DEF DriverLocated, clientVars
  <2>2. PICK e : e = [at |-> Places, keys |-> located \cup {x}]
    OBVIOUS
  <2>3. e \in Message /\ e.at = Places
    BY <1>8, <2>2, LocatedSteps
  <2>4. CASE Places \in listens
    <3>1. inbox' = Append(inbox, e)
      BY <1>8, <2>2, <2>4, LocatedSteps
    <3>2. e # None(d)
      BY <1>2, <2>1, <2>3 DEF None
    <3>. QED
      BY <1>2, <2>1, <2>3, <3>1, <3>2, CatchesUpMore
  <2>5. CASE Places \notin listens
    <3>1. inbox' = inbox /\ followed' = followed
      BY <1>8, <2>2, <2>5, LocatedSteps
    <3>. QED
      BY <1>2, <2>1, <3>1, CatchesUpSame
  <2>. QED
    BY <2>4, <2>5
<1>9. ASSUME NEW x \in Drivers, DriverUploaded(x) PROVE CatchesUp(d)'
  <2>1. seen' = seen
    BY <1>9 DEF DriverUploaded, clientVars
  <2>2. PICK e : e = Found(x)
    OBVIOUS
  <2>3. /\ e \in Message /\ e.at = x /\ profiles' = profiles \cup {x} /\ x \notin profiles
        /\ followed' = followed
        /\ x \in listens => inbox' = Append(inbox, e)
        /\ x \notin listens => inbox' = inbox
    BY <1>9, <2>2, UploadedSteps
  <2>4. e # None(d)
    BY <2>2 DEF Found, None
  <2>5. CASE d \in profiles
    <3>1. CASE x \in listens
      BY <1>2, <2>1, <2>3, <2>4, <2>5, <3>1, CatchesUpMore
    <3>2. CASE x \notin listens
      BY <1>2, <2>1, <2>3, <2>5, <3>2, CatchesUpSame
    <3>. QED
      BY <3>1, <3>2
  <2>6. CASE d \notin profiles
    <3>1. x = d /\ WaitsFor(d) /\ d \notin followed' /\ e = Found(d)
      BY <1>1, <2>2, <2>3, <2>6 DEF Listening
    <3>2. Len(inbox) \in Nat /\ DOMAIN inbox = 1 .. Len(inbox)
      BY InboxType
    <3>3. CASE d \in listens
      <4>1. /\ inbox' \in Seq(Message)
            /\ DOMAIN inbox' = DOMAIN inbox \cup {Len(inbox) + 1} /\ inbox'[Len(inbox) + 1] = e
            /\ \A i \in DOMAIN inbox : inbox'[i] = inbox[i] /\ i < Len(inbox) + 1
        BY <2>3, <3>1, <3>3, MessageAdded
      <4>2. Len(inbox') = Len(inbox) + 1
        BY <4>1, <3>2
      <4>3. ASSUME NEW i \in 0 .. Len(inbox'), Stale(d, i)'
            PROVE  i < Len(inbox) + 1
        <5>1. i # Len(inbox) + 1
          BY <4>1, <4>3, <2>4, <3>2 DEF Stale, None
        <5>. QED
          BY <5>1, <4>2, <3>2
      <4>4. Len(inbox) + 1 \in DOMAIN inbox' /\ inbox'[Len(inbox) + 1] = Found(d)
        BY <4>1, <3>1
      <4>. QED
        BY <4>3, <4>4, <3>1 DEF CatchesUp, Found
    <3>4. CASE d \notin listens
      <4>1. inbox' = inbox
        BY <2>3, <3>1, <3>4
      <4>2. ASSUME NEW i \in 0 .. Len(inbox'), Stale(d, i)' PROVE FALSE
        <5>1. CASE i = 0
          BY <4>2, <5>1, <2>1, <3>1, <3>4 DEF Stale, WaitsFor
        <5>2. CASE i # 0
          <6>1. i \in DOMAIN inbox /\ inbox[i] = None(d)
            BY <4>1, <4>2, <5>2, <3>2 DEF Stale, None
          <6>2. inbox[i].at = d
            BY <6>1 DEF None
          <6>. QED
            BY <6>1, <6>2, <3>1, <3>4 DEF WaitsFor
        <5>. QED
          BY <5>1, <5>2
      <4>. QED
        BY <4>2 DEF CatchesUp
    <3>. QED
      BY <3>3, <3>4
  <2>. QED
    BY <2>5, <2>6
<1>10. CASE UNCHANGED <<serverVars, linkVars, libQ, clientVars, mainQ, queryVars, calls, launches, followed>>
  <2>1. profiles' = profiles /\ inbox' = inbox /\ seen' = seen /\ followed' = followed
    BY <1>10 DEF serverVars, linkVars, clientVars
  <2>. QED
    BY <1>2, <2>1, CatchesUpSame
<1>11. CASE Relaunch
  <2>1. inbox' = <<>> /\ seen'[d] = "unknown"
    BY <1>11, <1>2 DEF Relaunch, serverVars
  <2>2. Len(inbox') = 0
    BY <2>1
  <2>3. \A i \in 0 .. Len(inbox') : ~Stale(d, i)'
    BY <2>1, <2>2 DEF Stale
  <2>. QED
    BY <2>3 DEF CatchesUp
<1>. QED
  BY <1>3, <1>4, <1>5, <1>6, <1>7, <1>8, <1>9, <1>10, <1>11
     DEF MapNext, Library, Environment

(* On the way to the map.                                                  *)

\* Newer positions of a driver are on their way to the client.
Ahead(d) == \E k \in DOMAIN inbox : inbox[k].at = Places /\ d \in inbox[k].keys

\* The main queue has something to do for the driver, the client has, or the
\* driver has its pin.
InMain(d) ==
    \/ Value \in Held(mainQ)
    \/ \E q \in DOMAIN queries : Added(q, d) \in Held(mainQ) /\ d \notin queries[q]
    \/ Entered(d) \in Held(mainQ)
    \/ User(d, TRUE) \in Held(mainQ)
InClient(d) ==
    \/ \E q \in DOMAIN queries : Call("query", q) \in Held(libQ)
    \/ Call("read", d) \in Held(libQ)
    \/ waiting[d] > 0
OnItsWay(d) == InMain(d) \/ InClient(d) \/ d \in Pins

Followed == \A d \in Near \cap followed : Ahead(d) \/ (loaded /\ d \in cache /\ OnItsWay(d))

\* The steps of the client.
LEMMA ClientMoves ==
    ASSUME Typed, QueriesFresh, ReadsCounted, SeenRight, Positions, Overtaken,
           NEW d \in Near \cap followed, d \in cache, OnItsWay(d),
           Observe \/ RegisterQuery \/ Read \/ Unread \/ DeliverUser
    PROVE  Ahead(d)' \/ OnItsWay(d)'
<1>1. /\ mainQ \in Seq(Block) /\ libQ \in Seq(Task) /\ d \in Drivers /\ d \in profiles
      /\ reads \in [Drivers -> Nat] /\ waiting \in [Drivers -> Nat]
      /\ seen \in [Drivers -> {"unknown", "none", "profile"}]
  BY Types
<1>2. queries' = queries /\ annotations' = annotations
  BY DEF Observe, RegisterQuery, Read, Unread, DeliverUser, queryVars
<1>3. ASSUME NEW B, Grows(mainQ', mainQ, Block, B) PROVE Held(mainQ) \subseteq Held(mainQ')
  BY <1>1, <1>3, GrowsHeld
<1>4. d \in Pins => OnItsWay(d)'
  BY <1>2 DEF OnItsWay, Pins
<1>5. ASSUME Held(mainQ) \subseteq Held(mainQ'), InMain(d) PROVE OnItsWay(d)'
  <2>1. InMain(d)'
    BY <1>2, <1>5 DEF InMain
  <2>. QED
    BY <2>1 DEF OnItsWay
<1>6. ASSUME \A q \in DOMAIN queries : Call("query", q) \in Held(libQ) => Call("query", q) \in Held(libQ'),
             Call("read", d) \in Held(libQ) => Call("read", d) \in Held(libQ'),
             waiting[d] > 0 => waiting'[d] > 0, InClient(d)
      PROVE  OnItsWay(d)'
  <2>1. InClient(d)'
    BY <1>2, <1>6 DEF InClient
  <2>. QED
    BY <2>1 DEF OnItsWay
\* What the client knows of a driver that positions followed is old only with
\* newer positions on their way.
<1>7. ASSUME NEW i \in 0 .. Len(inbox), Stale(d, i)
      PROVE  \E k \in DOMAIN inbox : k > i + 1 /\ inbox[k].at = Places /\ d \in inbox[k].keys
  <2>1. PICK j \in DOMAIN inbox :
           i < j /\ \E k \in DOMAIN inbox : j < k /\ inbox[k].at = Places
    BY <1>1, <1>7 DEF Overtaken, CatchesUp
  <2>2. PICK k \in DOMAIN inbox : j < k /\ inbox[k].at = Places
    BY <2>1
  <2>3. d \in inbox[k].keys
    BY <2>2 DEF Positions, Newer
  <2>4. k > i + 1
    BY <2>1, <2>2, InboxType
  <2>. QED
    BY <2>2, <2>3, <2>4
<1>8. ASSUME NEW op, NextTask(op), NEW e, e \in Held(libQ), e.op # op PROVE e \in Held(libQ')
  BY <1>8, TaskTaken
<1>9. CASE Observe
  <2>1. NextTask("observe") /\ waiting' = waiting
    BY <1>9 DEF Observe
  <2>2. \A q : Call("query", q).op # "observe" /\ Call("read", d).op # "observe"
    BY DEF Call
  <2>. QED
    BY <1>3, <1>4, <1>5, <1>6, <1>8, <1>9, <2>1, <2>2, ObserveGrows DEF OnItsWay
<1>10. CASE Unread
  <2>1. NextTask("unread") /\ waiting' = waiting /\ mainQ' = mainQ
    BY <1>10 DEF Unread
  <2>2. \A q : Call("query", q).op # "unread" /\ Call("read", d).op # "unread"
    BY DEF Call
  <2>. QED
    BY <1>4, <1>5, <1>6, <1>8, <2>1, <2>2 DEF OnItsWay
<1>11. CASE RegisterQuery
  <2>1. NextTask("query") /\ waiting' = waiting
    BY <1>11 DEF RegisterQuery, clientVars
  <2>2. PICK r : r = Head(libQ).of
    OBVIOUS
  <2>3. r \in DOMAIN queries /\ Head(libQ) = Call("query", r) /\ Head(libQ) \in Held(libQ)
    BY <2>1, <2>2, TaskTaken
  <2>4. Held(mainQ) \subseteq Held(mainQ') /\ Added(r, d) \in Held(mainQ')
    BY <1>3, <1>11, <2>2, RegisterGrows
  <2>5. d \notin queries[r]
    BY <2>3 DEF QueriesFresh
  <2>6. InMain(d)'
    BY <1>2, <2>3, <2>4, <2>5 DEF InMain
  <2>. QED
    BY <2>6 DEF OnItsWay
<1>12. CASE Read
  <2>1. NextTask("read")
    BY <1>12 DEF Read
  <2>2. PICK x : x = Head(libQ).of
    OBVIOUS
  <2>3. x \in Drivers /\ Head(libQ) = Call("read", x) /\ seen[x] \in {"unknown", "none", "profile"}
    BY <2>1, <2>2, <1>1, TaskTaken, Types
  <2>4. /\ seen[x] # "unknown" => waiting' = waiting
        /\ seen[x] = "unknown" => waiting' = [waiting EXCEPT ![x] = @ + 1]
        /\ inbox' = inbox
    BY <1>12, <2>2 DEF Read
  <2>5. Held(mainQ) \subseteq Held(mainQ')
    <3>1. mainQ' = mainQ \/ \E B : Grows(mainQ', mainQ, Block, B)
      BY <1>12, <2>2, <2>3, ReadGrows
    <3>. QED
      BY <1>3, <3>1
  <2>6. waiting[d] > 0 => waiting'[d] > 0
    <3>1. CASE seen[x] # "unknown"
      BY <2>4, <3>1
    <3>2. CASE seen[x] = "unknown"
      <4>1. waiting[d] \in Nat /\ waiting'[d] = IF d = x THEN waiting[d] + 1 ELSE waiting[d]
        BY <1>1, <2>3, <2>4, <3>2
      <4>. QED
        BY <4>1
    <3>. QED
      BY <3>1, <3>2
  <2>7. \A q : Call("query", q).op # "read"
    BY DEF Call
  <2>8. CASE x # d
    <3>1. Call("read", d) # Head(libQ)
      BY <2>3, <2>8 DEF Call
    <3>2. Call("read", d) \in Held(libQ) => Call("read", d) \in Held(libQ')
      BY <3>1, <2>1, TaskTaken
    <3>. QED
      BY <1>4, <1>5, <1>6, <1>8, <2>1, <2>5, <2>6, <2>7, <3>2 DEF OnItsWay
  <2>9. CASE x = d /\ seen[d] = "unknown"
    <3>1. waiting'[d] > 0
      BY <1>1, <2>4, <2>9
    <3>2. InClient(d)'
      BY <3>1 DEF InClient
    <3>. QED
      BY <3>2 DEF OnItsWay
  <2>10. CASE x = d /\ seen[d] = "profile"
    <3>1. User(d, TRUE) \in Held(mainQ')
      BY <1>12, <2>2, <2>10, ReadGrows
    <3>2. InMain(d)'
      BY <3>1 DEF InMain
    <3>. QED
      BY <3>2 DEF OnItsWay
  <2>11. CASE x = d /\ seen[d] = "none"
    <3>1. 0 \in 0 .. Len(inbox) /\ Stale(d, 0)
      BY <2>11, InboxType DEF Stale
    <3>. QED
      BY <1>7, <2>4, <3>1 DEF Ahead
  <2>. QED
    BY <2>3, <2>8, <2>9, <2>10, <2>11
<1>13. CASE DeliverUser
  <2>1. PICK x : x = Head(inbox).at
    OBVIOUS
  <2>2. /\ x \in Drivers /\ inbox # <<>> /\ inbox' = Tail(inbox) /\ libQ' = libQ
        /\ reads[x] = 0 => waiting' = waiting /\ mainQ' = mainQ
        /\ reads[x] # 0 => waiting' = [waiting EXCEPT ![x] = 0]
    BY <1>13, <2>1 DEF DeliverUser, Answered
  <2>3. Held(mainQ) \subseteq Held(mainQ')
    <3>1. CASE reads[x] = 0
      BY <2>2, <3>1
    <3>2. CASE reads[x] # 0
      BY <1>3, <1>13, <2>1, <3>2, UsersGrow
    <3>. QED
      BY <3>1, <3>2
  <2>4. CASE waiting[d] > 0 => waiting'[d] > 0
    BY <1>4, <1>5, <1>6, <2>2, <2>3, <2>4 DEF OnItsWay
  <2>5. CASE waiting[d] > 0 /\ ~(waiting'[d] > 0)
    <3>1. x = d /\ reads[d] # 0
      BY <1>1, <2>2, <2>5
    <3>2. /\ MessageRight(Head(inbox)) /\ Head(inbox) = inbox[1]
          /\ \A i \in DOMAIN inbox : i = 1 \/ (i - 1 \in DOMAIN inbox' /\ inbox[i] = inbox'[i - 1])
          /\ Len(inbox) \in Nat /\ Len(inbox) >= 1
      BY <2>2, MessageTaken
    <3>3. Head(inbox) = None(d) \/ Head(inbox) = Found(d)
      BY <2>1, <3>1, <3>2, PathsDiffer, <1>1 DEF MessageRight
    <3>4. CASE Head(inbox) = Found(d)
      <4>1. d \in Head(inbox).keys
        BY <3>4 DEF Found
      <4>2. User(d, TRUE) \in Held(mainQ')
        BY <1>13, <2>1, <2>5, <3>1, <4>1, UsersGrow
      <4>3. InMain(d)'
        BY <4>2 DEF InMain
      <4>. QED
        BY <4>3 DEF OnItsWay
    <3>5. CASE Head(inbox) = None(d)
      <4>1. 1 \in 0 .. Len(inbox) /\ Stale(d, 1)
        <5>1. inbox[1] = None(d)
          BY <3>2, <3>5
        <5>2. 1 \in 0 .. Len(inbox)
          BY <3>2
        <5>. QED
          BY <5>1, <5>2 DEF Stale
      <4>2. PICK k \in DOMAIN inbox : k > 1 + 1 /\ inbox[k].at = Places /\ d \in inbox[k].keys
        BY <1>7, <4>1
      <4>3. k # 1
        BY <4>2, InboxType
      <4>4. k - 1 \in DOMAIN inbox' /\ inbox'[k - 1] = inbox[k]
        BY <3>2, <4>2, <4>3
      <4>. QED
        BY <4>2, <4>4 DEF Ahead
    <3>. QED
      BY <3>3, <3>4, <3>5
  <2>. QED
    BY <2>4, <2>5
<1>. QED
  BY <1>9, <1>10, <1>11, <1>12, <1>13

\* The steps of the main queue, and a call of fetchDrivers.
LEMMA MainMoves ==
    ASSUME Typed, NEW d \in Near, OnItsWay(d), Main \/ FetchDrivers
    PROVE  OnItsWay(d)'
<1>1. /\ mainQ \in Seq(Block) /\ libQ \in Seq(Task) /\ d \in Drivers
  BY Types
<1>2. waiting' = waiting
  BY DEF Main, HandleValue, HandleInitial, HandleAdded, HandleEntered, HandleUser, FetchDrivers, clientVars
<1>3. ASSUME NEW B, Grows(libQ', libQ, Task, B), DOMAIN queries \subseteq DOMAIN queries', InClient(d)
      PROVE  OnItsWay(d)'
  <2>1. Held(libQ) \subseteq Held(libQ')
    BY <1>1, <1>3, GrowsHeld
  <2>2. InClient(d)'
    BY <1>2, <1>3, <2>1 DEF InClient
  <2>. QED
    BY <2>2 DEF OnItsWay
<1>4. ASSUME annotations' = annotations, d \in Pins PROVE OnItsWay(d)'
  BY <1>4 DEF OnItsWay, Pins
\* A block other than the one that ran is still there.
<1>5. ASSUME queries' = queries, InMain(d),
             Value \in Held(mainQ) => Value \in Held(mainQ'),
             \A q \in DOMAIN queries : Added(q, d) \in Held(mainQ) => Added(q, d) \in Held(mainQ'),
             Entered(d) \in Held(mainQ) => Entered(d) \in Held(mainQ'),
             User(d, TRUE) \in Held(mainQ) => User(d, TRUE) \in Held(mainQ')
      PROVE  OnItsWay(d)'
  <2>1. InMain(d)'
    BY <1>5 DEF InMain
  <2>. QED
    BY <2>1 DEF OnItsWay
<1>6. ASSUME NEW kind, RunBlock(kind), NEW e \in Held(mainQ), e.kind # kind PROVE e \in Held(Tail(mainQ))
  BY <1>6, BlockTaken
<1>7. /\ Value.kind = "value" /\ \A q : Added(q, d).kind = "added"
      /\ Entered(d).kind = "entered" /\ User(d, TRUE).kind = "user"
  BY DEF Value, Added, Entered, User
<1>8. CASE FetchDrivers
  <2>1. mainQ' = mainQ /\ queries' = queries /\ annotations' = annotations
    BY <1>8 DEF FetchDrivers, queryVars
  <2>2. InClient(d) => OnItsWay(d)'
    BY <1>3, <1>8, <2>1, FetchSteps
  <2>3. InMain(d) => OnItsWay(d)'
    BY <1>5, <2>1
  <2>. QED
    BY <1>4, <2>1, <2>2, <2>3 DEF OnItsWay
<1>9. CASE HandleValue
  <2>1. PICK q : q = Len(queries) + 1
    OBVIOUS
  <2>2. Call("query", q) \in Held(libQ') /\ q \in DOMAIN queries'
    BY <1>9, <2>1, ValueSteps
  <2>3. InClient(d)'
    BY <2>2 DEF InClient
  <2>. QED
    BY <2>3 DEF OnItsWay
<1>10. CASE HandleInitial
  <2>1. /\ RunBlock("initial") /\ mainQ' = Tail(mainQ) /\ queries' = queries /\ annotations' = annotations
        /\ Report(queries[Head(mainQ).q] \cap Near)
    BY <1>10 DEF HandleInitial
  <2>2. InClient(d) => OnItsWay(d)'
    <3>1. PICK keys \in SUBSET Near : Report(keys)
      BY <2>1
    <3>. QED
      BY <1>3, <2>1, <3>1, ReportGrows
  <2>4. ASSUME NEW e \in Held(mainQ), e.kind # "initial" PROVE e \in Held(mainQ')
    BY <1>6, <2>1, <2>4
  <2>3. InMain(d) => OnItsWay(d)'
    BY <1>5, <1>7, <2>1, <2>4
  <2>. QED
    BY <1>4, <2>1, <2>2, <2>3 DEF OnItsWay
<1>11. CASE HandleEntered
  <2>1. PICK x : x = Head(mainQ).of
    OBVIOUS
  <2>2. /\ RunBlock("entered") /\ mainQ' = Tail(mainQ) /\ queries' = queries /\ annotations' = annotations
        /\ Report({x})
    BY <1>11, <2>1 DEF HandleEntered
  <2>3. x \in Near /\ Head(mainQ) = Entered(x) /\ {x} \in SUBSET Near
    BY <2>1, <2>2, BlockTaken
  <2>4. InClient(d) => OnItsWay(d)'
    BY <1>3, <2>2, <2>3, ReportGrows
  <2>5. CASE x = d
    <3>1. Call("read", d) \in Held(libQ')
      BY <2>2, <2>3, <2>5, ReportGrows
    <3>2. InClient(d)'
      BY <3>1 DEF InClient
    <3>. QED
      BY <3>2 DEF OnItsWay
  <2>6. CASE x # d
    <3>1. Entered(d) # Head(mainQ)
      BY <2>3, <2>6 DEF Entered
    <3>2. Entered(d) \in Held(mainQ) => Entered(d) \in Held(mainQ')
      BY <3>1, <2>2, BlockTaken
    <3>3. InMain(d) => OnItsWay(d)'
      BY <1>5, <1>6, <1>7, <2>2, <3>2
    <3>. QED
      BY <1>4, <2>2, <2>4, <3>3 DEF OnItsWay
  <2>. QED
    BY <2>5, <2>6
<1>12. CASE HandleUser
  <2>1. PICK x : x = Head(mainQ).of
    OBVIOUS
  <2>2. /\ RunBlock("user") /\ mainQ' = Tail(mainQ) /\ queries' = queries
        /\ annotations' = IF Head(mainQ).found /\ x \notin Pins THEN Append(annotations, x) ELSE annotations
    BY <1>12, <2>1 DEF HandleUser, DriverIsVisible
  <2>3. x \in Near /\ Head(mainQ) \in Users(x)
        /\ (Head(mainQ).found <=> Head(mainQ) = User(x, TRUE))
    BY <2>1, <2>2, BlockTaken
  <2>4. InClient(d) => OnItsWay(d)'
    BY <1>3, <1>12, <2>1, <2>2, UserSteps
  <2>5. Pins \subseteq Pins' /\ (Head(mainQ) = User(x, TRUE) => x \in Pins')
    <3>1. annotations \in Seq(Drivers) /\ x \in Drivers
      BY <2>3, Types
    <3>2. CASE Head(mainQ).found /\ x \notin Pins
      <4>1. annotations' = Append(annotations, x)
        BY <2>2, <3>2
      <4>2. /\ DOMAIN annotations' = DOMAIN annotations \cup {Len(annotations) + 1}
            /\ annotations'[Len(annotations) + 1] = x
            /\ \A i \in DOMAIN annotations : annotations'[i] = annotations[i]
        BY <3>1, <4>1
      <4>. QED
        BY <4>2 DEF Pins
    <3>3. CASE ~(Head(mainQ).found /\ x \notin Pins)
      <4>1. annotations' = annotations
        BY <2>2, <3>3
      <4>2. Pins' = Pins
        BY <4>1 DEF Pins
      <4>. QED
        BY <2>3, <3>3, <4>2
    <3>. QED
      BY <3>2, <3>3
  <2>6. CASE Head(mainQ) = User(d, TRUE)
    <3>1. x = d
      BY <2>1, <2>6 DEF User
    <3>. QED
      BY <2>5, <2>6, <3>1 DEF OnItsWay
  <2>7. CASE Head(mainQ) # User(d, TRUE)
    <3>1. User(d, TRUE) \in Held(mainQ) => User(d, TRUE) \in Held(mainQ')
      BY <2>2, <2>7, BlockTaken
    <3>2. InMain(d) => OnItsWay(d)'
      BY <1>5, <1>6, <1>7, <2>2, <3>1
    <3>. QED
      BY <2>4, <2>5, <3>2 DEF OnItsWay
  <2>. QED
    BY <2>6, <2>7
<1>13. CASE HandleAdded
  <2>1. PICK r : r = Head(mainQ).q
    OBVIOUS
  <2>2. PICK x : x = Head(mainQ).of
    OBVIOUS
  <2>3. /\ r \in DOMAIN queries /\ Head(mainQ) = Added(r, x) /\ DOMAIN queries' = DOMAIN queries
        /\ queries'[r] = queries[r] \cup {x}
        /\ \A i \in DOMAIN queries : i # r => queries'[i] = queries[i]
    BY <1>13, <2>1, <2>2, AddedSteps
  <2>4. RunBlock("added") /\ libQ' = libQ /\ annotations' = annotations
    BY <1>13 DEF HandleAdded
  <2>5. PICK t : t = Tail(mainQ)
    OBVIOUS
  <2>6. t \in Seq(Block) /\ Held(t) \subseteq Held(mainQ')
    <3>1. t \in Seq(Block)
      BY <2>4, <2>5, BlockTaken
    <3>2. mainQ' = t \/ Grows(mainQ', t, Block, {Entered(x)})
      BY <1>13, <2>1, <2>2, <2>5, AddedSteps
    <3>. QED
      BY <3>1, <3>2, GrowsHeld
  <2>7. InClient(d) => OnItsWay(d)'
    <3>1. InClient(d) => InClient(d)'
      BY <1>2, <2>3, <2>4 DEF InClient
    <3>. QED
      BY <3>1 DEF OnItsWay
  <2>8. CASE x = d /\ d \notin queries[r]
    <3>1. Entered(d) \in Held(mainQ')
      BY <1>13, <2>1, <2>2, <2>8, AddedSteps
    <3>2. InMain(d)'
      BY <3>1 DEF InMain
    <3>. QED
      BY <3>2 DEF OnItsWay
  <2>9. CASE ~(x = d /\ d \notin queries[r])
    <3>1. ASSUME NEW q \in DOMAIN queries, Added(q, d) \in Held(mainQ), d \notin queries[q]
          PROVE  Added(q, d) \in Held(mainQ') /\ d \notin queries'[q]
      <4>1. Added(q, d) # Head(mainQ)
        BY <2>3, <2>9, <3>1 DEF Added
      <4>2. Added(q, d) \in Held(mainQ')
        BY <4>1, <3>1, <2>4, <2>5, <2>6, BlockTaken
      <4>3. d \notin queries'[q]
        BY <2>3, <2>9, <3>1
      <4>. QED
        BY <4>2, <4>3
    <3>2. ASSUME NEW e \in Held(mainQ), e.kind # "added" PROVE e \in Held(mainQ')
      BY <1>6, <2>4, <2>5, <2>6, <3>2
    <3>3. InMain(d) => InMain(d)'
      BY <1>7, <2>3, <3>1, <3>2 DEF InMain
    <3>. QED
      BY <1>4, <2>4, <2>7, <3>3 DEF OnItsWay
  <2>. QED
    BY <2>8, <2>9
<1>. QED
  BY <1>8, <1>9, <1>10, <1>11, <1>12, <1>13 DEF Main

\* Every step keeps a driver that positions followed on its way to the map.
LEMMA FollowedStep ==
    ASSUME Typed, QueriesFresh, ReadsCounted, SeenRight, Positions, Overtaken, Followed, MapNext
    PROVE  Followed'
<1>. SUFFICES ASSUME NEW d \in Near \cap followed'
              PROVE  Ahead(d)' \/ (loaded' /\ d \in cache' /\ OnItsWay(d)')
  BY DEF Followed
<1>1. /\ followed \subseteq profiles /\ profiles \subseteq located /\ inbox \in Seq(Message)
      /\ Len(inbox) \in Nat /\ DOMAIN inbox = 1 .. Len(inbox)
  BY Types, InboxType
<1>2. d \in followed => Ahead(d) \/ (loaded /\ d \in cache /\ OnItsWay(d))
  BY DEF Followed
\* The server adds to the connection and to nothing else.
<1>3. ASSUME NEW e \in Message, inbox' = Append(inbox, e), Ahead(d) PROVE Ahead(d)'
  <2>1. /\ DOMAIN inbox \subseteq DOMAIN inbox' /\ \A i \in DOMAIN inbox : inbox'[i] = inbox[i]
    BY <1>3, MessageAdded
  <2>. QED
    BY <1>3, <2>1 DEF Ahead
<1>4. ASSUME NEW e \in Message, inbox' = Append(inbox, e), e.at = Places, d \in e.keys PROVE Ahead(d)'
  <2>1. Len(inbox) + 1 \in DOMAIN inbox' /\ inbox'[Len(inbox) + 1] = e
    BY <1>4, MessageAdded
  <2>. QED
    BY <1>4, <2>1 DEF Ahead
<1>5. ASSUME mainQ' = mainQ, libQ' = libQ, queries' = queries, annotations' = annotations,
             waiting' = waiting, loaded' = loaded, cache' = cache
      PROVE  (loaded /\ d \in cache /\ OnItsWay(d)) => (loaded' /\ d \in cache' /\ OnItsWay(d)')
  BY <1>5 DEF OnItsWay, InMain, InClient, Pins
<1>6. ASSUME inbox' = inbox, Ahead(d) PROVE Ahead(d)'
  BY <1>6 DEF Ahead
<1>7. CASE Server
  <2>1. PICK path \in Path : ServerListen(path)
    BY <1>7 DEF Server
  <2>2. PICK e : e = [at |-> path, keys |-> Data(path)]
    OBVIOUS
  <2>3. /\ e \in Message /\ inbox' = Append(inbox, e) /\ e.at = path
        /\ path = Places => e.keys = located /\ followed' = profiles
        /\ path # Places => followed' = followed
    BY <2>1, <2>2, ListenSteps
  <2>4. CASE path = Places
    BY <1>1, <1>4, <2>3, <2>4
  <2>5. CASE path # Places
    <3>1. /\ mainQ' = mainQ /\ libQ' = libQ /\ queries' = queries /\ annotations' = annotations
          /\ waiting' = waiting /\ loaded' = loaded /\ cache' = cache
      BY <2>1 DEF ServerListen, queryVars, clientVars
    <3>. QED
      BY <1>2, <1>3, <1>5, <2>3, <2>5, <3>1
  <2>. QED
    BY <2>4, <2>5
<1>8. ASSUME NEW x \in Drivers, DriverLocated(x)
      PROVE  Ahead(d)' \/ (loaded' /\ d \in cache' /\ OnItsWay(d)')
  <2>2. PICK e : e = [at |-> Places, keys |-> located \cup {x}]
    OBVIOUS
  <2>3. /\ e \in Message /\ e.at = Places /\ e.keys = located \cup {x}
        /\ Places \in listens => inbox' = Append(inbox, e) /\ followed' = profiles
        /\ Places \notin listens => inbox' = inbox /\ followed' = followed
    BY <1>8, <2>2, LocatedSteps
  <2>4. CASE Places \in listens
    BY <1>1, <1>4, <2>3, <2>4
  <2>5. CASE Places \notin listens
    <3>1. /\ mainQ' = mainQ /\ libQ' = libQ /\ queries' = queries /\ annotations' = annotations
          /\ waiting' = waiting /\ loaded' = loaded /\ cache' = cache
      BY <1>8 DEF DriverLocated, queryVars, clientVars
    <3>. QED
      BY <1>2, <1>5, <1>6, <2>3, <2>5, <3>1
  <2>. QED
    BY <2>4, <2>5
<1>9. ASSUME NEW x \in Drivers, DriverUploaded(x)
      PROVE  Ahead(d)' \/ (loaded' /\ d \in cache' /\ OnItsWay(d)')
  <2>2. PICK e : e = Found(x)
    OBVIOUS
  <2>3. /\ e \in Message /\ followed' = followed
        /\ inbox' = inbox \/ inbox' = Append(inbox, e)
    BY <1>9, <2>2, UploadedSteps
  <2>4. /\ mainQ' = mainQ /\ libQ' = libQ /\ queries' = queries /\ annotations' = annotations
        /\ waiting' = waiting /\ loaded' = loaded /\ cache' = cache
    BY <1>9 DEF DriverUploaded, queryVars, clientVars
  <2>. QED
    BY <1>2, <1>3, <1>5, <1>6, <2>3, <2>4
<1>10. CASE UNCHANGED <<serverVars, linkVars, libQ, clientVars, mainQ, queryVars, calls, launches, followed>>
  <2>1. /\ mainQ' = mainQ /\ libQ' = libQ /\ queries' = queries /\ annotations' = annotations
        /\ waiting' = waiting /\ loaded' = loaded /\ cache' = cache
        /\ inbox' = inbox /\ followed' = followed
    BY <1>10 DEF linkVars, clientVars, queryVars
  <2>. QED
    BY <1>2, <1>5, <1>6, <2>1
<1>11. CASE Relaunch
  BY <1>11 DEF Relaunch
\* The client and the main queue.
<1>12. CASE Main \/ FetchDrivers
  <2>1. inbox' = inbox /\ loaded' = loaded /\ cache' = cache /\ followed' = followed
    BY <1>12 DEF Main, HandleValue, HandleInitial, HandleAdded, HandleEntered, HandleUser, FetchDrivers,
       clientVars, linkVars
  <2>2. d \in Near
    OBVIOUS
  <2>. QED
    BY <1>2, <1>6, <1>12, <2>1, <2>2, MainMoves
<1>13. CASE Observe \/ RegisterQuery \/ Read \/ Unread \/ DeliverUser
  <2>1. loaded' = loaded /\ cache' = cache /\ followed' = followed
    BY <1>13 DEF Observe, RegisterQuery, Read, Unread, DeliverUser, clientVars
  <2>2. ASSUME Ahead(d) PROVE Ahead(d)'
    <3>1. CASE DeliverUser
      <4>1. inbox # <<>> /\ inbox' = Tail(inbox) /\ Head(inbox).at \in Drivers
        BY <3>1 DEF DeliverUser
      <4>2. /\ Head(inbox) = inbox[1]
            /\ \A i \in DOMAIN inbox : i = 1 \/ (i - 1 \in DOMAIN inbox' /\ inbox[i] = inbox'[i - 1])
        BY <4>1, MessageTaken
      <4>3. PICK k \in DOMAIN inbox : inbox[k].at = Places /\ d \in inbox[k].keys
        BY <2>2 DEF Ahead
      <4>4. k # 1
        BY <4>1, <4>2, <4>3, PathsDiffer
      <4>5. k - 1 \in DOMAIN inbox' /\ inbox'[k - 1].at = Places /\ d \in inbox'[k - 1].keys
        BY <4>2, <4>3, <4>4
      <4>. QED
        BY <4>5 DEF Ahead
    <3>2. CASE ~DeliverUser
      <4>1. inbox' = inbox
        BY <1>13, <3>2 DEF Observe, RegisterQuery, Read, Unread, linkVars
      <4>. QED
        BY <1>6, <2>2, <4>1
    <3>. QED
      BY <3>1, <3>2
  <2>3. ASSUME loaded, d \in cache, OnItsWay(d)
        PROVE  Ahead(d)' \/ (loaded' /\ d \in cache' /\ OnItsWay(d)')
    <3>1. d \in Near \cap followed
      BY <2>1
    <3>. QED
      BY <1>13, <2>1, <2>3, <3>1, ClientMoves
  <2>. QED
    BY <1>2, <2>1, <2>2, <2>3
<1>14. CASE DeliverLocations
  <2>1. /\ inbox # <<>> /\ inbox' = Tail(inbox) /\ Head(inbox).at = Places
        /\ loaded' = TRUE /\ cache' = Head(inbox).keys
        /\ followed' = followed /\ libQ' = libQ /\ queries' = queries /\ annotations' = annotations
        /\ waiting' = waiting
    BY <1>14 DEF DeliverLocations, Places, queryVars
  <2>2. /\ Head(inbox) = inbox[1] /\ Len(inbox) >= 1
        /\ \A i \in DOMAIN inbox : i = 1 \/ (i - 1 \in DOMAIN inbox' /\ inbox[i] = inbox'[i - 1])
    BY <2>1, MessageTaken
  <2>3. 1 \in DOMAIN inbox /\ inbox[1].at = Places
    BY <1>1, <2>1, <2>2
  <2>4. cache \subseteq cache' /\ (loaded => cache # cache')
    BY <2>1, <2>2, <2>3 DEF Positions, Newer
  <2>5. regs > 0
    <3>1. regs # 0 /\ regs \in Nat
      BY <2>3, Types DEF Positions
    <3>. QED
      BY <3>1
  <2>6. Value \in Held(mainQ')
    BY <1>14, <2>4, <2>5, LocationsGrow
  <2>7. OnItsWay(d)'
    BY <2>6 DEF OnItsWay, InMain
  <2>8. ASSUME Ahead(d) PROVE Ahead(d)' \/ d \in cache'
    <3>1. PICK k \in DOMAIN inbox : inbox[k].at = Places /\ d \in inbox[k].keys
      BY <2>8 DEF Ahead
    <3>2. CASE k = 1
      BY <2>1, <2>2, <3>1, <3>2
    <3>3. CASE k # 1
      <4>1. k - 1 \in DOMAIN inbox' /\ inbox'[k - 1].at = Places /\ d \in inbox'[k - 1].keys
        BY <2>2, <3>1, <3>3
      <4>. QED
        BY <4>1 DEF Ahead
    <3>. QED
      BY <3>2, <3>3
  <2>. QED
    BY <1>2, <2>1, <2>4, <2>7, <2>8
<1>. QED
  BY <1>7, <1>8, <1>9, <1>10, <1>11, <1>12, <1>13, <1>14
     DEF MapNext, Library, Environment

\* A launch with the right to locate starts the updates.
Launched == atLaunch \in Authorized => updating

\* Only a launch starts the updates.
LEMMA LaunchedStep ==
    ASSUME Launched, MapNext
    PROVE  Launched'
<1>1. CASE Relaunch
  BY <1>1 DEF Relaunch, EnableLocationServices, StartsUpdates, Launched, Authorized
<1>2. CASE ~Relaunch
  <2>1. atLaunch' = atLaunch /\ updating' = updating
    BY <1>2 DEF MapNext, Environment, Server, Library, Main, Observe, RegisterQuery, Read, Unread,
       DeliverLocations, DeliverUser, FetchDrivers, HandleValue, HandleInitial, HandleAdded,
       HandleEntered, HandleUser, DriverLocated, DriverUploaded, ServerListen, LocationFix,
       LocationManagerDidChangeAuthorization, locationVars
  <2>. QED
    BY <2>1 DEF Launched, Authorized
<1>. QED
  BY <1>1, <1>2

\* Only the closure of fetchUserData adds a pin.
LEMMA PinsStep ==
    ASSUME Typed, PinsAreDrivers, MapNext
    PROVE  PinsAreDrivers'
<1>1. annotations \in Seq(Drivers) /\ Len(annotations) \in Nat /\ DOMAIN annotations = 1 .. Len(annotations)
  <2>1. annotations \in Seq(Drivers)
    BY Types
  <2>. QED
    BY <2>1
<1>2. profiles \subseteq profiles'
  BY DEF MapNext, Environment, Server, ServerListen, Library, Main, Observe, RegisterQuery, Read, Unread,
     DeliverLocations, DeliverUser, HandleValue, HandleInitial, HandleAdded, HandleEntered, HandleUser,
     FetchDrivers, Relaunch, DriverLocated, DriverUploaded, serverVars
<1>3. CASE annotations' = annotations
  BY <1>2, <1>3 DEF PinsAreDrivers, Pins
<1>4. CASE HandleUser
  <2>1. PICK x : x = Head(mainQ).of
    OBVIOUS
  <2>2. /\ RunBlock("user")
        /\ annotations' = IF Head(mainQ).found /\ x \notin Pins THEN Append(annotations, x) ELSE annotations
    BY <1>4, <2>1 DEF HandleUser, DriverIsVisible
  <2>3. x \in Near /\ (Head(mainQ).found => x \in profiles)
    BY <2>1, <2>2, BlockTaken
  <2>4. CASE Head(mainQ).found /\ x \notin Pins
    <3>1. annotations' = Append(annotations, x)
      BY <2>2, <2>4
    <3>2. PICK n : n = Len(annotations) + 1
      OBVIOUS
    <3>3. /\ DOMAIN annotations' = DOMAIN annotations \cup {n}
          /\ annotations'[n] = x /\ n \notin DOMAIN annotations
          /\ \A i \in DOMAIN annotations : annotations'[i] = annotations[i]
      BY <1>1, <3>1, <3>2
    <3>4. \A i \in DOMAIN annotations : annotations[i] # x
      BY <2>4 DEF Pins
    <3>5. \A i, j \in DOMAIN annotations' : annotations'[i] = annotations'[j] => i = j
      BY <3>3, <3>4 DEF PinsAreDrivers
    <3>6. Pins' = Pins \cup {x}
      BY <3>3 DEF Pins
    <3>. QED
      BY <1>2, <2>3, <2>4, <3>5, <3>6 DEF PinsAreDrivers
  <2>5. CASE ~(Head(mainQ).found /\ x \notin Pins)
    BY <1>3, <2>2, <2>5
  <2>. QED
    BY <2>4, <2>5
<1>5. CASE Relaunch
  <2>1. annotations' = <<>>
    BY <1>5 DEF Relaunch
  <2>2. DOMAIN annotations' = {}
    BY <2>1
  <2>. QED
    BY <2>2 DEF PinsAreDrivers, Pins
<1>6. annotations' = annotations \/ HandleUser \/ Relaunch
  BY DEF MapNext, Environment, Server, ServerListen, Library, Main, Observe, RegisterQuery, Read, Unread,
     DeliverLocations, DeliverUser, HandleValue, HandleInitial, HandleAdded, HandleEntered,
     FetchDrivers, DriverLocated, DriverUploaded, queryVars
<1>. QED
  BY <1>3, <1>4, <1>5, <1>6

-----------------------------------------------------------------------------
\* All of it together.
MapInv ==
    /\ Typed /\ ReadsCounted /\ RegsCounted /\ SeenRight
    /\ QueriesFresh /\ Reported
    /\ Positions /\ Listening /\ Overtaken /\ Followed
    /\ PinsAreDrivers /\ Launched

\* The invariant holds at first, ...
LEMMA MapStarts == MapInit => MapInv
<1>. SUFFICES ASSUME MapInit PROVE MapInv
  OBVIOUS
<1>1. /\ asks = {} /\ listens = {} /\ inbox = <<>> /\ libQ = <<>> /\ mainQ = <<>>
      /\ regs = 0 /\ loaded = FALSE /\ cache = {}
      /\ queries = <<>> /\ annotations = <<>> /\ calls = 0 /\ launches = 0 /\ followed = {}
  BY DEF MapInit
<1>2. \A d \in Drivers : reads[d] = 0 /\ waiting[d] = 0 /\ seen[d] = "unknown" /\ entered[d] = 0
  BY DEF MapInit
<1>3. /\ Held(inbox) = {} /\ Held(libQ) = {} /\ Held(mainQ) = {}
      /\ \A S : Count(libQ, S) = 0 /\ Count(mainQ, S) = 0
  BY <1>1, Nothing
<1>4. /\ DOMAIN inbox = {} /\ DOMAIN queries = {} /\ DOMAIN annotations = {} /\ DOMAIN mainQ = {}
      /\ Len(inbox) = 0 /\ Len(mainQ) = 0
  BY <1>1
<1>5. MapTypeOK
  <2>1. LocationTypeOK
    <3>1. LocationInit
      BY DEF MapInit
    <3>2. \A s \in Authorization : Asks(s) \in {"none", "whenInUse", "always"} /\ StartsUpdates(s) \in BOOLEAN
      BY DEF Authorization, Asks, StartsUpdates
    <3>. QED
      <4>1. prompt \in {"none", "whenInUse", "always"} /\ updating \in BOOLEAN /\ auth \in Authorization
        BY <3>1, <3>2 DEF LocationInit
      <4>2. changes \in 0 .. MaxChanges
        BY <3>1, ChangesAssumption DEF LocationInit
      <4>. QED
        BY <3>1, <4>1, <4>2 DEF LocationInit, LocationTypeOK
  <2>2. profiles \subseteq located /\ located \subseteq Drivers
    BY DEF MapInit
  <2>3. inbox \in Seq(Message) /\ libQ \in Seq(Task) /\ mainQ \in Seq(Block)
        /\ queries \in Seq(SUBSET located) /\ annotations \in Seq(Drivers)
    BY <1>1
  <2>4. /\ reads \in [Drivers -> Nat] /\ waiting \in [Drivers -> Nat] /\ entered \in [Drivers -> Nat]
        /\ seen \in [Drivers -> {"unknown", "none", "profile"}]
    BY DEF MapInit
  <2>5. regs \in 0 .. MaxCalls /\ calls \in 0 .. MaxCalls /\ launches \in 0 .. MaxLaunches
    BY <1>1, CallsAssumption
  <2>. QED
    BY <1>1, <2>1, <2>2, <2>3, <2>4, <2>5 DEF MapTypeOK
<1>6. QueuesRight
  BY <1>3 DEF QueuesRight
<1>7. ReadsCounted /\ RegsCounted /\ SeenRight
  BY <1>1, <1>2, <1>3 DEF ReadsCounted, RegsCounted, SeenRight
<1>8. QueriesFresh
  BY <1>4 DEF QueriesFresh, InOrder
<1>9. Reported
  <2>1. ASSUME NEW d \in Drivers PROVE entered[d] + Count(mainQ, {Entered(d)}) <= Cardinality(Reporters(d))
    <3>1. Reporters(d) = {}
      BY <1>4 DEF Reporters
    <3>2. Cardinality(Reporters(d)) = 0
      BY <3>1, FS_EmptySet
    <3>. QED
      BY <1>2, <1>3, <3>2
  <2>. QED
    BY <2>1 DEF Reported
<1>10. Positions /\ Followed
  BY <1>1, <1>4 DEF Positions, Newer, Followed
<1>11. Listening
  BY <1>1, <1>2, <1>4 DEF Listening, WaitsFor
<1>12. Overtaken
  <2>1. profiles \subseteq Drivers
    BY DEF MapInit
  <2>2. ASSUME NEW d \in profiles, NEW i \in 0 .. Len(inbox) PROVE ~Stale(d, i)
    BY <1>2, <1>4, <2>1 DEF Stale
  <2>. QED
    BY <2>2 DEF Overtaken, CatchesUp
<1>13. PinsAreDrivers
  BY <1>4 DEF PinsAreDrivers, Pins
<1>14. Launched
  BY DEF Launched, MapInit, LocationInit, StartsUpdates
<1>. QED
  BY <1>5, <1>6, <1>7, <1>8, <1>9, <1>10, <1>11, <1>12, <1>13, <1>14 DEF MapInv, Typed

\* ... every step keeps it, ...
LEMMA MapSteps ==
    ASSUME MapInv, [MapNext]_annotationVars
    PROVE  MapInv'
<1>1. CASE MapNext
  <2>1. /\ Typed /\ ReadsCounted /\ RegsCounted /\ SeenRight /\ QueriesFresh /\ Reported
        /\ Positions /\ Listening /\ Overtaken /\ Followed /\ PinsAreDrivers /\ Launched
    BY DEF MapInv
  <2>2. \A d \in Drivers : seen[d] = "profile" => d \in profiles
    BY <2>1 DEF SeenRight
  <2>3. MapTypeOK' /\ QueuesRight'
    BY <1>1, <2>1, <2>2, TypeStep, QueuesStep
  <2>4. ReadsCounted' /\ RegsCounted' /\ SeenRight'
    BY <1>1, <2>1, ReadsStep, RegsStep, SeenStep
  <2>5. QueriesFresh' /\ Reported'
    BY <1>1, <2>1, <2>3, FreshStep, ReportedStep
  <2>6. Positions' /\ Listening' /\ Overtaken' /\ Followed'
    BY <1>1, <2>1, PositionsStep, ListeningStep, OvertakenStep, FollowedStep
  <2>7. PinsAreDrivers' /\ Launched'
    BY <1>1, <2>1, PinsStep, LaunchedStep
  <2>. QED
    BY <2>3, <2>4, <2>5, <2>6, <2>7 DEF MapInv, Typed
<1>2. CASE UNCHANGED annotationVars
  <2>1. /\ UNCHANGED locationVars /\ UNCHANGED <<located, profiles, asks, listens, inbox, libQ>>
        /\ UNCHANGED <<regs, loaded, cache, reads, waiting, seen, mainQ, queries, annotations>>
        /\ UNCHANGED <<entered, calls, launches, followed>>
    BY <1>2 DEF annotationVars, serverVars, linkVars, clientVars, queryVars
  <2>2. /\ Typed /\ ReadsCounted /\ RegsCounted /\ SeenRight /\ QueriesFresh /\ Reported
        /\ Positions /\ Listening /\ Overtaken /\ Followed /\ PinsAreDrivers /\ Launched
    BY DEF MapInv
  <2>3. MapTypeOK'
    BY <2>1, <2>2 DEF Typed, MapTypeOK, LocationTypeOK, locationVars
  <2>4. QueuesRight'
    BY <2>1, <2>2 DEF Typed, QueuesRight, MessageRight, TaskRight, BlockRight
  <2>5. ReadsCounted' /\ RegsCounted' /\ SeenRight'
    BY <2>1, <2>2 DEF ReadsCounted, RegsCounted, SeenRight
  <2>6. QueriesFresh' /\ Reported'
    BY <2>1, <2>2 DEF QueriesFresh, Reported, Reporters
  <2>7. Positions' /\ Listening'
    BY <2>1, <2>2 DEF Positions, Newer, Listening, WaitsFor
  <2>8. Overtaken'
    BY <2>1, <2>2 DEF Overtaken, CatchesUp, Stale
  <2>9. Followed'
    BY <2>1, <2>2 DEF Followed, Ahead, OnItsWay, InMain, InClient, Pins
  <2>10. PinsAreDrivers' /\ Launched'
    BY <2>1, <2>2 DEF PinsAreDrivers, Pins, Launched, locationVars
  <2>. QED
    BY <2>3, <2>4, <2>5, <2>6, <2>7, <2>8, <2>9, <2>10 DEF MapInv, Typed
<1>. QED
  BY <1>1, <1>2

\* ... and it says that the map agrees with the server.
LEMMA MapAgrees == MapInv => MapConsistent
<1>. SUFFICES ASSUME MapInv PROVE MapConsistent
  OBVIOUS
<1>1. /\ Typed /\ ReadsCounted /\ SeenRight /\ Reported /\ Followed /\ PinsAreDrivers /\ Launched
  BY DEF MapInv
<1>2. MissingIsNewest
  <2>. SUFFICES ASSUME Quiet, NEW d \in Near \cap followed PROVE d \in Pins
    BY DEF MissingIsNewest
  <2>1. asks = {} /\ inbox = <<>> /\ libQ = <<>> /\ mainQ = <<>>
    BY DEF Quiet
  <2>2. Held(inbox) = {} /\ Held(libQ) = {} /\ Held(mainQ) = {} /\ DOMAIN inbox = {}
        /\ \A S : Count(libQ, S) = 0 /\ Count(mainQ, S) = 0
    BY <2>1, Nothing
  <2>3. d \in Drivers /\ waiting[d] \in Nat /\ reads[d] \in Nat
    BY <1>1, Types
  <2>4. OnItsWay(d)
    BY <1>1, <2>2 DEF Followed, Ahead
  <2>5. ~(waiting[d] > 0)
    <3>. SUFFICES ASSUME waiting[d] > 0 PROVE FALSE
      OBVIOUS
    <3>1. reads[d] = waiting[d] + 0 + 0
      <4>1. reads[d] = waiting[d] + Count(mainQ, Users(d)) + Count(libQ, {Call("unread", d)})
        BY <1>1, <2>3 DEF ReadsCounted
      <4>. QED
        BY <2>2, <4>1
    <3>2. reads[d] > 0 /\ waiting[d] # 0
      BY <2>3, <3>1
    <3>3. seen[d] = "unknown"
      BY <1>1, <2>3, <3>2 DEF SeenRight
    <3>. QED
      BY <1>1, <2>1, <2>2, <2>3, <3>2, <3>3 DEF SeenRight
  <2>. QED
    BY <2>2, <2>4, <2>5 DEF OnItsWay, InMain, InClient
<1>3. ReportedOncePerQuery
  <2>. SUFFICES ASSUME NEW d \in Drivers PROVE entered[d] <= Len(queries)
    BY DEF ReportedOncePerQuery
  <2>1. queries \in Seq(SUBSET located) /\ entered[d] \in Nat /\ mainQ \in Seq(Block) /\ Len(queries) \in Nat
    BY <1>1, Types
  <2>2. PICK n, c : n = Count(mainQ, {Entered(d)}) /\ c = Cardinality(Reporters(d))
    OBVIOUS
  <2>3. n \in Nat
    BY <2>1, <2>2, HitsFinite
  <2>4. c \in Nat /\ c <= Len(queries)
    BY <2>1, <2>2, ReportersFinite DEF Reporters
  <2>5. entered[d] + n <= c
    BY <1>1, <2>2 DEF Reported
  <2>. QED
    BY <2>1, <2>3, <2>4, <2>5
<1>4. UpdatesAfterLaunch
  BY <1>1 DEF Launched, UpdatesAfterLaunch
<1>. QED
  BY <1>1, <1>2, <1>3, <1>4 DEF MapConsistent, Typed

\* However value events, queries, reports and fetches overlap, and whatever the
\* order in which a position and a profile reach the rider: pins are drivers of
\* the circle with a profile, one each; when nothing is on its way, a driver who
\* is missing from the map signed up after positions were last sent; no query
\* reports a driver twice; updates run after a launch with the right to locate.
\* HomeViewController.fetchDrivers, FirebaseService.fetchDrivers and
\* fetchUserData over GeoFire's queries and the client's listeners.
THEOREM MapStaysConsistent == MapSpec => []MapConsistent
BY MapStarts, MapSteps, MapAgrees, PTL DEF MapSpec
=============================================================================
