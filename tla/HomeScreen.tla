----------------------------- MODULE HomeScreen -----------------------------
(***************************************************************************)
(* A rider's home screen: the search for a destination, the choice of one, *)
(* the route drawn to it, and the way back.  HomeViewController with       *)
(* LocationInputActivationView, LocationInputView and the table of places. *)
(*                                                                         *)
(* Searches and routes are answered later, in any order, and nothing       *)
(* cancels them; a new result list reaches the table in a block of its     *)
(* own.  Alphas and frames have their final values as soon as an animation *)
(* starts, the views it moves ignore touches until it ends, and its        *)
(* completion closure runs then.  A further setup(), as a second tap on    *)
(* Log In makes, lays everything out again at any time.                    *)
(***************************************************************************)
EXTENDS Integers, Sequences

CONSTANTS
    Placemarks,     \* places a search may find
    Responses,      \* result lists a search may be answered with
    MaxSearches,    \* bound: searches
    MaxSelections,  \* bound: destinations chosen
    MaxSetups       \* bound: further setups

ASSUME ResponsesAssumption == Responses \subseteq Seq(Placemarks)
ASSUME BoundsAssumption ==
    MaxSearches \in Nat /\ MaxSelections \in Nat /\ MaxSetups \in Nat

VARIABLES
    activation,     \* inputActivationView ("Where to?") has alpha 1
    buried,         \* the map is in front of it
    inputView,      \* locationInputView is visible
    tableUp,        \* the table is below it, not off the screen
    fading,         \* showLocationInputView's first animation runs
    hiding,         \* hideLocationInputView's animation runs: for "back" or a "pick"
    button,         \* actionButtonConfiguration
    searchResults,  \* the result list, the table's data source
    shown,          \* the "Found" rows on the screen, made by the last reload
    reloads,        \* blocks with reloadData on the main queue
    searches,       \* searches that are not answered
    asked,          \* searches made so far
    destinations,   \* point annotations on the map
    overlays,       \* routes on the map, oldest first
    routes,         \* directions requests that are not answered, by selection
    selections,     \* destinations chosen so far
    late,           \* history: routes added after their destination was dismissed
    setups,         \* further setups so far
    fetching,       \* their user fetches that are not answered
    trapped         \* an array index was out of range: the process is gone

inputVars == <<activation, buried, inputView, tableUp, fading, hiding>>
searchVars == <<searchResults, shown, reloads, searches, asked>>
mapVars == <<destinations, overlays, routes, selections, late>>
setupVars == <<setups, fetching>>
vars == <<inputVars, button, searchVars, mapVars, setupVars, trapped>>

\* The table's "Recent" section has two rows, always.
Recent == 1 .. 2

TypeOK ==
    /\ activation \in BOOLEAN /\ buried \in BOOLEAN /\ inputView \in BOOLEAN /\ tableUp \in BOOLEAN
    /\ fading \in BOOLEAN
    /\ hiding \in {"no", "back", "pick"}
    /\ button \in {"showMenu", "dismissActionView"}
    /\ searchResults \in Seq(Placemarks)
    /\ shown \in Seq(Placemarks)
    /\ reloads \in Nat
    /\ searches \in 0 .. asked
    /\ asked \in 0 .. MaxSearches
    /\ destinations \subseteq 1 .. MaxSelections
    /\ overlays \in Seq(1 .. MaxSelections)
    /\ routes \subseteq 1 .. MaxSelections
    /\ selections \in 0 .. MaxSelections
    /\ late \in Nat
    /\ setups \in 0 .. MaxSetups
    /\ fetching \in 0 .. setups
    /\ trapped \in BOOLEAN

\* After the first user.didSet of a rider.
Init ==
    /\ activation = TRUE /\ buried = FALSE /\ inputView = FALSE /\ tableUp = FALSE
    /\ fading = FALSE /\ hiding = "no"
    /\ button = "showMenu"
    /\ searchResults = <<>> /\ shown = <<>>
    /\ reloads = 0 /\ searches = 0 /\ asked = 0
    /\ destinations = {} /\ overlays = <<>> /\ routes = {}
    /\ selections = 0 /\ late = 0
    /\ setups = 0 /\ fetching = 0
    /\ trapped = FALSE

-----------------------------------------------------------------------------
(* The input view.                                                         *)

\* The activation view can be seen and touched.
WhereTo == activation /\ ~buried

\* presentLocationInputView -> showLocationInputView.
ShowLocationInputView ==
    /\ ~trapped
    /\ WhereTo
    /\ activation' = FALSE
    /\ inputView' = TRUE
    /\ fading' = TRUE
    /\ UNCHANGED <<buried, tableUp, hiding, button, searchVars, mapVars, setupVars, trapped>>

\* Its completion closure slides the table in.
FadeInDone ==
    /\ ~trapped
    /\ fading
    /\ fading' = FALSE
    /\ tableUp' = TRUE
    /\ UNCHANGED <<activation, buried, inputView, hiding, button, searchVars, mapVars, setupVars, trapped>>

\* hideLocationInputView, for "back" or for a "pick".
HideLocationInputView(for) ==
    /\ inputView' = FALSE
    /\ tableUp' = FALSE
    /\ hiding' = for
    /\ UNCHANGED <<activation, buried, fading>>

\* onBack -> dismisslocationInputView.
DismissLocationInputView ==
    /\ ~trapped
    /\ inputView /\ ~fading
    /\ HideLocationInputView("back")
    /\ UNCHANGED <<button, searchVars, mapVars, setupVars, trapped>>

\* Mutant: the completion closure of dismisslocationInputView is not passed on.
ActivationLeftHidden(before) == before

\* dismisslocationInputView's closure shows the activation view again; a row's
\* selection passes no closure.
ActivationAfterHide(before) == before \/ hiding = "back"

HideDone ==
    /\ ~trapped
    /\ hiding # "no"
    /\ hiding' = "no"
    /\ activation' = ActivationAfterHide(activation)
    /\ UNCHANGED <<buried, inputView, tableUp, fading, button, searchVars, mapVars, setupVars, trapped>>

-----------------------------------------------------------------------------
(* Searching.                                                              *)

\* textFieldShouldReturn -> executeSearch -> searchBy; any query.
ExecuteSearch ==
    /\ ~trapped
    /\ inputView /\ ~fading
    /\ asked < MaxSearches
    /\ asked' = asked + 1
    /\ searches' = searches + 1
    /\ UNCHANGED <<searchResults, shown, reloads, inputVars, button, mapVars, setupVars, trapped>>

\* The closures of searchBy and executeSearch: the results at once, the table
\* in a block of its own.
SearchResponse(list) ==
    /\ ~trapped
    /\ searches > 0
    /\ searches' = searches - 1
    /\ searchResults' = list
    /\ reloads' = reloads + 1
    /\ UNCHANGED <<shown, asked, inputVars, button, mapVars, setupVars, trapped>>

\* No response: the closure returns and the old results stay.
SearchFailure ==
    /\ ~trapped
    /\ searches > 0
    /\ searches' = searches - 1
    /\ UNCHANGED <<searchResults, shown, reloads, asked, inputVars, button, mapVars,
                   setupVars, trapped>>

\* Mutant: rows are inserted for what is new and never taken away.
RowsInserted == searchResults \o SubSeq(shown, Len(searchResults) + 1, Len(shown))

\* reloadData asks the data source anew.
Rows == searchResults

ReloadData ==
    /\ ~trapped
    /\ reloads > 0
    /\ reloads' = reloads - 1
    /\ shown' = Rows
    /\ UNCHANGED <<searchResults, searches, asked, inputVars, button, mapVars, setupVars, trapped>>

\* cellForRowAt for a "Found" row that scrolls into sight: the number of rows
\* is that of the last reload, the contents are those of now.
CellForRow(row) ==
    /\ ~trapped
    /\ tableUp
    /\ row \in DOMAIN shown
    /\ trapped' = (row \notin DOMAIN searchResults)
    /\ shown' = IF row \in DOMAIN searchResults
                THEN [shown EXCEPT ![row] = searchResults[row]]
                ELSE shown
    /\ UNCHANGED <<searchResults, reloads, searches, asked, inputVars, button, mapVars, setupVars>>

-----------------------------------------------------------------------------
(* Choosing a destination and dismissing it.                               *)

\* didSelectRowAt with a row of a section.  The section is not looked at: a
\* "Recent" row chooses from the results as well.
DidSelectRow(rows, row) ==
    /\ ~trapped
    /\ tableUp
    /\ row \in rows
    /\ selections < MaxSelections
    /\ HideLocationInputView("pick")
    /\ IF row \in DOMAIN searchResults
       THEN /\ button' = "dismissActionView"
            /\ selections' = selections + 1
            /\ routes' = routes \cup {selections'}
            /\ destinations' = destinations \cup {selections'}
            /\ UNCHANGED <<overlays, late, trapped>>
       ELSE /\ trapped' = TRUE
            /\ UNCHANGED <<button, mapVars>>
    /\ UNCHANGED <<searchVars, setupVars>>

\* generatePolyline's closure adds the route, whatever happened meanwhile.
DirectionsResponse(n) ==
    /\ ~trapped
    /\ n \in routes
    /\ routes' = routes \ {n}
    /\ overlays' = Append(overlays, n)
    /\ late' = IF n \in destinations THEN late ELSE late + 1
    /\ UNCHANGED <<destinations, selections, inputVars, button, searchVars, setupVars, trapped>>

DirectionsFailure(n) ==
    /\ ~trapped
    /\ n \in routes
    /\ routes' = routes \ {n}
    /\ UNCHANGED <<destinations, overlays, selections, late, inputVars, button, searchVars,
                   setupVars, trapped>>

\* Mutant: the overlay is removed only when it is the only one.
OverlaysIfSingle == IF Len(overlays) = 1 THEN <<>> ELSE overlays

\* removeAnnotationsAndOverlays: of the overlays, the first one.
OverlaysLeft == IF overlays # <<>> THEN Tail(overlays) ELSE overlays

\* actionButtonPressed; as the menu button it does nothing.  The input view
\* covers the button.
ActionButtonPressed ==
    /\ ~trapped
    /\ button = "dismissActionView"
    /\ ~inputView
    /\ button' = "showMenu"
    /\ activation' = TRUE
    /\ destinations' = {}
    /\ overlays' = OverlaysLeft
    /\ UNCHANGED <<buried, inputView, tableUp, fading, hiding, searchVars, routes, selections, late,
                   setupVars, trapped>>

-----------------------------------------------------------------------------
(* A further setup.                                                        *)

\* style(): the input view and the table go, and the map comes to the front
\* of the activation view; running animations still complete.
SetupAgain ==
    /\ ~trapped
    /\ setups < MaxSetups
    /\ setups' = setups + 1
    /\ fetching' = fetching + 1
    /\ buried' = TRUE
    /\ inputView' = FALSE
    /\ tableUp' = FALSE
    /\ UNCHANGED <<activation, fading, hiding, button, searchVars, mapVars, trapped>>

\* user.didSet: configureInputActivationView adds the activation view on top.
ConfigureInputActivationView ==
    /\ ~trapped
    /\ fetching > 0
    /\ fetching' = fetching - 1
    /\ activation' = TRUE
    /\ buried' = FALSE
    /\ UNCHANGED <<inputView, tableUp, fading, hiding, button, searchVars, mapVars, setups, trapped>>

-----------------------------------------------------------------------------
Touch ==
    \/ ShowLocationInputView
    \/ DismissLocationInputView
    \/ ExecuteSearch
    \/ \E row \in DOMAIN shown : CellForRow(row) \/ DidSelectRow(DOMAIN shown, row)
    \/ \E row \in Recent : DidSelectRow(Recent, row)
    \/ ActionButtonPressed

Callback ==
    \/ FadeInDone
    \/ HideDone
    \/ \E list \in Responses : SearchResponse(list)
    \/ SearchFailure
    \/ ReloadData
    \/ \E n \in routes : DirectionsResponse(n) \/ DirectionsFailure(n)
    \/ ConfigureInputActivationView

Next == Touch \/ Callback \/ SetupAgain

Spec == Init /\ [][Next]_vars

-----------------------------------------------------------------------------
(* Properties.                                                             *)

\* Whatever is animated, dismissed or laid out again meanwhile, the rider is
\* never left without a control: when no animation runs and no fetch is
\* awaited, "Where to?", the table or the back arrow is there.
NeverStuck ==
    ~fading /\ hiding = "no" /\ fetching = 0 /\ ~trapped =>
       WhereTo \/ tableUp \/ button = "dismissActionView"

\* In a process with one setup it is exactly one of them.
OneWayForward ==
    setups = 0 /\ ~fading /\ hiding = "no" /\ ~trapped =>
       /\ WhereTo => ~tableUp /\ button = "showMenu"
       /\ tableUp => inputView /\ button = "showMenu"

\* A "Found" row chosen with no reload outstanding is in range of the results
\* and is the place on the screen, although searches are answered in any
\* order and cells are filled while results change.
FoundRowIsChosen ==
    reloads = 0 =>
       \A row \in DOMAIN shown :
          row \in DOMAIN searchResults /\ shown[row] = searchResults[row]

\* A route stays on the map after the rider dismissed its destination only if
\* a route came too late to be dismissed, one for each such answer, or if a
\* further setup let the rider choose twice without dismissing.
RoutesLeftBehind ==
    button = "showMenu" => Len(overlays) <= late + setups

\* The screen's controls stay consistent through animations, searches, routes
\* and further setups: a control is always there, and with one setup just one.
ControlsConsistent == TypeOK /\ NeverStuck /\ OneWayForward
=============================================================================
