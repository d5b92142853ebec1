\* One account signed up before, one to sign up; taps overlap and the process may die.
CONSTANTS
    Accounts = {u1, u2}
    Existing = {u1}
    MayRefuse = TRUE
    MaxTaps = 2
    MaxPushes = 2
    MaxDeaths = 1
SPECIFICATION FairSpec
INVARIANTS
    AccountsConsistent
    SessionSettles
PROPERTIES
    HomeReached
\* Users may stop tapping, and every tap is bounded.
CHECK_DEADLOCK FALSE
