CONSTANTS
    anna = anna  boris = boris
    home = home  office = office  cafe = cafe
    c1 = c1
    None = None
    Accounts = {anna, boris}
    Strangers = {}
    NoAgent = {}
    NoExpires = {}
    Addresses = {home, office, cafe}
    MAX_CHALLENGES = 2
    MaxRequests = 1
    MaxChanges = 1
    MaxMoves = 1
    MaxDups = 0
    MaxLosses = 0
    MaxRestarts = 1
    MaxCrashes = 0
    MaxUnterminated = 1
    MaxFaults = 2
    Calls = {c1}
    Listing = {}
    Refusals = {}
    HomeOf <- Homes
    MaxRepeats = 0
CHECK_DEADLOCK FALSE
SPECIFICATION ProxySpec
SYMMETRY Symmetry
INVARIANTS FoundIfRegistered ReachesWhomItIsFor
PROPERTY StopsOnlyForUnsettled
