CONSTANTS
    anna = anna  boris = boris  cyril = cyril
    home = home  office = office  cafe = cafe  hotel = hotel
    None = None
    Accounts = {anna, cyril}
    Strangers = {boris}
    NoAgent = {cyril}
    NoExpires = {boris}
    Addresses = {home, office, cafe, hotel}
    MAX_CHALLENGES = 2
    MaxRequests = 2
    MaxChanges = 0
    MaxMoves = 1
    MaxDups = 1
    MaxLosses = 0
    MaxRestarts = 1
    MaxCrashes = 1
    MaxUnterminated = 1
    MaxFaults = 2
CHECK_DEADLOCK FALSE
SPECIFICATION Spec
SYMMETRY Symmetry
INVARIANTS TypeOK AcceptedOnce
PROPERTY FreshAnswerAccepted
