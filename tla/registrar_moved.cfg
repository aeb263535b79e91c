CONSTANTS
    anna = anna  boris = boris  cyril = cyril
    home = home  office = office  cafe = cafe  hotel = hotel
    None = None
    Accounts = {anna}
    Strangers = {}
    NoAgent = {}
    NoExpires = {}
    Addresses = {home, office}
    MAX_CHALLENGES = 2
    MaxRequests = 4
    MaxChanges = 0
    MaxMoves = 1
    MaxDups = 0
    MaxLosses = 0
    MaxRestarts = 0
    MaxCrashes = 0
    MaxUnterminated = 1
    MaxFaults = 1
CHECK_DEADLOCK FALSE
SPECIFICATION Spec
INVARIANT RegisteredWhereSaid
