CONSTANTS
    anna = anna  boris = boris  cyril = cyril
    home = home  office = office  cafe = cafe  hotel = hotel
    None = None
    Accounts = {anna, boris}
    Strangers = {}
    NoAgent = {}
    NoExpires = {}
    Addresses = {home, office}
    MAX_CHALLENGES = 2
    MaxRequests = 8
    MaxChanges = 1
    MaxMoves = 0
    MaxDups = 0
    MaxLosses = 1
    MaxRestarts = 1
    MaxCrashes = 0
    MaxUnterminated = 1
    MaxFaults = 2
CHECK_DEADLOCK FALSE
SPECIFICATION LiveSpec
INVARIANT RegisteredWhereSaid
PROPERTY EventuallyRegistered
