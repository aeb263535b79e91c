CONSTANTS
    u1 = u1  u2 = u2  c1 = c1  c2 = c2  p1 = p1  p2 = p2
    Users = {u1}
    Passwords = {p1}
    Clients = {c1}
    Prices = {"float"}
    MaxLate = 0
    MaxSessions = 1
    MaxItems = 0
    MaxOrders = 2
    MaxStarts = 1
SPECIFICATION FairSpec
PROPERTIES TrackedFairly CallsAnswered
