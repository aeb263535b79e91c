CONSTANTS
    u1 = u1  u2 = u2  c1 = c1  c2 = c2  p1 = p1  p2 = p2
    Users = {u1}
    Passwords = {p1, p2}
    Clients = {c1}
    Prices = {"float"}
    MaxLate = 1
    MaxSessions = 2
    MaxItems = 0
    MaxOrders = 1
    MaxStarts = 1
SPECIFICATION Spec
SYMMETRY Symmetry
INVARIANTS LogOutIsFinal
PROPERTIES DeadSessionRefused Tracked
CHECK_DEADLOCK FALSE
