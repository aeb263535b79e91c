CONSTANTS
    u1 = u1  u2 = u2  c1 = c1  c2 = c2  p1 = p1  p2 = p2
    Users = {u1, u2}
    Passwords = {p1}
    Clients = {c1}
    Prices = {"float", "integer"}
    MaxLate = 0
    MaxSessions = 2
    MaxItems = 1
    MaxOrders = 1
    MaxStarts = 2
SPECIFICATION Spec
SYMMETRY Symmetry
INVARIANTS TypeOK NoStrayReply OrderBookCoherent AnswerIsCurrent
PROPERTY StaysUp
CHECK_DEADLOCK FALSE
