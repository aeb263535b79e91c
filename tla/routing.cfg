CONSTANTS
    a = a  b = b  c = c
    na = na  ab = ab  bc = bc  ca = ca
    Routers = {a, b, c}
    Networks = {na, ab, bc, ca}
    Attached <- Ring
    MaxFaults = 2
SPECIFICATION FairSpec
INVARIANT LoopFree
PROPERTIES NeverForgets Converges ForgetsDead
