CONSTANTS
    a = a  b = b  na = na  ab = ab  nb = nb  hm = hm  hb = hb  all = all  typo = typo
    Routers = {a, b}
    LANs = {na, ab, nb}
    Hosts = {hm, hb}
    Order <- RowOrder
    Home <- RowHome
    Everywhere = all
    Mistyped = typo
    Packets <- RowPackets
    Commands <- RowCommands
    MaxPackets = 2
    MaxCommands = 2
    MaxCount = 5
SPECIFICATION Spec
INVARIANTS GatewaysKnown RulesAsMeant LetThrough  NoRounds Arrives
PROPERTIES KeepsConfigured
CHECK_DEADLOCK FALSE
