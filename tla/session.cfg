SPECIFICATION Spec
CONSTANTS
    c1 = c1
    c2 = c2
    h1 = h1
    h2 = h2
    None = None
    Clients = {c1, c2}
    Handlers = {h1, h2}
    Faults = {"error", "lost"}
    MaxTime = 1
SYMMETRY Alike
CHECK_DEADLOCK FALSE
INVARIANTS TypeOK CookieAlive RevokedStaysRevoked
PROPERTIES ExchangedWhenValid
