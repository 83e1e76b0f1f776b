SPECIFICATION TablesSpec
CONSTANTS
    Publishers = {c1, c2}
    Keys = {k1, k2, k3}
    Traced = {k3}
    Cap = 2
    Window = 1
    Buffer = 1
    MaxSeq = 4
    MaxCount = 2
    Conns = {"a", "b", "c"}
    Shared = {"a", "b"}
    TTL = 0
    MaxPending = 2
    MaxRows = 2
    MaxRepeats = 2
    Callers = {c1, c2}
    Timers = {t1}
    Configs = {g1, g2}
    None = None
    Cooldown = 2
SYMMETRY Symmetry
INVARIANTS Located DocumentMatches TraceLimited OfferStands
PROPERTIES RowsRight
CHECK_DEADLOCK FALSE
