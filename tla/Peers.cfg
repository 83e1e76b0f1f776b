SPECIFICATION PeersSpec
CONSTANTS
    r1 = r1
    r2 = r2
    None = None
    Runs = {r1, r2}
    Faults = {"kill", "stubborn", "shimkill", "slowshim"}
    Setters = {s1, s2}
    Clients = {m}
    Buffer = 2
    Wire = 1
    MaxChanges = 4
    Restarts = {"restart"}
    Conns = {c1, c2}
    Timers = {t1, t2, t3}
    Wait = 2
PROPERTIES FreshStart ShimIsEnough SocksNeedsTunnel Recovers  FollowsLater GivesBack
CHECK_DEADLOCK FALSE
