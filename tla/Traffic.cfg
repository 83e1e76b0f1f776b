SPECIFICATION TrafficSpec
CONSTANTS
    k1 = k1
    k2 = k2
    a1 = a1
    Dialers = {k1, k2}
    Addrs = {a1}
    Nothing = Nothing
    TTL = 2
    ProvTTL = 1
    HeadStart = TRUE
    MaxGen = 1
    Servers = {n1, n2}
    Timeout = 2
    Grace = 1
    Slack = 1
    LocalAddrs = {n3, n4}
    None = None
    Debounce = 1
    MaxMsgs = 1
INVARIANTS FullTrustEarned NothingLeaks InTime Invalidated
PROPERTIES DirectAgain PrivateWins FailsOpen Follows CaughtUp
