SPECIFICATION LoopsSpec
CONSTANTS
    r1 = r1
    r2 = r2
    c1 = c1
    c2 = c2
    Runs = {r1, r2}
    Configs = {c1, c2}
    MaxDelay = 2
    Faults = {"port", "fail"}
    Failures = 2
    Window = 1
    Changing = {"wifi", "bind", "fault", "vpn", "pause"}
INVARIANTS GoneOutsideRun ConfigApplied
PROPERTIES ServesAgain LeftAlone BrokenIsActedOn
