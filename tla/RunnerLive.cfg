SPECIFICATION FairSpec
CONSTANTS
    r1 = r1
    c1 = c1
    Runs = {r1}
    Callers = {c1}
    Docs = {1, 2}
    Failures = 2
    Window = 1
    MinDelay = 1
    MaxDelay = 2
    Faults = {"crash"}
PROPERTIES PauseTakesDown DocumentApplied
