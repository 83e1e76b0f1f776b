SPECIFICATION FairSpec
CONSTANTS
    r1 = r1
    c1 = c1
    Runs = {r1}
    Callers = {c1}
    Docs = {1}
    Failures = 2
    Window = 1
    MinDelay = 1
    MaxDelay = 1
    Faults = {"crash"}
PROPERTIES CrashNoticed
