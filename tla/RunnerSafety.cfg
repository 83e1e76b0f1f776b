SPECIFICATION Spec
CONSTANTS
    r1 = r1
    r2 = r2
    c1 = c1
    Runs = {r1, r2}
    Callers = {c1}
    Docs = {1}
    Failures = 2
    Window = 2
    MinDelay = 1
    MaxDelay = 1
    Faults = {"start", "crash", "hang"}
SYMMETRY Slots
INVARIANTS TypeOK OneSingBox FlapBound
PROPERTIES Promise
