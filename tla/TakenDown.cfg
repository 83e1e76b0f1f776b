SPECIFICATION FairSpec
CONSTANTS
    Failures = 2
    Window = 5
    Changing = {"fault"}
PROPERTY TakenDown
