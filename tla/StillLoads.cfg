SPECIFICATION MCSpec
CONSTANTS
    Domains = {"d1", "d2"}
    NoRequest = NoRequest
    HandMade <- MCHandMade
    MaxLines = 4
PROPERTY StillLoads
