SPECIFICATION FilesSpec
CONSTANTS
    Domains = {"d1", "d2"}
    NoRequest = NoRequest
    HandMade <- MCHandMade
    MaxLines = 4
    k1 = k1
    Callers = {k1}
    Startup = startup
    p1 = p1
    p2 = p2
    Addresses = {p1, p2}
    Elsewhere = elsewhere
    Configs <- SwitchConfigs
    None = None
    Requests = {r1}
    Fields = {"domain", "ip"}
    Typed = {"v1", "v2", "V1", "junk"}
    Refused = "refused"
INVARIANTS DirectoryFollows
PROPERTIES InPlace ForeignKept PauseSurvives EditsOnlyThat
