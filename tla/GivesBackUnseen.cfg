SPECIFICATION Spec
CONSTANTS
    Conns = {c1, c2}
    Timers = {t1, t2, t3}
    None = None
    Wait = 2
PROPERTY GivesBackUnseen
CHECK_DEADLOCK FALSE
