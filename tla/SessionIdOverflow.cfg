SPECIFICATION Spec
CONSTANTS
    MaxSession = 3
    IndexBase = 4
    GenBase = 64
    LongBase = 16
    MaxReuse = 9
CHECK_DEADLOCK FALSE
INVARIANTS
    LiveIdAccepted
