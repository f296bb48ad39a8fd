SPECIFICATION FairSpec
CONSTANTS
    Accounts = {a1, a2}
    Passwords = {p1}
    Nicknames = {n1}
    MaxJobs = 1
CHECK_DEADLOCK FALSE
PROPERTIES
    EveryRequestAnswered
