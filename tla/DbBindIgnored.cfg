SPECIFICATION Spec
CONSTANTS
    Accounts = {a1, a2}
    Passwords = {p1, p2}
    Nicknames = {n1}
    MaxJobs = 2
CHECK_DEADLOCK FALSE
INVARIANTS
    SuccessMeansStored
