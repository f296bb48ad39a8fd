SPECIFICATION FairSpec
CONSTANTS
    Accounts = {a1, a2}
    Passwords = {p1, p2}
    Nicknames = {n1, n2}
    MaxJobs = 2
CHECK_DEADLOCK FALSE
INVARIANTS
    HandlesExact
    AnswersTrue
PROPERTIES
    EveryJobAnswered
    WorkerStops
