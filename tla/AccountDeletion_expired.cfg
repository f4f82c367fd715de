\* The job's data expires before the grace period ends; nothing fails.
CONSTANTS
    q1 = q1
    q2 = q2
    l1 = l1
    Requests = {q1}
    Logins = {l1}
    Grace = 2
    Expires = 1
    MaxTries = 2
    MaxTime = 2
    Faults <- NoFaults
SPECIFICATION FairSpec
CHECK_DEADLOCK FALSE
PROPERTY OverdueDeletionsEnd
