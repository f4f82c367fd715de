\* Two deletion requests, a login and a worker that may fail.
CONSTANTS
    q1 = q1
    q2 = q2
    l1 = l1
    Requests = {q1, q2}
    Logins = {l1}
    Grace = 1
    Expires = 3
    MaxTries = 2
    MaxTime = 2
    Faults <- AllFaults
SPECIFICATION Spec
SYMMETRY RequestSymmetry
CHECK_DEADLOCK FALSE
INVARIANTS
    TypeOK
    PendingHasJob
PROPERTIES
    DeletedWhenDue
    DeadlineStands
    DeletionIsFinal
