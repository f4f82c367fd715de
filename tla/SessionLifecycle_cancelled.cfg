\* Two organizers' requests on one session.
CONSTANTS
    s1 = s1
    s2 = s2
    e1 = e1
    e2 = e2
    w1 = w1
    Sessions = {s1}
    Editors = {e1, e2}
    Workers = {w1}
    NoLimit = NoLimit
    NoOne = NoOne
    Issued <- AllOperations
    MaxTime = 2
    Windows <- TwoWindows
    SlotChoices <- Unlimited
SPECIFICATION Spec
PROPERTY CancelledSessionsStayCancelled
