\* Three requests of three users for one session that an organizer edits.
CONSTANTS
    s1 = s1
    s2 = s2
    e1 = e1
    u1 = u1
    u2 = u2
    u3 = u3
    c1 = c1
    c2 = c2
    c3 = c3
    a1 = a1
    a2 = a2
    r1 = r1
    r2 = r2
    r3 = r3
    r4 = r4
    Sessions = {s1}
    Users = {u1, u2, u3}
    Clients = {c1, c2, c3}
    Staff = {a1, a2}
    Editors = {e1}
    Workers = {}
    Issued <- SessionEdits
    SlotChoices <- LimitOrVenue
    Capacities <- OneOrTwo
    Windows <- OneWindow
    MaxTime = 0
    RoleRows = {r1}
    RoleChanges <- NoChange
    NoLimit = NoLimit
    NoOne = NoOne
    Nobody = Nobody
SPECIFICATION RegistrationSpec
SYMMETRY RequestSymmetry
INVARIANTS
    RegistrationTypeOK
    CheckedInHasAttended
    OccupancyBounded
PROPERTIES
    AdmissionsWithinLimit
    AdmissionsWhilePosted
    FirstCheckInStands
    ImplementsLedger
