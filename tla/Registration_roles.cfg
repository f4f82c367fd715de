\* Requests of one user, whose roles administrators revoke, for two sessions.
CONSTANTS
    s1 = s1
    s2 = s2
    e1 = e1
    u1 = u1
    u2 = u2
    u3 = u3
    c1 = c1
    c2 = c2
    c3 = c3
    a1 = a1
    a2 = a2
    r1 = r1
    r2 = r2
    r3 = r3
    r4 = r4
    Sessions = {s1, s2}
    Users = {u1}
    Clients = {c1, c2}
    Staff = {a1}
    Editors = {}
    Workers = {}
    Issued <- NoOperation
    SlotChoices <- VenueOnly
    Capacities <- Two
    Windows <- OneWindow
    MaxTime = 0
    RoleRows = {r1, r2, r3, r4}
    RoleChanges <- Revocation
    NoLimit = NoLimit
    NoOne = NoOne
    Nobody = Nobody
SPECIFICATION RegistrationSpec
PROPERTY ExistingRolesStand
