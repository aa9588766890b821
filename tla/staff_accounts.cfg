CONSTANTS
    None = None
    u1 = u1
    u2 = u2
    u3 = u3
    s1 = s1
    s2 = s2
    Users = {u1,u2,u3}
    Roles = {"admin", "analyst"}
    Sessions = {s1, s2}
    Attempts = 2
    MaxChanges = 3
    Base <- MCBase
    Inputs <- MCInputs
    MaxRows = 6
    MaxVersion = 2
SYMMETRY Symmetry
SPECIFICATION StaffSpec
INVARIANTS StaffTypeOK AdminRemains TokensMatch AuditComplete
PROPERTIES SeenBeforeChanged FailuresCounted
CHECK_DEADLOCK FALSE
