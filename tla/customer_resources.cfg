CONSTANTS
    None = None
    s1 = s1
    s2 = s2
    s3 = s3
    home = home
    Sessions = {s1, s2}
    Texts = {home}
    MaxRows = 3
    MaxVersion = 3
    c1 = c1
    t1 = t1
    t2 = t2
    p1 = p1
    Accounts = {c1}
    Tabs = {t1, t2}
    Products = {p1}
    Limit = 2
    MaxChanges = 3
    MaxTokens = 2
    MaxPicks = 1
SYMMETRY Symmetry
SPECIFICATION CustomersSpec
INVARIANTS TypeOK OneDefault PlansHold SessionsEnd GuestItems
PROPERTIES ChangedAsSeen SignedOutGone
CHECK_DEADLOCK FALSE
