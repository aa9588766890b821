CONSTANTS
    None = None
    s1 = s1
    s2 = s2
    p1 = p1
    p2 = p2
    Products = {bear}
    Prices = {p1, p2}
    Addresses = {home}
    Sessions = {s1, s2}
    Admins = {admin}
    MaxQuantity = 2
    MaxCarts = 2
    MaxItems = 2
    MaxVersion = 4
    MaxChanges = 1
SYMMETRY Symmetry
SPECIFICATION Spec
INVARIANTS TypeOK WaitsEnd
PROPERTIES OrderedAsOffered ShownIsOrdered
CHECK_DEADLOCK FALSE
