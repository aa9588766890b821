CONSTANTS
    None = None
    s1 = s1
    s2 = s2
    p1 = p1
    p2 = p2
    Products = {bear}
    Prices = {p1, p2}
    Addresses = {home}
    Sessions = {s1, s2}
    Admins = {admin}
    MaxQuantity = 2
    MaxCarts = 2
    MaxItems = 2
    MaxVersion = 3
    MaxChanges = 1
SPECIFICATION Spec
INVARIANTS ConvertedCartKept

CHECK_DEADLOCK FALSE
