SPECIFICATION TxnSpec
CONSTANTS
    None = None
    o1 = o1
    i1 = i1
    i2 = i2
    Orders = {o1}
    Items = {i1, i2}
    Customers = {c1}
    Staff = {s1, s2}
    Requests = {r1, r2}
    Refunds = {f1, f2}
    OrderOf <- OneOrder
    Price <- OneCent
    PoolSize = 2
    Served = {"start_processing", "ready_shipped", "confirm_delivery", "approve", "process", "create_request"}
    Owner <- OneOwner
SYMMETRY Symmetry
PROPERTY RequestsAreAtomic
