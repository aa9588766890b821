SPECIFICATION TxnSpec
CONSTANTS
    None = None
    o1 = o1
    i1 = i1
    i2 = i2
    Orders = {o1}
    Items = {i1}
    Customers = {c1}
    Staff = {s1}
    Requests = {r1}
    Refunds = {f1, f2}
    OrderOf <- OneOrder
    Price <- OneCent
    PoolSize = 2
    Served = {"start_processing", "ready_shipped", "staff_cancel", "cancel_order", "confirm_delivery", "approve", "reject", "process", "create_request", "post_refund"}
    Owner <- OneOwner
PROPERTY RequestsEnd
