SPECIFICATION ApiSpec
CONSTANTS
    None = None
    o1 = o1
    o2 = o2
    i1 = i1
    i2 = i2
    Orders = {o1, o2}
    Items = {i1, i2}
    Customers = {c1}
    Staff = {s1}
    Requests = {r1}
    Refunds = {f1, f2, f3}
    OrderOf <- TwoOrders
    Price <- TwoPrices
    Owner <- OneOwner
SYMMETRY Symmetry
INVARIANT FullRefundClosesOrder
