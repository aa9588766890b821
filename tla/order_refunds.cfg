SPECIFICATION Spec
CONSTANTS
    None = None
    o1 = o1
    o2 = o2
    i1 = i1
    i2 = i2
    Orders = {o1}
    Items = {i1, i2}
    Customers = {c1}
    Staff = {s1, s2}
    Requests = {r1, r2, r3}
    Refunds = {f1, f2, f3}
    OrderOf <- OneOrder
    Price <- TwoPrices
    Owner <- OneOwner
SYMMETRY Symmetry
INVARIANT TypeOK
INVARIANT ReservationsCovered
INVARIANT RefundsSettle
INVARIANT PaymentFollowsOrder
INVARIANT OneRefundPerRequest
PROPERTY DecidedOnCurrentState
