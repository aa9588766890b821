CONSTANTS
    o1 = o1
    r1 = r1
    w1 = w1
    w2 = w2
    Orders = {o1}
    Requests = {r1}
    OrderOf <- OneRequest
    Workers = {w1, w2}
    Landline = {"processing", "processed"}
    MaxDeaths = 1
    MaxFailures = 1
SPECIFICATION Spec
INVARIANTS QueuedWithEvent HonestStatus
PROPERTIES DeliveredAtMostOnce Settles
CHECK_DEADLOCK FALSE
