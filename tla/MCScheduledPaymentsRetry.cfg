SPECIFICATION Spec
CONSTANTS
    Payments = {p1}
    NoPayment = NoPayment
    Workers = {w1}
    MaxAttempts = 2
    Slack = 1
    Limit = 2
    Faults = {"provider"}
INVARIANTS PaidAtMostOnce
CHECK_DEADLOCK FALSE
