SPECIFICATION FairSpec
CONSTANTS
    Payments = {p1}
    NoPayment = NoPayment
    Workers = {w1, w2}
    MaxAttempts = 2
    Slack = 1
    Limit = 2
    Faults = {"crash", "db", "provider", "run_now"}
INVARIANTS OneWorkerPerPayment CancelledIsIdle
INVARIANTS PaidOnceUnlessInDoubt
PROPERTIES ClaimEnds
CHECK_DEADLOCK FALSE
