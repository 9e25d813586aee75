SPECIFICATION Spec
CONSTANTS
    Events = {due, alert}
    Alerts = {alert}
    None = none
    Runs = {pump, job}
    Pump = pump
    MAX_ATTEMPTS = 3
    AttemptsCheck = 4
    Faults = {"crash", "db", "lost", "prefs"}
    MaxFaults = 1
INVARIANTS
    DeliveredOnceUnlessInDoubt
    AbandonedInTime
    RemindersAreRegular
PROPERTY EveryNotificationSettles
