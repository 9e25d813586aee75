SPECIFICATION RateSpec
CONSTANTS
    Askers = {r1, r2}
    Providers = 2
    Refresh = 2
    MaxStale = 2
    Lags = {0, 3}
    Bounded = TRUE
INVARIANTS
    RatesTrustworthy
PROPERTY EveryAskerAnswered
