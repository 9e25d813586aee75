----------------------------- MODULE RateLimiter -----------------------------
(***************************************************************************)
(* Rate limiting (packages/core/src/rate-limit.ts): for one bucket and one *)
(* subject, a fixed-window count in the memory of each serving process and *)
(* one counter in the database that they share.  A request takes two       *)
(* steps, because the process awaits the database between them: the clock  *)
(* may tick and other requests may be counted in the middle.  Processes    *)
(* lose their memory when they are replaced, and the database may refuse.  *)
(***************************************************************************)
EXTENDS Integers

CONSTANTS
    Instances,   \* processes that serve the interface
    Limit,       \* requests allowed per window
    WindowLength,\* length of a window
    MaxTime      \* bound: the clock stops here

ASSUME LimiterAssumption == Limit \in Nat /\ WindowLength \in Nat \ {0} /\ MaxTime \in Nat

VARIABLES
    now,
    local,     \* RateLimiter.local: per process, the window and hits of the subject
    shared,    \* api_rate_limits: hits per window
    passed     \* history: requests the shared counter let pass, per window

limiterVars == <<local, shared, passed>>

Windows == 0 .. MaxTime
window == now \div WindowLength

\* Counts past Limit + 1 are all refused alike and are not told apart.
Counted(hits) == IF hits > Limit THEN Limit + 1 ELSE hits + 1

NeverHit == [window |-> 0, hits |-> 0]

LimiterTypeOK ==
    /\ now \in 0 .. MaxTime
    /\ local \in [Instances -> [window : Windows, hits : 0 .. Limit + 1]]
    /\ shared \in [Windows -> 0 .. Limit + 1]
    /\ passed \in [Windows -> 0 .. Limit + 1]

LimiterInit ==
    /\ now = 0
    /\ local = [i \in Instances |-> NeverHit]
    /\ shared = [w \in Windows |-> 0]
    /\ passed = [w \in Windows |-> 0]

\* bumpLocal: the count of an older window is dropped.
BumpLocal(i) ==
    local' = [local EXCEPT ![i] =
        [window |-> window, hits |-> IF @.window = window THEN Counted(@.hits) ELSE 1]]

\* check, first tier: the process refuses without asking the database.
RefusedLocally(i) == BumpLocal(i) /\ local'[i].hits > Limit /\ UNCHANGED <<shared, passed>>
CountedLocally(i) == BumpLocal(i) /\ local'[i].hits <= Limit /\ UNCHANGED <<shared, passed>>

\* app.bump_rate_limit: one upsert in the window of the database's clock, which
\* returns the count with this request in it.
BumpShared_DoNothing == [shared EXCEPT ![window] = IF @ = 0 THEN 1 ELSE @]
BumpShared == [shared EXCEPT ![window] = Counted(@)]

\* check, second tier: admitted as long as the returned count is within the limit.
AdmittedByStore ==
    /\ shared' = BumpShared
    /\ shared'[window] <= Limit
    /\ passed' = [passed EXCEPT ![window] = Counted(@)]
    /\ UNCHANGED local

RefusedByStore ==
    /\ shared' = BumpShared
    /\ shared'[window] > Limit
    /\ UNCHANGED <<local, passed>>

\* The database refuses: the local count, already within the limit, decides.
AdmittedByFallback == UNCHANGED limiterVars

\* A process is replaced, or its map is full and cleared (MAX_LOCAL_ENTRIES).
ForgetLocal(i) ==
    /\ local[i] # NeverHit
    /\ local' = [local EXCEPT ![i] = NeverHit]
    /\ UNCHANGED <<shared, passed>>

\* Across the processes, no window of the database lets more than the limit pass
\* ("limits hold across serverless instances and worker replicas", rate-limit.ts:11-14):
\* two requests never both see one below the limit.
LimitHolds == \A w \in Windows : passed[w] <= Limit
=============================================================================
