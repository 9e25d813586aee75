-------------------------------- MODULE Market --------------------------------
(***************************************************************************)
(* The exchange rate of one pair as a process hands it out: a memo in the  *)
(* process, the latest row of exchange_rates behind it, and the providers  *)
(* behind that, tried in order (packages/currency/src/service.ts over the  *)
(* store of packages/core/src/context.ts and admin.ts's manual rate).      *)
(*                                                                         *)
(* Time is a tick of the shortest period; a provider may keep the process  *)
(* waiting for one tick (its timeout), and database steps take none.  Ages *)
(* stop counting at Old.  A rate that never existed is one of age Old.  A  *)
(* provider may date its own quotation (er-api does): whatever it says, the *)
(* rate counts from the moment it was fetched.                             *)
(***************************************************************************)
EXTENDS Naturals, FiniteSetsExt

CONSTANTS
    Askers,      \* requests of this process that need the rate
    Providers,   \* how many providers there are; they are tried in order
    Refresh,     \* refreshSeconds: how long a rate is fresh, and memoised
    MaxStale,    \* maxStalenessSeconds
    Lags,        \* how old a provider may say its quotation is as it answers
    Bounded      \* the pair has a sanity band (USD/ILS has one, ILS/USD none)

ASSUME PeriodsAssumption ==
    {Providers, Refresh} \subseteq Nat \ {0} /\ MaxStale \in Nat
ASSUME BoundedAssumption == Bounded \in BOOLEAN
ASSUME LagsAssumption == Lags \subseteq Nat /\ 0 \in Lags

\* Who a stored rate is from.
Origins == {"provider", "admin"}
ASSUME AskersAssumption == Askers \cap Origins = {}

VARIABLES
    stored,    \* the latest row
    memo,      \* fxMemo's entry: the result and how long ago it was set
    load,      \* the coalesced loadRate in flight
    refresh,   \* the refreshRate of the fx.refresh job in flight
    asker,     \* per request: its step
    answer     \* per request: what it was last given, as it was then

rateVars == <<stored, memo, load, refresh, asker, answer>>

Old == Refresh + Max({Refresh, MaxStale + Providers})

\* age: time since it was fetched; lag: how old its provider said it was then; by:
\* who it is from; wild: outside the band.
Rates   == [age : 0..Old, lag : Lags, by : Origins, wild : BOOLEAN]
Results == [age : 0..Old, lag : Lags, by : Origins, wild : BOOLEAN, stale : BOOLEAN]
Answers == [age : 0..Old, lag : Lags, by : Origins \cup Askers, wild : BOOLEAN, stale : BOOLEAN]
Loads   == [step : {"none", "store", "fetch"}, at : 1..Providers, waited : {0, 1},
            rate : Rates, usable : BOOLEAN]

NoRate == [age |-> Old, lag |-> 0, by |-> "provider", wild |-> FALSE]

Result(rate, stale) ==
    [age |-> rate.age, lag |-> rate.lag, by |-> rate.by, wild |-> rate.wild, stale |-> stale]

\* The row counts from its insertion and the answer says it is of age 0, whatever
\* date the provider gave.
Fetched(wild, lag) == [age |-> 0, lag |-> lag, by |-> "provider", wild |-> wild]

\* A user's own rate, as he typed it.
Pinned(r, wild) == [age |-> 0, lag |-> 0, by |-> r, wild |-> wild, stale |-> FALSE]

NoMemo == [result |-> Result(NoRate, TRUE), since |-> Refresh]
Load(step, rate, usable) ==
    [step |-> step, at |-> 1, waited |-> 0, rate |-> rate, usable |-> usable]
NoLoad == Load("none", NoRate, FALSE)
NoJob  == [step |-> "none", at |-> 1, waited |-> 0]

FreshRate(age) == age < Refresh
Usable_Always(age) == age < Old
Usable(age) == age <= MaxStale

AssertWithinBounds_Skipped(wild) == TRUE
AssertWithinBounds(wild) == Bounded => ~wild

-----------------------------------------------------------------------------
(* getRate and its coalesced load *)

Memoised == memo.since < Refresh

\* A user who pinned a rate is answered with it, before anything is looked up.
GetPinned(r, wild) ==
    /\ asker[r] = "idle"
    /\ asker' = [asker EXCEPT ![r] = "answered"]
    /\ answer' = [answer EXCEPT ![r] = Pinned(r, wild)]
    /\ UNCHANGED <<stored, memo, load, refresh>>

GetRate(r) ==
    /\ asker[r] = "idle"
    /\ IF Memoised
       THEN /\ asker' = [asker EXCEPT ![r] = "answered"]
            /\ answer' = [answer EXCEPT ![r] = memo.result]
            /\ UNCHANGED load
       ELSE /\ asker' = [asker EXCEPT ![r] = "waiting"]
            /\ load' = IF load.step = "none" THEN Load("store", NoRate, FALSE)
                                             ELSE load
            /\ UNCHANGED answer
    /\ UNCHANGED <<stored, memo, refresh>>

Waiting == {r \in Askers : asker[r] = "waiting"}

\* The promise resolves: every request that joined it memoises the result.
Resolve(result) ==
    /\ memo' = [result |-> result, since |-> 0]
    /\ asker' = [r \in Askers |-> IF r \in Waiting THEN "answered" ELSE asker[r]]
    /\ answer' = [r \in Askers |-> IF r \in Waiting THEN result ELSE answer[r]]
    /\ load' = NoLoad

\* The promise rejects: EXCHANGE_RATE_STALE or _UNAVAILABLE for all of them.
Reject_KeepsInflight ==
    /\ asker' = [r \in Askers |-> IF r \in Waiting THEN "refused" ELSE asker[r]]
    /\ load' = [load EXCEPT !.step = "settled"]
    /\ UNCHANGED <<memo, answer>>

Reject ==
    /\ asker' = [r \in Askers |-> IF r \in Waiting THEN "refused" ELSE asker[r]]
    /\ load' = NoLoad
    /\ UNCHANGED <<memo, answer>>

LoadLatestFx ==
    /\ load.step = "store"
    /\ IF FreshRate(stored.age)
       THEN Resolve(Result(stored, FALSE))
       ELSE /\ load' = Load("fetch", stored, Usable(stored.age))
            /\ UNCHANGED <<memo, asker, answer>>
    /\ UNCHANGED <<stored, refresh>>

LoadFetches(wild, lag) ==
    /\ load.step = "fetch" /\ AssertWithinBounds(wild)
    /\ stored' = Fetched(wild, lag)
    /\ Resolve(Result(Fetched(wild, lag), FALSE))
    /\ UNCHANGED refresh

\* No answer, an unusable one, or one outside the band.
LoadFails ==
    /\ load.step = "fetch"
    /\ \/ /\ load.at < Providers
          /\ load' = [load EXCEPT !.at = @ + 1, !.waited = 0]
          /\ UNCHANGED <<memo, asker, answer>>
       \/ load.at = Providers /\ load.usable /\ Resolve(Result(load.rate, TRUE))
       \/ load.at = Providers /\ ~load.usable /\ Reject
    /\ UNCHANGED <<stored, refresh>>

Leave(r) ==
    /\ asker[r] \in {"answered", "refused"}
    /\ asker' = [asker EXCEPT ![r] = "idle"]
    /\ answer' = [answer EXCEPT ![r] = Result(NoRate, TRUE)]
    /\ UNCHANGED <<stored, memo, load, refresh>>

-----------------------------------------------------------------------------
(* refreshRate, which neither joins a load nor is joined by one *)

RefreshRate ==
    /\ refresh.step = "none"
    /\ refresh' = [NoJob EXCEPT !.step = "fetch"]
    /\ memo' = NoMemo
    /\ UNCHANGED <<stored, load, asker, answer>>

RefreshFetches(wild, lag) ==
    /\ refresh.step = "fetch" /\ AssertWithinBounds(wild)
    /\ stored' = Fetched(wild, lag)
    /\ memo' = [result |-> Result(Fetched(wild, lag), FALSE), since |-> 0]
    /\ refresh' = NoJob
    /\ UNCHANGED <<load, asker, answer>>

RefreshFails ==
    /\ refresh.step = "fetch"
    /\ refresh' = IF refresh.at < Providers
                  THEN [refresh EXCEPT !.at = @ + 1, !.waited = 0] ELSE NoJob
    /\ UNCHANGED <<stored, memo, load, asker, answer>>

-----------------------------------------------------------------------------
(* What others do *)

\* A process of its own fetched: only the row changes here.
SaveFxElsewhere(lag) ==
    /\ stored' = Fetched(FALSE, lag)
    /\ UNCHANGED <<memo, load, refresh, asker, answer>>

\* Any rate the schema admits, in this process (whose caches it clears) or not.
SetManualRate(wild, here) ==
    /\ stored' = [age |-> 0, lag |-> 0, by |-> "admin", wild |-> wild]
    /\ memo' = IF here THEN NoMemo ELSE memo
    /\ UNCHANGED <<load, refresh, asker, answer>>

Aged(x) == [x EXCEPT !.age = Min({@ + 1, Old})]

\* An entry of the memo that has run out is as good as none.
OlderMemo ==
    IF memo.since + 1 < Refresh
    THEN [result |-> Aged(memo.result), since |-> memo.since + 1] ELSE NoMemo

Tick ==
    /\ load.step # "store" /\ load.waited = 0 /\ refresh.waited = 0
    /\ stored' = Aged(stored)
    /\ memo' = OlderMemo
    /\ load' = IF load.step = "fetch"
               THEN [load EXCEPT !.waited = 1, !.rate = Aged(@)] ELSE load
    /\ refresh' = IF refresh.step = "fetch" THEN [refresh EXCEPT !.waited = 1] ELSE refresh
    /\ UNCHANGED <<asker, answer>>

RateInit ==
    /\ stored = NoRate /\ memo = NoMemo /\ load = NoLoad /\ refresh = NoJob
    /\ asker = [r \in Askers |-> "idle"]
    /\ answer = [r \in Askers |-> Result(NoRate, TRUE)]

LoadStep ==
    \/ LoadLatestFx \/ LoadFails
    \/ \E wild \in BOOLEAN, lag \in Lags : LoadFetches(wild, lag)

RateNext ==
    \/ \E r \in Askers : GetRate(r) \/ Leave(r)
    \/ \E r \in Askers, wild \in BOOLEAN : GetPinned(r, wild)
    \/ LoadStep
    \/ RefreshRate \/ RefreshFails
    \/ \E wild \in BOOLEAN, lag \in Lags : RefreshFetches(wild, lag)
    \/ \E lag \in Lags : SaveFxElsewhere(lag)
    \/ \E wild, here \in BOOLEAN : SetManualRate(wild, here)
    \/ Tick

\* A load in flight goes on: queries return and providers time out.
RateSpec == RateInit /\ [][RateNext]_rateVars /\ WF_rateVars(LoadStep)
-----------------------------------------------------------------------------
RateTypeOK ==
    /\ stored \in Rates
    /\ memo \in [result : Results, since : 0..Refresh]
    /\ load \in Loads
    /\ refresh \in [step : {"none", "fetch"}, at : 1..Providers, waited : {0, 1}]
    /\ asker \in [Askers -> {"idle", "waiting", "answered", "refused"}]
    /\ answer \in [Askers -> Answers]

\* How old the quotation a rate goes back to is.
QuotedAge(rate) == rate.age + rate.lag

\* How old the quotation of an answer can be: as old as its provider said when it was
\* fetched, which nothing limits, and then less than two periods if it is not flagged
\* stale, whatever the periods are (nothing in config.ts orders them).  Of a stale one
\* maxStalenessSeconds alone is not the limit: the providers may be waited for, and the
\* memo keeps it for another period.
RateAgeBounded(rate) ==
    QuotedAge(rate) < rate.lag + IF rate.stale THEN MaxStale + Providers + Refresh ELSE 2 * Refresh

\* The header's "a fetched rate outside the configured sanity band is rejected,
\* not stored": only a rate somebody typed can be outside it.
OnlyTypedLeavesTheBand(rate) == rate.wild => rate.by # "provider"

\* What a request is answered with is young enough and, as what is stored, inside the
\* band unless the admin or its own user put it outside, however loads, refreshes, other
\* processes and the admin interleave; and a rate a user pinned answers his requests only.
RatesTrustworthy ==
    /\ \A r \in Askers : asker[r] = "answered" => RateAgeBounded(answer[r])
    /\ Bounded => \A rate \in {stored} \cup {answer[r] : r \in Askers} : OnlyTypedLeavesTheBand(rate)
    /\ stored.by \in Origins /\ \A r \in Askers : answer[r].by \in Origins \cup {r}

\* A request that joined a load in flight is answered or refused, and a load
\* that fails leaves no promise behind for the next request to wait on.
EveryAskerAnswered ==
    \A r \in Askers : asker[r] = "waiting" ~> asker[r] # "waiting"
=============================================================================
