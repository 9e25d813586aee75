------------------------------- MODULE Figures ---------------------------------
(***************************************************************************)
(* The figures the application shows: the prices it values holdings with,  *)
(* the portfolio and wallet totals, the analytics of a period, the         *)
(* exchange-rate alert and the health report (packages/core services,      *)
(* packages/currency getPrices, the reporting queries of packages/db).     *)
(*                                                                         *)
(* All are functions of the rows read and of what providers answer.        *)
(* Amounts are minor units and prices whole dollars: Money has the         *)
(* rounding.                                                               *)
(***************************************************************************)
EXTENDS Money, SequencesExt

Null == -999999

Sum(S, f(_)) == SumInts([i \in S |-> f(i)])
Known(S, f(_)) == {i \in S : f(i) # Null}

-----------------------------------------------------------------------------
(* Prices: an asset is [listed: it has a price id, loaded: since when it is     *)
(* memoised, age: of the memoised price, stored: age of the stored one]        *)

MemoFresh(a, policy) == a.loaded # Null /\ a.loaded < policy.refresh

\* What a price is before any provider is asked: memoised, stored and fresh, or
\* stored and kept in case nobody answers.
HeldPrice(a, policy) ==
    CASE MemoFresh(a, policy) -> a.age
      [] /\ ~MemoFresh(a, policy) /\ a.listed /\ a.stored # Null
         /\ a.stored < policy.refresh \/ a.stored <= policy.maxStaleness -> a.stored
      [] OTHER -> Null

StillNeeded(assets, policy) ==
    {id \in DOMAIN assets :
        /\ ~MemoFresh(assets[id], policy) /\ assets[id].listed
        /\ assets[id].stored = Null \/ assets[id].stored >= policy.refresh}

\* answers: of each provider in turn, whether it answers and the assets it quotes.
\* They are asked until one of them answers and everything needed has some price.
GetPrices(assets, answers, policy) ==
    LET needed == StillNeeded(assets, policy)
        Held(id) == HeldPrice(assets[id], policy)
        Quotes(n, id) == answers[n].ok /\ id \in answers[n].quotes
        Covered(n) == \A id \in needed : Held(id) # Null \/ \E i \in 1..n : Quotes(i, id)
        Asked == {n \in DOMAIN answers : \A i \in 1..(n - 1) : answers[i].ok => ~Covered(i)}
    IN  [id \in DOMAIN assets |->
            IF id \in needed /\ \E n \in Asked : Quotes(n, id) THEN 0 ELSE Held(id)]

\* An asset has no price only if it has no price id or nobody quotes it and nothing
\* usable is stored; and a price past its refresh is kept only when every provider
\* failed it or the others were all the first answer lacked.
PricesFound(assets, answers, policy) ==
    LET found  == GetPrices(assets, answers, policy)
        Quoted == UNION {answers[i].quotes : i \in {i \in DOMAIN answers : answers[i].ok}}
    IN  \A id \in DOMAIN assets :
            /\ found[id] = Null =>
                 ~assets[id].listed \/ (id \notin Quoted
                    /\ (assets[id].stored = Null \/ assets[id].stored > policy.maxStaleness))
            /\ found[id] # Null /\ found[id] >= policy.refresh /\ ~MemoFresh(assets[id], policy) =>
                 /\ found[id] <= policy.maxStaleness
                 /\ answers # <<>> => ~answers[1].ok \/ id \notin answers[1].quotes

-----------------------------------------------------------------------------
(* Valuation.  fx: what each conversion is answered, Null when no rate is usable *)

Convert_NoRateIsZero(minor, rate) == IF minor = Null \/ rate = Null THEN 0 ELSE minor * rate
Convert(minor, rate) == IF minor = Null \/ rate = Null THEN Null ELSE minor * rate

ValueToken(raw, price, policy) ==
    IF price.age = Null \/ price.age > policy.maxStaleness THEN Null ELSE raw * price.usd

ShareBps(part, total) ==
    IF total = 0 THEN 0 ELSE MaxInt(0, MinInt(10000, TruncDiv(part * 10000, total)))

Summary(raw, prices, cash, fx, policy) ==
    LET held   == {a \in DOMAIN raw : raw[a] # 0}
        Usd(a) == ValueToken(raw[a], prices[a], policy)
        Ils(a) == Convert(Usd(a), fx[a])
        crypto == Sum(Known(held, Usd), Usd)
        CashUsd == IF fx.ILS = Null THEN Null ELSE cash.ILS \div fx.ILS
        CashIls == Convert(cash.USD, fx.USD)
        partial == \/ \E a \in held : Usd(a) = Null \/ Ils(a) = Null
                   \/ cash.ILS # 0 /\ CashUsd = Null
                   \/ cash.USD # 0 /\ CashIls = Null
                   \/ fx.rate = Null \/ fx.stale
        Known0(n) == IF n = Null THEN 0 ELSE n
    IN  [partial  |-> partial,
         totalUsd |-> IF partial THEN Null ELSE crypto + cash.USD + Known0(CashUsd),
         totalIls |-> IF partial THEN Null
                      ELSE Sum(Known(held, Ils), Ils) + cash.ILS + Known0(CashIls),
         shares   |-> [a \in held |-> ShareBps(Known0(Usd(a)), crypto)]]

\* One wallet.  Its ILS total leaves out what has no rate; only the USD one is whole.
WalletDetail(raw, prices, policy) ==
    LET Usd(a) == ValueToken(raw[a], prices[a], policy)
    IN  IF \E a \in DOMAIN raw : raw[a] # 0 /\ Usd(a) = Null THEN Null
        ELSE Sum(Known(DOMAIN raw, Usd), Usd)

\* A total is shown only if nothing is missing from it; the shares of the assets
\* never exceed the whole and lose at most one basis point each.
TotalIsWhole(raw, prices, cash, fx, policy) ==
    LET s == Summary(raw, prices, cash, fx, policy)
        held == {a \in DOMAIN raw : raw[a] # 0}
        Share(a) == s.shares[a]
    IN  /\ s.totalUsd # Null =>
             /\ \A a \in held : prices[a].age # Null /\ prices[a].age <= policy.maxStaleness /\ fx[a] # Null
             /\ s.totalUsd = Sum(held, LAMBDA a : raw[a] * prices[a].usd) + cash.USD
                               + (IF cash.ILS = 0 THEN 0 ELSE cash.ILS \div fx.ILS)
             /\ s.totalIls = Sum(held, LAMBDA a : raw[a] * prices[a].usd * fx[a]) + cash.ILS
                               + (IF cash.USD = 0 THEN 0 ELSE cash.USD * fx.USD)
        /\ WalletDetail(raw, prices, policy) # Null =>
             \A a \in held : prices[a].age # Null /\ prices[a].age <= policy.maxStaleness
        /\ Sum(held, Share) <= 10000
        /\ ~s.partial /\ held # {} => Sum(held, Share) >= 10000 - Cardinality(held)

-----------------------------------------------------------------------------
(* Analytics: rows of [direction, value, at, category, counts], counts being   *)
(* confirmed and not deleted, value Null when the row was never valued         *)

DayOfMonth == <<0, 31, 59, 90, 120, 151, 181, 212, 243, 273, 304, 334>>  \* day of the year
MonthOf(day) == CHOOSE m \in 1..12 : DayOfMonth[m] <= day /\ (m < 12 => day < DayOfMonth[m + 1])

\* first: the week day of 1 January, 0 for Sunday.
PeriodStart(period, day, first) ==
    CASE period = "week"    -> day - ((day + first + 6) % 7)
      [] period = "month"   -> DayOfMonth[MonthOf(day)]
      [] period = "quarter" -> DayOfMonth[((MonthOf(day) - 1) \div 3) * 3 + 1]
      [] period = "year"    -> 0

PeriodRange(start, end) ==
    [start |-> start, end |-> end,
     previousStart |-> start - (end - start), previousEnd |-> start - 1]

Within(rows, from, to) ==
    {i \in DOMAIN rows : rows[i].counts /\ from <= rows[i].at /\ rows[i].at < to}

PeriodTotals(rows, S) ==
    LET Value(i) == rows[i].value
        Of(direction) == {i \in Known(S, Value) : rows[i].direction = direction}
    IN  [incomeMinor |-> Sum(Of("in"), Value), expenseMinor |-> -Sum(Of("out"), Value),
         missing |-> Cardinality(S \ Known(S, Value))]

PeriodSeries(rows, S, bucket) ==
    [b \in {rows[i].at \div bucket : i \in S} |->
        PeriodTotals(rows, {i \in S : rows[i].at \div bucket = b})]

\* What left per category, the greatest `limit` of them.
CategoryTotals(rows, S, limit) ==
    LET Out == {i \in S : rows[i].direction = "out"}
        Value(i) == IF rows[i].value = Null THEN 0 ELSE AbsInt(rows[i].value)
        Of(c) == Sum({i \in Out : rows[i].category = c}, Value)
        All == {rows[i].category : i \in Out}
        Kept == CHOOSE K \in SUBSET All :
                    /\ Cardinality(K) = MinInt(limit, Cardinality(All))
                    /\ \A k \in K, c \in All \ K : Of(k) >= Of(c)
    IN  [c \in Kept |-> Of(c)]

ChangeBps(current, previous) ==
    IF previous = 0 THEN Null ELSE TruncDiv((current - previous) * 10000, AbsInt(previous))

\* AnalyticsService.overview: its five reads are transactions of their own, here of
\* the same rows.
Overview(rows, start, end, bucket, limit) ==
    LET range == PeriodRange(start, end)
        now   == PeriodTotals(rows, Within(rows, range.start, range.end))
        prior == PeriodTotals(rows, Within(rows, range.previousStart, range.previousEnd))
        spent == CategoryTotals(rows, Within(rows, range.start, range.end), limit)
        total == Sum(DOMAIN spent, LAMBDA c : spent[c])
    IN  [income |-> now.incomeMinor, expense |-> now.expenseMinor,
         net |-> now.incomeMinor - now.expenseMinor,
         previousIncome |-> prior.incomeMinor, previousExpense |-> prior.expenseMinor,
         incomeChange |-> ChangeBps(now.incomeMinor, prior.incomeMinor),
         expenseChange |-> ChangeBps(now.expenseMinor, prior.expenseMinor),
         series |-> PeriodSeries(rows, Within(rows, range.start, range.end), bucket),
         spent |-> spent, shares |-> [c \in DOMAIN spent |-> ShareBps(spent[c], total)]]

\* The buckets add up to the period, the categories to what was spent when outgoing
\* values are negative and no category is cut off, their shares to the whole but for a
\* basis point each; no row counts in both periods, and only the last millisecond
\* before the period counts in neither.
OverviewAddsUp(rows, start, end, bucket, limit) ==
    LET o      == Overview(rows, start, end, bucket, limit)
        now    == Within(rows, start, end)
        before == Within(rows, PeriodRange(start, end).previousStart, start - 1)
        Net(b) == o.series[b].incomeMinor - o.series[b].expenseMinor
        Spent(c) == o.spent[c]
        Share(c) == o.shares[c]
    IN  /\ Sum(DOMAIN o.series, Net) = o.net
        /\ Sum(DOMAIN o.series, LAMBDA b : o.series[b].expenseMinor) = o.expense
        /\ (\A i \in now : rows[i].direction = "out" => rows[i].value <= 0) =>
             /\ Sum(DOMAIN o.spent, Spent) <= o.expense
             /\ Cardinality({rows[i].category : i \in now}) <= limit =>
                  Sum(DOMAIN o.spent, Spent) = o.expense
        /\ Sum(DOMAIN o.spent, Spent) > 0 =>
             Sum(DOMAIN o.shares, Share) \in (10000 - Cardinality(DOMAIN o.spent))..10000
        /\ now \cap before = {}
        /\ \A i \in Within(rows, start - (end - start), end) \ (now \cup before) :
               rows[i].at = start - 1

\* Weeks begin on Monday, and each period holds the shorter ones that began in it.
PeriodsNest(day, first) ==
    LET Start(p) == PeriodStart(p, day, first)
    IN  /\ Start("week") \in (day - 6)..day /\ (Start("week") + first) % 7 = 1
        /\ Start("year") <= Start("quarter") /\ Start("quarter") <= Start("month")
        /\ Start("month") <= day /\ day - Start("quarter") < 92

-----------------------------------------------------------------------------
(* checkFxAlerts, goals, expected income *)

\* Rates in thousandths; trimRate keeps hundredths.
TrimRate(rate) == rate \div 10

\* history: newest first, of [rate, age in hours].
FxChangeBps(history) ==
    LET old == {i \in DOMAIN history : history[i].age >= 1}
    IN  IF old = {} \/ TrimRate(history[Min(old)].rate) = 0 THEN Null
        ELSE TruncDiv((TrimRate(history[1].rate) - TrimRate(history[Min(old)].rate)) * 10000,
                      TrimRate(history[Min(old)].rate))

FxRecipients(thresholds, change) ==
    IF change = Null THEN {}
    ELSE {u \in DOMAIN thresholds : thresholds[u] > 0 /\ thresholds[u] <= AbsInt(change)}

\* Nobody is told of a rise when the rate fell, nor of a move a hundredth short of
\* the threshold chosen.
AlertsAreTrue(history, thresholds) ==
    LET change == FxChangeBps(history)
        told   == FxRecipients(thresholds, change)
        ref    == history[Min({i \in DOMAIN history : history[i].age >= 1})].rate
        moved  == history[1].rate - ref
    IN  told # {} =>
            /\ (change > 0) <=> (moved > 0)
            /\ \A u \in told : (AbsInt(moved) + 10) * 10000 > thresholds[u] * (ref - 10)

GoalPercent(current, target) ==
    IF target = 0 THEN 0 ELSE MaxInt(0, MinInt(100, TruncDiv(current * 100, target)))

IsOverdue(entry, today) ==
    entry.expected < today /\ entry.status \in {"pending", "delayed"}

-----------------------------------------------------------------------------
(* healthReport and the alerts of the dashboard *)

HealthReport(app) ==
    LET db == IF app.database THEN "ok" ELSE "down"
        jobs == IF app.dead > 0 \/ app.queued > 500 THEN "degraded" ELSE "ok"
        rate == CASE app.rateAge = Null -> "degraded"
                  [] app.rateAge # Null /\ app.rateAge > app.maxStaleness -> "down"
                  [] OTHER -> IF app.rateAge > 4 * app.refresh THEN "degraded" ELSE "ok"
        deep == IF app.deep /\ ~(app.chain /\ app.signer) THEN "degraded" ELSE "ok"
        checks == {db, deep, IF app.telegram THEN "ok" ELSE "degraded"}
                    \cup (IF app.database THEN {jobs, rate} ELSE {})
    IN  IF "down" \in checks THEN "down" ELSE IF "degraded" \in checks THEN "degraded" ELSE "ok"

Alerts(summary, stale, entries, payments, today, safe) ==
    {a \in {"partialValuation", "rateStale", "incomeOverdue", "scheduleFailed", "safeMode"} :
        CASE a = "partialValuation" -> summary.partial
          [] a = "rateStale"        -> stale
          [] a = "incomeOverdue"    -> \E i \in DOMAIN entries : IsOverdue(entries[i], today)
          [] a = "scheduleFailed"   -> "failed" \in payments
          [] a = "safeMode"         -> safe}

\* Only the database or a rate past its ceiling takes the service down; a total that
\* is withheld is explained; a goal is full only when it is met.
ReportsSpeakTrue(app, summary, current, target) ==
    /\ (HealthReport(app) = "down") <=>
          ~app.database \/ (app.rateAge # Null /\ app.rateAge > app.maxStaleness)
    /\ HealthReport(app) = "ok" => app.telegram /\ app.dead = 0
    /\ summary.totalUsd = Null => "partialValuation" \in Alerts(summary, FALSE, <<>>, {}, 0, FALSE)
    /\ (GoalPercent(current, target) = 100) <=> (target > 0 /\ current >= target)
    /\ ChangeBps(current, target) # Null /\ ChangeBps(current, target) > 0 => current > target

=============================================================================
