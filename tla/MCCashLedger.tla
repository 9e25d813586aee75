---------------------------- MODULE MCCashLedger ----------------------------
(* Instances of CashLedger for TLC, and the inputs over which the functions of   *)
(* Money and Figures are evaluated.                                              *)
EXTENDS CashLedger, Figures, TLC

MCAmounts == {-1, 0, 1}

Symmetry == Permutations(Executions) \cup Permutations(Keys)

-----------------------------------------------------------------------------

PricePolicy == [refresh |-> 2, maxStaleness |-> 4]

AssetStates ==
    {[listed |-> TRUE, loaded |-> Null, age |-> Null, stored |-> n] : n \in {Null, 0, 2, 4, 5}}
      \cup {[listed |-> l, loaded |-> n, age |-> n + 1, stored |-> Null] :
              l \in BOOLEAN, n \in {1, 2}}
PriceAnswerLists ==
    UNION {[1..n -> [ok : BOOLEAN, quotes : SUBSET {"bnb", "trx"}]] : n \in 0..2}

PriceStates == [age : {Null, 0, 4, 5}, usd : {1, 3}]
RateStates == [rate : {Null, 3}, stale : BOOLEAN, USD : {Null, 3}, ILS : {Null, 3},
               bnb : {Null, 3}, trx : {3}]

RowKinds == [direction : {"in", "out"}, value : {Null, -2, 1}, at : 0..7,
             category : {"food", "rent"}, counts : BOOLEAN]
ShownRows ==
    {r \in RowKinds : (~r.counts => r.at = 5) /\ (r.direction = "in" => r.category = "food")}

ShownHistories ==
    {<<[rate |-> m.first, age |-> 0], [rate |-> m.dip, age |-> 0], [rate |-> m.last, age |-> m.days]>> :
        m \in [first : 3670..3690, dip : {3300}, last : 3660..3700, days : {1, 5}]}

AppStates ==
    [database : BOOLEAN, dead : 0..1, queued : {0, 501}, rateAge : {Null, 0, 9, 11},
     maxStaleness : {10}, refresh : {2}, deep : BOOLEAN, chain : BOOLEAN, signer : {TRUE},
     telegram : BOOLEAN]

FiguresHold ==
    /\ MoneyIsExact
    /\ \A assets \in [{"bnb", "trx"} -> AssetStates], answers \in PriceAnswerLists :
          PricesFound(assets, answers, PricePolicy)
    /\ \A raw \in [{"bnb", "trx"} -> 0..2], prices \in [{"bnb", "trx"} -> PriceStates],
          cash \in [USD : {0, 5}, ILS : {0, 7}], fx \in RateStates :
          TotalIsWhole(raw, prices, cash, fx, PricePolicy)
    /\ \A rows \in [1..2 -> ShownRows], limit \in 1..2 : OverviewAddsUp(rows, 4, 7, 2, limit)
    /\ \A day \in 0..364, first \in 0..6 : PeriodsNest(day, first)
    /\ \A history \in ShownHistories : AlertsAreTrue(history, [low |-> 20, high |-> 70])
    /\ \A app \in AppStates, current \in 0..3, target \in 0..3 :
          ReportsSpeakTrue(app, [totalUsd |-> IF app.deep THEN Null ELSE 0, partial |-> app.deep],
                           current, target)

\* Amounts are exact or rounded as the code says; a price is absent only if nobody has
\* one; a total that is shown leaves nothing out; series, categories and periods add
\* up; alerts and health say what happened.  No state matters to these functions: the
\* initial one asks for them once.
FiguresAgree == Init => FiguresHold
=============================================================================
