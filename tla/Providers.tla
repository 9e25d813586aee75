------------------------------- MODULE Providers -------------------------------
(***************************************************************************)
(* What stands between a service and a chain: the HTTP client, the circuit *)
(* breaker that wraps each network's providers, gas and fee arithmetic,    *)
(* the balances a provider reports and what reconciling does with them     *)
(* (packages/blockchain, chain-sync.ts reconcileBalances).                 *)
(*                                                                         *)
(* These are functions of what nodes and indexers answer.  The breaker is  *)
(* evaluated along histories, so that reads may overlap.                   *)
(***************************************************************************)
EXTENDS Integers, FiniteSets, SequencesExt

Fails == -1     \* a node's answer that is an error or none

-----------------------------------------------------------------------------
(* HttpClient: what a request ends in *)

\* Every way a host can answer, by the code requestJson throws for it.
CodeOf ==
    [fine        |-> "ok",                \* 2xx, within the size, of the schema
     redirect    |-> "PROVIDER_ERROR",    tooLarge   |-> "PROVIDER_ERROR",
     notJson     |-> "PROVIDER_ERROR",    otherShape |-> "PROVIDER_ERROR",
     clientError |-> "PROVIDER_ERROR",    serverError |-> "PROVIDER_ERROR",
     throttled   |-> "RATE_LIMITED",      silent     |-> "TIMEOUT",
     unreachable |-> "NETWORK_UNAVAILABLE"]

Replies == DOMAIN CodeOf

\* STATUS_BY_CODE, for the codes a read can end in.
StatusOf ==
    [PROVIDER_ERROR |-> 502, RATE_LIMITED |-> 429, TIMEOUT |-> 504,
     NETWORK_UNAVAILABLE |-> 503, INVALID_ADDRESS |-> 400, VALIDATION_ERROR |-> 400,
     GAS_ESTIMATION_FAILED |-> 502]

-----------------------------------------------------------------------------
(* FallbackProvider *)

Closed == [failures |-> 0, openUntil |-> 0]

IsOpen(breaker, t) == breaker.openUntil > t

RecordSuccess_KeepsCount(breaker) == [breaker EXCEPT !.openUntil = 0]
RecordSuccess(breaker) == Closed

RecordFailure(breaker, t, options) ==
    IF breaker.failures + 1 >= options.failureThreshold
    THEN [failures |-> 0, openUntil |-> t + options.cooldown]
    ELSE [breaker EXCEPT !.failures = @ + 1]

\* A refusal of what was asked, rather than a fault of who was asked.
IsRefusal(code) == StatusOf[code] < 500 /\ code # "RATE_LIMITED"

After(breaker, code, t, options) ==
    CASE code = "ok"      -> RecordSuccess(breaker)
      [] code # "ok" /\ IsRefusal(code) -> breaker
      [] OTHER            -> RecordFailure(breaker, t, options)

\* One provider of the list; by is the provider that answered, 0 for none yet.
TryNext(read, p, code, t, options) ==
    LET ended == read.by # 0 \/ read.refused
    IN  IF ended \/ IsOpen(read.breakers[p], t) THEN read
        ELSE [breakers |-> [read.breakers EXCEPT ![p] = After(@, code, t, options)],
              by       |-> IF code = "ok" THEN p ELSE 0,
              refused  |-> code # "ok" /\ IsRefusal(code),
              tried    |-> read.tried \cup {p}]

\* A read at time t over providers 1..n that would end in codes[p] each.
Asked(breakers) == [breakers |-> breakers, by |-> 0, refused |-> FALSE, tried |-> {}]

Read(breakers, t, codes, options) ==
    LET read[p \in 0..Len(breakers)] ==
            IF p = 0 THEN Asked(breakers) ELSE TryNext(read[p - 1], p, codes[p], t, options)
    IN  read[Len(breakers)]

\* Reads one after the other, the i-th at time i * step, over n providers unused before:
\* what there was before the first and what each left.
AfterReads(n, reads, step, options) ==
    LET log[i \in 0..Len(reads)] ==
            IF i = 0 THEN <<Asked([p \in 1..n |-> Closed])>>
            ELSE LET before == log[i - 1]
                 IN  Append(before, Read(before[i].breakers, i * step, reads[i], options))
    IN  log[Len(reads)]

\* Reads that overlap, at one provider: an event begins a read or ends one of
\* those in flight; an end with none in flight is no event.
Happen(s, what, t, options) ==
    CASE what = "begin" ->
           LET skipped == IsOpen(s.breaker, t)
           IN  [breaker |-> s.breaker,
                flight  |-> IF skipped THEN s.flight ELSE s.flight + 1,
                log     |-> Append(s.log, IF skipped THEN "skip" ELSE "try")]
      [] what # "begin" /\ s.flight > 0 ->
           [breaker |-> After(s.breaker, what, t, options),
            flight  |-> s.flight - 1, log |-> Append(s.log, what)]
      [] OTHER -> [breaker |-> s.breaker, flight |-> s.flight, log |-> Append(s.log, "nothing")]

Unused == [breaker |-> Closed, flight |-> 0, log |-> <<>>]

AfterEvents(history, step, options) ==
    LET after[i \in 0..Len(history)] ==
            IF i = 0 THEN Unused ELSE Happen(after[i - 1], history[i], i * step, options)
    IN  after[Len(history)].log

Faulty == DOMAIN StatusOf \ {"INVALID_ADDRESS", "VALIDATION_ERROR"}

\* The faults of a log up to n that no success followed.
Row(log, n) == {i \in 1..n : log[i] \in Faulty /\ \A j \in i..n : log[j] # "ok"}

\* The provider has failed failureThreshold times running, or a multiple of it,
\* the last time less than a cooldown before n.
Dead(log, n, step, options) ==
    \E m \in Row(log, n - 1) :
        /\ Cardinality({i \in Row(log, n - 1) : i <= m}) % options.failureThreshold = 0
        /\ (m * step) + options.cooldown > n * step

\* However reads overlap, a provider is passed over exactly while it is dead:
\* neither refusals nor failures that successes separate shut it out.
Justified(log, step, options) ==
    \A n \in DOMAIN log : log[n] \in {"skip", "try"} =>
        ((log[n] = "skip") <=> Dead(log, n, step, options))

PassedOverWhenDead(history, step, options) ==
    Justified(AfterEvents(history, step, options), step, options)

\* A read comes back empty-handed only if it was refused or every provider
\* failed it or was open, and it asks the providers in their order.
FailsOver(n, reads, step, options) ==
    LET log == AfterReads(n, reads, step, options)
        Open(p, i) == IsOpen(log[i].breakers[p], i * step)
        Tried(i)   == log[i + 1].tried
    IN  \A i \in DOMAIN reads :
            /\ \A p \in 1..n : p \notin Tried(i) =>
                 Open(p, i) \/ \E q \in 1..(p - 1) : q \in Tried(i)
                                  /\ (reads[i][q] = "ok" \/ IsRefusal(reads[i][q]))
            /\ log[i + 1].by = 0 /\ ~log[i + 1].refused =>
                 \A p \in 1..n : Open(p, i) \/ reads[i][p] \in Faulty

-----------------------------------------------------------------------------
(* Gas, fees and balance checks of the EVM provider *)

GasLimits == [nativeTransfer |-> 21000, erc20TransferFallback |-> 100000,
              erc20TransferMax |-> 300000, estimatePaddingPercent |-> 25]

\* fees, of a chain: fallbackGasPriceWei, maxGasPriceWei, supportsEip1559.
GasPrice(fees, quoted) ==
    CASE quoted = Fails \/ quoted <= 0   -> fees.fallbackGasPriceWei
      [] quoted > fees.maxGasPriceWei   -> fees.maxGasPriceWei
      [] OTHER                           -> quoted

Padded(estimate) == (estimate * (100 + GasLimits.estimatePaddingPercent)) \div 100

\* Fails: GAS_ESTIMATION_FAILED.
EstimateGasLimit(isToken, estimate) ==
    CASE ~isToken         -> GasLimits.nativeTransfer
      [] isToken /\ estimate = Fails -> GasLimits.erc20TransferFallback
      [] isToken /\ Padded(estimate) > GasLimits.erc20TransferMax -> Fails
      [] OTHER            -> Padded(estimate)

\* node: what it answers - price, estimate, balance.
EstimateFee(fees, isToken, node) ==
    LET limit == EstimateGasLimit(isToken, node.estimate)
    IN  IF limit = Fails THEN Fails ELSE limit * GasPrice(fees, node.price)

MaxFeePerGas(fees, price) == IF fees.supportsEip1559 THEN price * 2 ELSE price

MaxFeeWei(fees, isToken, node) ==
    EstimateGasLimit(isToken, node.estimate)
      * MaxFeePerGas(fees, GasPrice(fees, node.price))

NativeRequired(fees, isToken, amount, node) ==
    MaxFeeWei(fees, isToken, node) + (IF isToken THEN 0 ELSE amount)

\* Between two different addresses, neither the zero address.
BuildTransfer(fees, isToken, amount, node) ==
    CASE amount <= 0 -> "AMOUNT_TOO_SMALL"
      [] amount > 0 /\ EstimateGasLimit(isToken, node.estimate) = Fails ->
           "GAS_ESTIMATION_FAILED"
      [] OTHER ->
           IF node.balance < NativeRequired(fees, isToken, amount, node)
           THEN IF isToken THEN "INSUFFICIENT_GAS" ELSE "INSUFFICIENT_BALANCE"
           ELSE IF EstimateGasLimit(isToken, node.estimate) <= 0
                THEN "HexError" ELSE "built"     \* assertRequest

\* A transfer that is built can be paid for whatever gas it uses, its fee has a
\* ceiling no node can raise, the node's own estimate fits its limit, and on a
\* chain without EIP-1559 the fee the user was shown is that ceiling.
FeesBounded(fees, isToken, amount, node) ==
    BuildTransfer(fees, isToken, amount, node) = "built" =>
        LET limit == EstimateGasLimit(isToken, node.estimate)
            fee   == MaxFeeWei(fees, isToken, node)
        IN  /\ \A used \in {1, limit \div 2, limit} :
                 node.balance >= (IF isToken THEN 0 ELSE amount) + used * (fee \div limit)
            /\ fee <= GasLimits.erc20TransferMax * MaxFeePerGas(fees, fees.maxGasPriceWei)
            /\ isToken /\ node.estimate # Fails => limit >= node.estimate
            /\ ~fees.supportsEip1559 => fee = EstimateFee(fees, isToken, node)

-----------------------------------------------------------------------------
(* Balances: what a provider reports of the registered tokens, and reconciling *)

\* EVM: one call per token; one that fails is reported as 0.
EvmTokenBalances(answers) ==
    [asset \in DOMAIN answers |-> IF answers[asset] = Fails THEN 0 ELSE answers[asset]]

\* TRON, TON: one listing of entries <<contract, amount>>, the last of a contract
\* counting; contracts that are not registered, and malformed amounts, are passed
\* over, and what is not listed is 0.
ListedTokenBalances(assets, listing) ==
    LET Of(asset) == {i \in DOMAIN listing : listing[i][1] = asset /\ listing[i][2] # Fails}
    IN  [asset \in assets |-> IF Of(asset) = {} THEN 0 ELSE listing[Max(Of(asset))][2]]

\* A jetton listing needs an indexer; without one every jetton is 0.
TonTokenBalances(assets, listing, hasIndexer) ==
    IF hasIndexer THEN ListedTokenBalances(assets, listing)
                  ELSE [asset \in assets |-> 0]

\* upsertWalletBalance of whatever was reported: the other balances stay.
ReconcileBalances(cached, reported) ==
    [asset \in DOMAIN cached |->
        IF asset \in DOMAIN reported THEN reported[asset] ELSE cached[asset]]

\* After reconciling, no cached balance exceeds what the chain holds, one that the
\* provider could read is exact, and tokens nobody registered leave no trace.
ReconcileSound(cached, held, answers, listing) ==
    LET evm  == ReconcileBalances(cached, EvmTokenBalances(answers))
        tron == ReconcileBalances(cached, ListedTokenBalances(DOMAIN answers, listing))
        Listed(a) == \E i \in DOMAIN listing : listing[i] = <<a, held[a]>>
    IN  /\ \A a \in DOMAIN answers :
             /\ evm[a] <= held[a] /\ (answers[a] # Fails => evm[a] = held[a])
             /\ Listed(a) => tron[a] = held[a]
        /\ \A a \in DOMAIN cached \ DOMAIN answers : {evm[a], tron[a]} = {cached[a]}

=============================================================================
