------------------------------ MODULE ChainSync ------------------------------
(***************************************************************************)
(* Reading the chain into the ledger: a scan pages through the transfers   *)
(* of one wallet from a stored cursor, each transfer is recorded, counted  *)
(* and announced in one transaction behind two idempotency gates, and a    *)
(* walker takes the recorded rows to confirmed or failed                   *)
(* (packages/core/src/services/chain-sync.ts over the providers of         *)
(* packages/blockchain and the repositories wallets, transactions, ops).   *)
(*                                                                         *)
(* A provider reads one listing.  TronProvider reads two, TRC20 tokens and *)
(* native TRX, under separate fingerprints; they are two networks here.    *)
(* A block holds at most one transaction of the wallet and that one moves  *)
(* one unit of one registered asset.                                       *)
(***************************************************************************)
EXTENDS Integers, FiniteSets, SequencesExt

CONSTANTS
    Networks,     \* those the wallet may be on: "evm", "ton", "trc20", "trx"
    Incoming,     \* transactions that pay the wallet
    Outgoing,     \* transactions it pays with
    Own,          \* those that the send pipeline of this program makes
    Simulated,    \* sends with no chain behind them: hashes "sim-..." and "mock-..."
    None,         \* no transaction, no cursor or no verdict
    Modes,        \* deployments: TRUE is one whose signer or provider is a mock
    Scanners,     \* executions of chain.scan for this wallet
    Walkers,      \* executions of chain.confirm
    PageSize,     \* SCAN_PAGE_SIZE
    BlockRange,   \* MAX_BLOCK_RANGE
    Lookback,     \* INITIAL_LOOKBACK_BLOCKS
    Required,     \* requiredConfirmations of the network
    MaxHeight,    \* blocks mined (a bound)
    Faults,       \* which of "stop", "reset" happen
    MaxFaults     \* how many of them happen (a bound)

ASSUME NetworksAssumption == Networks \subseteq {"evm", "ton", "trc20", "trx"}
ASSUME HashesAssumption   == /\ Incoming \cap Outgoing = {} /\ Own \subseteq Outgoing
                             /\ Simulated \cap (Incoming \cup Outgoing) = {}
                             /\ None \notin Incoming \cup Outgoing \cup Simulated
ASSUME ModesAssumption    == Modes \subseteq BOOLEAN
ASSUME BoundsAssumption   == /\ PageSize \in Nat \ {0, 1}
                             /\ {BlockRange, Lookback, Required, MaxHeight, MaxFaults} \subseteq Nat

VARIABLES
    network,    \* the network of the wallet, fixed
    simulates,  \* the mode of the deployment, fixed
    chain,      \* the blocks: a transaction or None, and whether it succeeded
    cursor,     \* wallets.scan_cursor
    row,        \* transactions.status per (tx_hash, log_index)
    events,     \* processed_events
    balance,    \* wallet_balances.raw_amount
    counted,    \* history: how often the balance was moved for each transaction
    clamped,    \* history: a debit met an empty balance
    notices,    \* notifications queued, by kind and row
    scan,       \* the scans under way: phase, rows still to ingest, cursor to write
    walk,       \* the walkers: the row each one asks about, and the answer
    cut,        \* history: heights a listing passed over for good
    faults      \* faults so far

fixed  == <<network, simulates>>
ledger == <<row, events, balance, counted, clamped, notices>>
vars == <<fixed, chain, cursor, ledger, scan, walk, cut, faults>>

Hashes  == Incoming \cup Outgoing
Sends(h) == [tx |-> h, log |-> -1]

\* log_index is -1 for rows of the send pipeline and for native TRX.
Listable == [tx : Hashes, log : ((-1)..(PageSize - 1)) \cup {0, 1}]
Keys     == Listable \cup {Sends(h) : h \in Simulated}
Heights  == 1..MaxHeight

Cursors  == Heights \cup {0, None}
InFlight == {"detected", "confirming"}
Settled  == {"confirmed", "failed"}
Idle     == [phase |-> "idle", from |-> None, todo |-> <<>>, next |-> None]
Resting  == [key |-> None, verdict |-> None]

Height(h)  == CHOOSE n \in DOMAIN chain : chain[n].tx = h
Mined(h)   == \E n \in DOMAIN chain : chain[n].tx = h
Moved(h)   == \E n \in DOMAIN chain : chain[n] = [tx |-> h, ok |-> TRUE]

Fault(kind) == kind \in Faults /\ faults < MaxFaults /\ faults' = faults + 1

----------------------------------------------------------------------------
Init ==
    /\ network \in Networks /\ simulates \in Modes
    /\ chain = <<>>
    /\ cursor = None
    /\ row = [k \in Keys |-> "none"]
    /\ events = {} /\ notices = {}
    /\ balance = 0 /\ clamped = FALSE
    /\ counted = [h \in Hashes |-> 0]
    /\ scan = [s \in Scanners |-> Idle]
    /\ walk = [w \in Walkers |-> Resting]
    /\ cut = {}
    /\ faults = 0

----------------------------------------------------------------------------
(* The chain, and the send pipeline *)

\* A block, with a transaction of the wallet in it or without.
Mine(h, ok) ==
    /\ Len(chain) < MaxHeight
    /\ h # None => ~Mined(h)
    /\ chain' = Append(chain, [tx |-> h, ok |-> ok])
    /\ UNCHANGED <<fixed, cursor, ledger, scan, walk, cut, faults>>

\* The send pipeline records the transfer it has broadcast.
RecordSend(h) ==
    /\ ~simulates
    /\ h \in Own /\ row[Sends(h)] = "none"
    /\ row' = [row EXCEPT ![Sends(h)] = "detected"]
    /\ UNCHANGED <<fixed, chain, cursor, events, balance, counted, clamped, notices, scan, walk,
                   cut, faults>>

\* A simulated one is recorded too: pending when the signer is the mock, detected
\* when a remote signer signed for a mock provider.
RecordSimulated(h, status) ==
    /\ simulates
    /\ h \in Simulated /\ row[Sends(h)] = "none"
    /\ status \in {"pending", "detected"}
    /\ row' = [row EXCEPT ![Sends(h)] = status]
    /\ UNCHANGED <<fixed, chain, cursor, events, balance, counted, clamped, notices, scan, walk,
                   cut, faults>>

----------------------------------------------------------------------------
(* The listings *)

\* Heights among S whose transaction moved funds.
Carrying(S) == {n \in S \cap DOMAIN chain : chain[n].ok /\ chain[n].tx # None}
Up(S)   == CHOOSE s \in [1..Cardinality(S) -> S] : \A i, j \in DOMAIN s : i < j => s[i] < s[j]
Down(S) == Reverse(Up(S))
FirstOf(s, n) == SubSeq(s, 1, IF Len(s) < n THEN Len(s) ELSE n)

\* A page: the heights listed, in order, and the cursor after it.
Page(heights, next) == [heights |-> heights, next |-> next]

\* Forward, over the finalised blocks after the cursor; the incoming transfers of
\* the range, then the outgoing ones, of which one is read even on a full page.
EvmPage(from) ==
    LET head  == IF Len(chain) > Required THEN Len(chain) - Required ELSE 0
        first == IF from # None THEN from + 1
                 ELSE IF head > Lookback THEN head - Lookback ELSE 0
        last  == IF head - first > BlockRange THEN first + BlockRange ELSE head
        range == Carrying(first..last)
        ins   == FirstOf(Up({n \in range : chain[n].tx \in Incoming}), PageSize)
        room  == IF Len(ins) = PageSize THEN 1 ELSE PageSize - Len(ins)
        outs  == FirstOf(Up({n \in range : chain[n].tx \in Outgoing}), room)
    IN IF first > head THEN Page(<<>>, from) ELSE Page(ins \o outs, last)

\* Backward from the cursor, inclusive.
TonPage(from) ==
    LET older   == {n \in Heights : from = None \/ n <= from}
        heights == FirstOf(Down(Carrying(older)), PageSize)
    IN Page(heights, IF heights = <<>> THEN from ELSE Last(heights))

\* Backward behind a fingerprint, which is kept when the listing returns none.
TronPage(from) ==
    LET older   == {n \in Heights : from = None \/ n < from}
        heights == FirstOf(Down(Carrying(older)), PageSize)
    IN Page(heights, IF Cardinality(Carrying(older)) > PageSize THEN Last(heights) ELSE from)

ListTransfers(from) ==
    CASE network = "evm" -> EvmPage(from)
      [] network = "ton" -> TonPage(from)
      [] OTHER           -> TronPage(from)

\* The log index of the transfer at height n, listed in position p.
LogIndex(n, p) ==
    CASE network = "evm"   -> 0
      [] network = "ton"   -> IF chain[n].tx \in Incoming THEN 0 ELSE 1
      [] network = "trc20" -> p - 1
      [] OTHER             -> -1

\* Heights no later listing starts at or before: outside the lookback, or in a
\* range that was read but did not fit the page.
PassedOver(from, page) ==
    IF network = "evm" /\ page.next # from
    THEN LET lower == IF from = None THEN 0 ELSE from
         IN Carrying((lower + 1)..page.next) \ ToSet(page.heights)
    ELSE {}

----------------------------------------------------------------------------
(* The scan *)

\* The wallet is read, with its cursor, and a blockchain_scans row opened.
StartScan(s) ==
    /\ scan[s].phase = "idle"
    /\ scan' = [scan EXCEPT ![s] = [phase |-> "listing", from |-> cursor,
                                    todo |-> <<>>, next |-> None]]
    /\ UNCHANGED <<fixed, chain, cursor, ledger, walk, cut, faults>>

ListPage(s) ==
    LET page == ListTransfers(scan[s].from)
        todo == [p \in DOMAIN page.heights |->
                   [tx |-> chain[page.heights[p]].tx, log |-> LogIndex(page.heights[p], p)]]
    IN
    /\ scan[s].phase = "listing"
    /\ scan' = [scan EXCEPT ![s] = [phase |-> "ingesting", from |-> None,
                                    todo |-> todo, next |-> page.next]]
    /\ cut' = cut \cup PassedOver(scan[s].from, page)
    /\ UNCHANGED <<fixed, chain, cursor, ledger, walk, faults>>

\* Mutant: whoever lists a transfer counts it.
IsNew_Always(k) == TRUE

\* Both gates: the event is not claimed, and its row does not exist.
IsNew(k) == k \notin events /\ row[k] = "none"

Unit(k) == IF k.tx \in Incoming THEN 1 ELSE -1

\* Mutant: the delta is applied whatever the gates say.
Adjust_Always(k) ==
    /\ balance' = IF balance + Unit(k) < 0 THEN 0 ELSE balance + Unit(k)
    /\ clamped' = (clamped \/ balance + Unit(k) < 0)
    /\ counted' = [counted EXCEPT ![k.tx] = @ + 1]

\* adjustWalletBalance: the cached balance does not go below zero.
Adjust(k) ==
    IF IsNew(k)
    THEN /\ balance' = IF balance + Unit(k) < 0 THEN 0 ELSE balance + Unit(k)
         /\ clamped' = (clamped \/ balance + Unit(k) < 0)
         /\ counted' = [counted EXCEPT ![k.tx] = @ + 1]
    ELSE UNCHANGED <<balance, counted, clamped>>

\* ingestTransfer: the claim, the row, the balance and the notification commit
\* together; a claim without a row is kept.
Ingest(s) ==
    LET k == Head(scan[s].todo) IN
    /\ scan[s].phase = "ingesting" /\ scan[s].todo # <<>>
    /\ events' = events \cup {k}
    /\ row' = IF IsNew(k) THEN [row EXCEPT ![k] = "detected"] ELSE row
    /\ notices' = IF IsNew(k) THEN notices \cup {<<"moved", k>>} ELSE notices
    /\ Adjust(k)
    /\ scan' = [scan EXCEPT ![s].todo = Tail(@)]
    /\ UNCHANGED <<fixed, chain, cursor, walk, cut, faults>>

\* The page is done: its cursor is written, whatever the cursor is by now.
FinishScan(s) ==
    /\ scan[s].phase = "ingesting" /\ scan[s].todo = <<>>
    /\ cursor' = scan[s].next
    /\ scan' = [scan EXCEPT ![s] = Idle]
    /\ UNCHANGED <<fixed, chain, ledger, walk, cut, faults>>

\* Mutant: a scan that fails stores the cursor of its page all the same.
ScanStops_KeepsCursor(s) ==
    /\ scan[s].phase # "idle"
    /\ Fault("stop")
    /\ scan' = [scan EXCEPT ![s] = Idle]
    /\ cursor' = IF scan[s].phase = "ingesting" THEN scan[s].next ELSE cursor
    /\ UNCHANGED <<fixed, chain, ledger, walk, cut>>

\* The provider or the database fails, or the worker dies: the scan ends where it
\* is and the cursor stays.
ScanStops(s) ==
    /\ scan[s].phase # "idle"
    /\ Fault("stop")
    /\ scan' = [scan EXCEPT ![s] = Idle]
    /\ UNCHANGED <<fixed, chain, cursor, ledger, walk, cut>>

\* rescanWallet from scratch: the administrator clears the cursor.
RescanWallet ==
    /\ Fault("reset")
    /\ cursor' = None
    /\ UNCHANGED <<fixed, chain, ledger, scan, walk, cut>>

----------------------------------------------------------------------------
(* The confirmation walker *)

Confirmations(h) == IF Mined(h) THEN Len(chain) - Height(h) + 1 ELSE 0

\* What getTransactionStatus makes of a row; None when it is not found.  TON is
\* not asked about the transaction at all.  An EVM node knows a transaction that
\* waits to be mined, or has dropped it.
Verdicts(h) ==
    IF network = "ton" THEN {"confirmed"}
    ELSE IF ~Mined(h) THEN IF network = "evm" THEN {"failed", None} ELSE {None}
    ELSE IF ~Moved(h) THEN {"failed"}
    ELSE IF Confirmations(h) >= Required THEN {"confirmed"}
    ELSE {"confirming"}

\* A row in flight is read and the provider asked about it.
CheckRow(w, k) ==
    /\ walk[w] = Resting
    /\ k \in Listable /\ row[k] \in InFlight
    /\ \E v \in Verdicts(k.tx) \ {None} : walk' = [walk EXCEPT ![w] = [key |-> k, verdict |-> v]]
    /\ UNCHANGED <<fixed, chain, cursor, ledger, scan, cut, faults>>

\* Mutant: the database has no trigger on transactions.status.
Admits_Anything(old, new) == TRUE

\* app.assert_tx_status_transition
Admits(old, new) ==
    \/ old = new
    \/ old = "pending" /\ new \in Settled
    \/ old = "detected" /\ new \in {"confirming", "confirmed", "failed"}
    \/ old = "confirming" /\ new \in Settled

\* The answer is written, with its notification; if the status machine refuses it
\* the transaction rolls back and the walker goes on with the next row.
SettleRow(w) ==
    LET k == walk[w].key
        v == walk[w].verdict IN
    /\ walk[w] # Resting
    /\ IF Admits(row[k], v)
       THEN /\ row' = [row EXCEPT ![k] = v]
            /\ notices' = IF v \in Settled THEN notices \cup {<<v, k>>} ELSE notices
       ELSE UNCHANGED <<row, notices>>
    /\ walk' = [walk EXCEPT ![w] = Resting]
    /\ UNCHANGED <<fixed, chain, cursor, events, balance, counted, clamped, scan, cut, faults>>

\* Of a simulated row in flight nobody is asked: it is confirmed, without a
\* notification.  A pending one is not in flight, and is not listed.
ConfirmSimulated(k) ==
    /\ k.tx \in Simulated /\ row[k] \in InFlight
    /\ row' = [row EXCEPT ![k] = "confirmed"]
    /\ UNCHANGED <<fixed, chain, cursor, events, balance, counted, clamped, notices, scan, walk,
                   cut, faults>>

\* The provider or the database fails, or the worker dies.
WalkStops(w) ==
    /\ walk[w] # Resting
    /\ Fault("stop")
    /\ walk' = [walk EXCEPT ![w] = Resting]
    /\ UNCHANGED <<fixed, chain, cursor, ledger, scan, cut>>

----------------------------------------------------------------------------
ScanStep(s) == StartScan(s) \/ ListPage(s) \/ Ingest(s) \/ FinishScan(s)

Next ==
    \/ Mine(None, TRUE)
    \/ \E h \in Hashes : Mine(h, TRUE)
    \/ \E h \in Own : Mine(h, FALSE)
    \/ \E h \in Own : RecordSend(h)
    \/ \E h \in Simulated, status \in {"pending", "detected"} : RecordSimulated(h, status)
    \/ \E s \in Scanners : ScanStep(s) \/ ScanStops(s)
    \/ RescanWallet
    \/ \E k \in Keys : ConfirmSimulated(k)
    \/ \E w \in Walkers : (\E k \in Keys : CheckRow(w, k)) \/ SettleRow(w) \/ WalkStops(w)

Spec == Init /\ [][Next]_vars

\* Scans are enqueued again and again, and each step of one ends.
Fairness == \A s \in Scanners : WF_vars(ScanStep(s))

FairSpec == Spec /\ Fairness

----------------------------------------------------------------------------
(* Properties *)

\* Every variable has its type; the cached balance is never negative
\* (0003_wallets_assets.sql, wallet_balances_non_negative), whatever order debits arrive in.
TypeOK ==
    /\ network \in Networks /\ simulates \in Modes
    /\ chain \in Seq([tx : Hashes \cup {None}, ok : BOOLEAN])
    /\ cursor \in Cursors
    /\ row \in [Keys -> {"none", "pending"} \cup InFlight \cup Settled]
    /\ events \subseteq Listable
    /\ balance \in Nat /\ clamped \in BOOLEAN
    /\ counted \in [Hashes -> Nat]
    /\ notices \subseteq ({"moved"} \cup Settled) \X Listable
    /\ scan \in [Scanners -> [phase : {"idle", "listing", "ingesting"}, from : Cursors,
                              todo : Seq(Listable), next : Cursors]]
    /\ walk \in [Walkers -> [key : Listable, verdict : Settled \cup {"confirming"}] \cup {Resting}]
    /\ cut \subseteq Heights
    /\ faults \in 0..MaxFaults

\* What scans have recorded and announced.
Counted == {k \in Listable : <<"moved", k>> \in notices}

\* However scans overlap, repeat a page, fail half-way or start again, the balance
\* is moved for a transaction at most once under each log index a listing gave it,
\* hence once altogether where a transaction has one.  A TRC20 transfer is numbered
\* by its place in the page and may count again under another, although a full
\* replay is said to create no duplicates (admin.ts:170).
CountedOnce ==
    \A h \in Hashes :
        /\ counted[h] <= Cardinality({k \in events : k.tx = h})
        /\ network # "trc20" => counted[h] <= 1

\* The cached balance is the sum of what scans recorded, unless a debit met an
\* empty balance.
BalanceFollowsLedger ==
    clamped \/ balance = Cardinality({k \in Counted : k.tx \in Incoming})
                         - Cardinality({k \in Counted : k.tx \in Outgoing})

\* The user is told that a transfer confirmed or failed if and only if its row
\* says so, never both, also when two walkers hold different answers.  Of a
\* simulated transfer, whose row is confirmed without asking, nothing is ever told.
ToldTheTruth ==
    \A k \in Keys, v \in Settled :
        <<v, k>> \in notices <=> row[k] = v /\ k.tx \notin Simulated

\* A confirmed row is a transfer that took place and is Required blocks deep, where
\* anybody looks at the transaction: simulated rows have none behind them, and on
\* TON no provider asks.
ConfirmedIsFinal ==
    \A k \in Listable : row[k] = "confirmed" /\ network # "ton"
        => Moved(k.tx) /\ Confirmations(k.tx) >= Required

Recorded(h) == \E k \in Keys : k.tx = h /\ row[k] # "none"
Deep(h)     == Moved(h) /\ Confirmations(h) > Required

\* No scan can reach it any more: it is newer than a cursor that only moves back,
\* outside the lookback, or fell off a full page.
OutOfReach(h) ==
    \E n \in DOMAIN chain :
        /\ chain[n].tx = h
        /\ IF network = "evm" THEN n \in cut ELSE cursor # None /\ n > cursor

\* Every transfer is recorded in the end unless the listing leaves it out of
\* reach: not because a scan failed half-way, a worker died, or scans overlapped
\* and wrote their cursors in any order.
ArrivesIfInReach == \A h \in Hashes : Deep(h) ~> Recorded(h) \/ OutOfReach(h)

=============================================================================
