# Verification of wallet-bot

TLA+ models of wallet-bot, the TLC runs that check them on small instances and
TLAPS proofs of what matters most for instances of every size. The program is a
Telegram Mini App with a bot, a worker and a signer: a personal finance tracker
over one to many crypto wallets (EVM chains, TON, TRON) that can also send
tokens, on demand and on a schedule. Paths below are relative to the repository
root; each definition that stands for code is listed in `PROJECT.json` under
`map` with its file and lines.

1. [The system](#1-the-system): components, state, interactions, hard behaviours
2. [The modules](#2-the-modules) and how they correspond to the code
3. [The runs](#3-the-runs), their bounds and their fairness
4. [The proofs](#4-the-proofs)
5. [Disagreements between code and documentation](#5-disagreements-between-code-and-documentation)
6. [What is not modelled](#6-what-is-not-modelled)
7. [The plan](#7-the-plan)

## 1. The system

Four processes share one PostgreSQL database and never call one another, except
that the web process and the worker call the signer over HTTP:

    Telegram user ──► apps/web (Next.js: Mini App + /api)  ──┐
                 └──► apps/bot (commands, notifications)   ──┼──► PostgreSQL
                      apps/worker (job runner)             ──┘     (rows, triggers,
                        │                                           functions, RLS)
                        ├──► chain providers (EVM RPC/explorer, TON, TRON)
                        └──► apps/signer (keys, policy)   ◄── also from apps/web

Concurrency comes from: requests of one user in parallel (double taps, two
devices, retries by the client), coroutines of one page, several worker processes,
several handlers in one worker (`Promise.all` over a batch), handlers that run on
after their timeout, the bot's pump beside the worker's job, and the chain, whose
blocks and mempool move on by themselves. There are no message queues: the `jobs`
table is the queue and `notifications` the outbox. A database transaction is
atomic; nothing spans two of them, and everything awaited between two of them is a
point where others run and where a process may die. Inside a transaction other
transactions still commit between its statements (READ COMMITTED).

### Inventory

For each component: the state it keeps, its operations, what it interacts with,
what makes it hard, and what would make it correct.

**Transfer pipeline** (`packages/core/src/services/send.ts`,
`packages/db/src/repositories/send.ts`, the `send_requests` trigger in
`supabase/migrations/0006_functions.sql`).
State: a `send_requests` row per `(user, idempotency key)` with status, numbers,
fingerprint, expiry and hash; the outgoing `transactions` row; the global
`sending_enabled` switch. Operations: `quote`, `confirm`, `execute`, `cancel`,
`expireStaleQuotes`. Calls the chain provider (build, broadcast) and the signer.
Hard: two confirmations of one quote; cancel against execute; the catch block
that marks failed whatever went wrong, also after the money moved; a broadcast
whose answer is lost; a process that dies anywhere; a replayed quote. Correct
when money moves at most once per key, only for numbers the user confirmed,
never behind a request that was withdrawn, and when what is reported is true.

**Scheduled payments** (`services/scheduler.ts`, `services/planning.ts`,
`repositories/planning.ts`). State: a row per payment with status, attempts,
due times and a lease. Operations: create, edit, cancel, run-now; the worker's
tick that claims a batch and executes it row by row through the pipeline;
`markFailed` with retry and backoff. Hard: two workers, leases that run out
under a live execution, run-now and cancel against a claim, ambiguous broadcasts
that are retried, errors in the error path, crashes after the claim. Correct
when a payment is executed once, and no claim sticks.

**Job queue and worker** (`jobs/runner.ts`, `jobs/handlers.ts`,
`repositories/ops.ts`, migrations 0005 and 0006, `apps/worker`). State: `jobs`
rows with dedupe key, status, attempts and lease; in memory the batch in hand and
the last time each recurring job was enqueued. Operations: enqueue under a dedupe
key, claim with `FOR UPDATE SKIP LOCKED`, run with a timeout, complete, fail,
reclaim, graceful stop. Hard: outcomes are written by id alone; the job that
reclaims is itself a job; answers of the database get lost; one rejection ends a
tick whose other handlers run on. Correct when one row per key is pending, two
handlers of one key do not run at once, poison jobs retire, and work is done.

**Chain sync and ledger** (`services/chain-sync.ts`, the providers in
`packages/blockchain`, `repositories/wallets.ts`, `repositories/transactions.ts`).
State: the scan cursor per wallet, `transactions` rows, `processed_events`,
cached balances. Operations: scan a wallet from its cursor, ingest a transfer,
walk unconfirmed rows towards confirmed or failed, reset a cursor. Hard: scans
that overlap, listings that repeat or page backwards, failures half-way through a
page, two walkers with different answers, balances clamped at zero. Correct when
every movement is recorded and counted once, and the user is told the truth.

**Chain providers, fallback and registry** (`packages/blockchain`). State: a
circuit breaker per provider, in memory. Operations: balances, fees, build,
broadcast, status, list. A list of providers to fall back to exists in the code,
and the registry fills it with one per network. Hard: overlapping reads that count
into one breaker, estimates of nodes that are absent or absurd, and what a dead
answer to a broadcast means. Correct when a provider is passed over exactly while
it is dead, a fee is bounded and covered, and an answer is reported as what it is.

**Signer service** (`apps/signer`). State: encrypted keys in one file; in memory the
keys, the nonces seen, the answers given and the totals spent. Operations: sign,
generate, health. Hard: everything it remembers is lost on restart; the memories are
dropped whole at a limit; a request arrives late or twice; generating rewrites the
whole file and awaits it. Correct when a nonce is handled once, a key is signed once
between restarts, caps hold per window, and no address is given out whose key is lost.

**Notifications and reminders** (`services/notifications.ts`,
`services/reminders.ts`, `repositories/ops.ts`). State: `notifications` rows with
a dedupe key and attempts; preferences and quiet hours of the user. Operations:
queue, claim a batch, deliver, mark sent or failed, defer, suppress; sweeps of the
expected incomes. Both the worker's job and a 5-second timer of the bot dispatch.
Hard: two dispatchers may take one row; Telegram may answer late, refuse or
throttle. Correct when an event is announced once, nothing is retried for ever, and
every row ends.

**Authentication, sessions and PIN** (`packages/core/src/auth`,
`packages/telegram`, `repositories/sessions.ts`, `repositories/users.ts`, and in the
browser `apps/web/src/lib/api.ts`, `AppProvider.tsx`, `useApi.ts`).
State: session rows, replay claims, PIN digest, failure counter and lock; per page a
token, one shared re-authentication and its coroutines. Operations: log in
from `initData`, resolve, log out, set and verify the PIN, load a screen. Hard: two
exchanges of one `initData`; a refused re-authentication; two PIN changes at once;
responses that arrive in the wrong order. Correct when one `initData` makes one
session, a PIN change ends the other sessions, and no coroutine waits for nothing.

**Rate limiting** (`packages/core/src/rate-limit.ts`). A count per window in the
memory of each process before one in the database. Hard: processes that restart, a
clock that ticks between the two counts. Correct when the shared limit holds.

**Cash ledger, expected income and goals** (`services/transactions.ts`,
`services/planning.ts`, `repositories/accounts.ts`, triggers of 0006). State:
cash accounts and their balances, manual transactions, income items and goals.
Operations: create, edit, delete, receive, contribute, list page by page. Hard: a
balance that a trigger maintains beside rows that are edited and deleted; keys that
are repeated; pages read while rows move. Correct when a balance is the sum of its
rows, a repeated request counts once, and income and ledger agree.

**Currency rates and prices** (`packages/currency`). State: rates and prices with
their age, in memory and in the database. Hard: one load shared by many requests,
staleness added up over layers, a sanity band, an administrator who overrides.
Correct when an answer is young enough, inside the band unless the administrator
left it, and nobody waits on a load that failed.

**Money arithmetic** (`packages/shared/src/money`): pure, with rounding.
**Dashboard, analytics, portfolio, health and admin views**: aggregation over what
the components above store; correct when totals, shares, series and reports agree
with what they are computed from.

**Wallets, assets and receiving** (`services/wallets.ts`, `catalog.ts`,
`receive.ts`, `packages/blockchain/src/address`). State: wallets and balances, managed
wallets whose key is in the signer. Hard: provisioning spans the signer and the
database; one account has many spellings.

**Database client, migrations, row-level security** (`packages/db`,
`supabase/migrations`). State: the identity set on a pooled connection, policies on
twenty-three tables over two migrations, `schema_migrations`. Hard: connections pass
from user to administrator to worker; policies are ORed, and `RETURNING` needs the
SELECT policy too; deployments die and meet. Correct when a user's transaction
touches that user's rows alone, every service gets the rows it works on, and a
migration lands once and whole.

**Telegram bot**, **web routes and pages**, **translations, schemas, mappers**:
rendering and validation. The send sheet matters, because it keeps its idempotency
key while the user edits the amount, and so does the bot's pump, which dispatches
notifications.

The hazards this leads to are listed in `PROJECT.json` under `hazards`, each at
its line and with the properties that watch it.

## 2. The modules

Components with state that processes share are state machines:

| module | models | code behind it |
|---|---|---|
| `TransferPromise` | what the transfer pipeline promises about money, without handlers or statuses | abstract |
| `SendPipeline` | quote, confirm, execute, cancel, expire; signer and provider as it sees them | `send.ts`, `repositories/send.ts`, 0006 |
| `ScheduledPayments` | scheduled payments and the tick that executes them | `scheduler.ts`, `planning.ts`, `repositories/planning.ts`, 0006 |
| `JobQueue` | jobs, workers, handlers, leases, reclaim | `runner.ts`, `handlers.ts`, `repositories/ops.ts`, 0005, 0006 |
| `ChainSync` | listings, scans, ingestion, confirmation walker | `chain-sync.ts`, the three providers, repositories |
| `SignerService` | the signer process, its client, managed wallets | `apps/signer`, `core/src/signer`, `wallets.ts` |
| `RateLimiter` | the two tiers of the rate limiter | `rate-limit.ts`, `app.bump_rate_limit` |
| `WebSession` | sign-in, sessions, PIN change, the API client; extends `RateLimiter` | `auth/service.ts`, `api.ts`, `AppProvider.tsx`, `useApi.ts`, routes |
| `CashLedger` | cash rows, balances, income, goals, history; extends `Money` | `transactions.ts`, `planning.ts`, repositories, 0006 |
| `Notifications` | the outbox and its two dispatchers | `notifications.ts`, `repositories/ops.ts`, `apps/bot` |
| `Market` | the rate of one pair through memo, store and providers | `packages/currency/src/service.ts`, `context.ts`, `admin.ts` |

Code that computes is functions, over inputs or over histories of events:

| module | models | evaluated by |
|---|---|---|
| `Money` | rounding, scales, decimal strings, conversion | `FiguresAgree` of `MCCashLedger` |
| `Figures` | prices, totals, analytics, periods, rate alerts, health | `FiguresAgree` of `MCCashLedger` |
| `Reminders` | sweeps of one expected income over days, word before a scheduled payment, quiet hours | `RemindersAreRegular` of `MCNotifications` |
| `Messages` | texts of notifications, their links, Telegram's answers | `RemindersAreRegular` of `MCNotifications` |
| `Providers` | HTTP outcomes, breaker and fallback, gas, balances and reconciling | `ProvidersSound` of `MCChainSync` |
| `Transfers` | configuration, wiring, build, sign, broadcast and status per network | `ProvidersSound` of `MCChainSync` |
| `Encoding` | RLP, ABI words, EVM transactions, what a signer accepts | `EncodingSound` of `MCSignerService` |
| `AddressFormats` | address texts of three networks; extends `Encoding` | `EncodingSound` of `MCSignerService` |
| `Keystore` | the encrypted keystore and its command line | `EncodingSound` of `MCSignerService` |
| `Access` | identity on a pooled connection, grants, policies, statements | `DatabaseSound` of `MCWebSession` |
| `Migrations` | the migration runner | `DatabaseSound` of `MCWebSession` |

Theorems are in eight modules. `SendPipelineProofs`, `ScheduledPaymentsProofs`,
`JobQueueProofs` and `SignerServiceProofs` are about the module each is named for;
`ChainSyncProofs` also about `Providers` and `Transfers`, `WebSessionProofs` about
`RateLimiter`, `Access` and `Migrations`, `CashLedgerProofs` about `Money`, `Market` and
`Figures`, `NotificationsProofs` about `Reminders` and `Messages`. `MC...` modules hold
instances, symmetry and the inputs of the functions. The last four proof modules extend
the MC module of their component, so that the formula a run evaluates over functions is
shown to be an instance of the general theorems.

Conventions. A variable has the name of the column or field it stands for. An
action is one database transaction or one remote call with the synchronous code
up to the next `await`; so two handlers interleave exactly where the code lets
them (`CashLedger` is finer: a transaction reads in one step and commits in
another). A definition `X_Something` in front of `X` is a plausible defect of `X`;
it is used by nothing, and put in the place of `X` it must make the property named
in `PROJECT.json` under `mutants` fail. Variables marked *history* record what
happened and influence nothing. A property of functions has the form `Init => Hold`,
because no state matters to it: TLC evaluates it once per initial state, over all
the inputs its MC module lists. These properties are checks over bounded inputs
against a definition of what the function is for, not against the function again.

### SendPipeline and TransferPromise

One user, any number of request handlers (`Callers`) and idempotency keys.

* `quote` is `StartQuote` (kill switch), `CheckLimits` (the two caps, against the
  sum of the window at that moment) and `Persist` (`INSERT ... ON CONFLICT DO
  NOTHING` and the reply, which becomes a member of `screens`). The reply to a
  replay carries the numbers just asked for and the fingerprint of the stored
  row, as the code has it.
* `confirm` is `StartConfirm`, `LoadRequest` (a plain read), `Claim` (the
  conditional `UPDATE quoted -> confirmed` with fingerprint and expiry) and
  `AuditConfirmed`. Keys of quotes whose `expires_at` has passed are in `lapsed`.
* `execute` is `ExecuteRead` (outside the `try`), `EnterSigning`,
  `BuildTransfer`, `Sign`, `Broadcast`, `Record`, `QueueOutgoing`, and
  `MarkFailed` for the `catch`.
* `cancel` is `StartCancel` (a read) and `Withdraw` (an update the trigger may
  refuse); `ExpireStaleQuotes` is the cleanup job's.
* `NextStatuses` and `Admits` are the trigger `app.assert_send_status_transition`, which is
  the only thing that orders cancel and execute.
* The signer is `signed`, the keys it remembers; it forgets them when it restarts
  and may sign without its answer arriving. The chain is `pool` (on the wire,
  unknown to the caller) and `moved` (executed): a broadcast that fails with a
  timeout or a 5xx may leave the transfer in `pool`, and `Land` executes or drops
  it later. With a simulated signer (`SIGNER_MODE=mock`) nothing moves and a hash
  is a digest of the numbers, so two requests can share one.
* A database error (`DbError`), a crash of the handler (`Crash`) and a restart of
  the signer may happen at any step they concern.

Abstracted: numbers are told apart by USD value; addresses, fees and balances
checks are an outcome of `StartQuote`; the idempotency key is per user and there
is one user.

`TransferPromise` has two variables, what the user decided per key and how many
transfers were executed, and says: a transfer happens once, only when authorised,
and withdrawal is possible only while none has happened. `SendPipeline` is shown
to implement it under the mapping `Standing` (`KeepsPromise`). It is what
`ScheduledPayments` takes for granted about one attempt.

### ScheduledPayments

Payments, workers, and per attempt the request that `SendPipeline` would hold.
The user's operations are one transaction each, except run-now, which reads in
one (`RunNowRead`) and writes in another (`RunNowWrite`): the model keeps both.
`ClaimDue` is the one `UPDATE ... FOR UPDATE SKIP LOCKED` that claims up to
`Limit` rows; a row at the `attempts` CHECK makes it fail as a whole. Then, row
by row: `Preflight`, `Quote`, `ConfirmQuote`, `Execute`, `Complete`, and
`MarkFailed` for whatever was thrown, with its distinction between transient
errors (scheduled again, while attempts remain) and decisions (failed). When
`MarkFailed` itself throws, the loop ends and the rest of the batch stays
`processing` (`Abandon`). `due` stands for `scheduled_at` and `next_attempt_at`
having passed, `leased` for `locked_until` in the future. The idempotency key of
an attempt is `(payment, attempts)`.

### JobQueue

Each kind of job is a dedupe key. `Rows` are slots of the table: a finished row
held by no worker can be read and written by no action, and its slot is used
again. `Runs` are handler executions in memory. `StartTick`, `EnqueueRecurring`,
`ClaimJobs`, then per execution `HandlerReturns` and `CompleteJob`, or
`HandlerThrows`/`TimesOut` and `FailJob`. `completeJob` and `failJob` write by id
alone and so do `SetSucceeded` and `FailJob`, whatever the row has become.
`Reclaim` is `app.reclaim_stuck_jobs`, done by the handler of the cleanup key.
`TickEnds` and `rejects` are the two ways `Promise.all` ends a tick: with the
last job, or with the first rejection while the others run on. A handler that
timed out runs on (`aside`) and its result is read by nobody. `needed` and `sees`
stand for work: it arrives at any time, a handler does what was there when it
started, and an enqueue in between is absorbed by the running row.

### ChainSync

One wallet, on one of four networks. `EvmPage`, `TonPage` and `TronPage` are the
listings of the three providers as functions of the cursor: EVM forwards over a
block range with at most a page of transfers, dropping what does not fit; TON
backwards from the cursor, inclusive; TRON backwards behind a fingerprint. (TRON
lists tokens and native TRX separately; they are two networks here.) `LogIndex`
is how each numbers its transfers, which is half of the key of a ledger row.
`StartScan`, `ListPage`, one `Ingest` per transfer and `FinishScan` are
`scanWallet`; `Ingest` is one transaction: the event claim, the row, the balance
and the notification. Two scans of one wallet may overlap although they share a
dedupe key: one that timed out runs on beside its successor, and a lease may run
out under a live one. An administrator may clear the cursor under both
(`RescanWallet`). `CheckRow` and
`SettleRow` are the walker, with an await between the answer of the provider and
the write; `Admits` is the trigger on `transactions.status`. `RecordSend` is the
row the transfer pipeline writes with log index -1. In a deployment that simulates
(`Modes`), `RecordSimulated` writes it instead, pending (`sim-`) or detected (`mock-`), and
`ConfirmSimulated` is the walker's branch that confirms such a row without asking
anybody and without a notice. `counted` is a history: how often the balance was moved
for a transaction.

Abstracted: a block has at most one transaction of the wallet, moving one unit of
one registered asset; valuation, fees and memos; the walker's batch of 25.

### Providers and Transfers

`Providers` has the code each HTTP outcome ends in (`CodeOf`), `FallbackProvider`
(`RecordSuccess`, `RecordFailure`, `Read`), gas and fees (`EstimateFee`,
`MaxFeeWei`, `BuildTransfer`), the balances each network reports and
`ReconcileBalances`. The breaker is evaluated along every history of seven events in
which reads begin and end in any order, against `Dead`, which looks only at the log
of answers: threshold many failures in a row, without a success, in the last
cool-down. `FeesBounded` relates what is quoted, what is required of the balance
and what is signed, for nodes that answer nothing, zero, the ceiling and beyond it.

`Transfers` follows one transfer through every environment the configuration schema
accepts: which provider and signer the process is wired to, what the provider
builds from a node's answer, what the signer signs or refuses, what the broadcast
answer is taken for, and what is reported. `SendIsTruthful` says a transfer reported
as sent was the requested one and left the process for the node, or was simulated
because the environment says so. `FinalWhenDeep` does the same for the status of a
transaction and its confirmations.

### SignerService, Encoding and AddressFormats

`Post`, `Answer` and `GiveUp` are `RemoteSigner.post`, whose request may arrive up
to `MaxArrivals` times, at any time before or after the caller gave up. `Refuse`
is a failed authentication; `ClaimNonce` the nonce cache with its clearing;
`HandleSign` and `RefuseSign` one synchronous handler: policy, key, expiry,
signature, record. `Generate` puts the new key in memory, then awaits: `OpenFile`
truncates the file, `WriteEnds` or `WriteFails` ends the write, and other requests
run in between; `GenerateAtOnce` is a generation answered from memory. `Stop` may
happen in the middle of a write and `Start` refuses a file that does not parse
(`Loadable`). `StoreWallet` is the insert that `WalletService.createManaged` makes
when the address comes back. `spent` holds the spend records; `spentMinor` sums those
inside the window. `damaged` records that a write was cut short or
overlapped another, which is the code's stated limit for the file.

`Encoding` has RLP, ABI words, legacy and typed envelopes and EIP-155 to the bit,
with scaled-down word lengths, and `SignTransaction` with the checks of the three
networks: what is signed reads back as what was asked and nothing else shares its
bytes. `AddressFormats` has base58 with its checksum, the friendly and raw forms of
TON with CRC16, and EIP-55: each account has one stored form. `Keystore` has the
entries of the file as boxes that open with the key and the associated data they were
closed with, and the commands that import, rotate, verify and remove them.

### WebSession and RateLimiter

A page is an opening of the Mini App with `initData` of its own, and its requests
are coroutines that share a token and one re-authentication. A message of `wire` is
a request with the step its server has reached: `LimitExchange` (the limiter),
`ClaimExchange` (the replay claim in `processed_events`), `UpsertUser`,
`CreateSession`; `RefuseCall`, `AnswerGet`, `ResolvePin`, `CheckPin`, `StorePin`.
On the client, `ReceiveCall`, `ReceiveBoot`, `AwaitReauth` and `ReceiveReauth` are the
continuations after a response, with the 401 handling of `api.ts`: one that was
refused joins or starts the shared re-authentication, once; when the refused one is
the re-authentication, it joins itself, and its page is in `refused` until it is loaded
again (a history). `Load` is a reload,
which forgets memory but not `initData`; `Lose` a response that never arrives or a
request that never leaves. `CleanupExpired` deletes old claims and sessions and
`SetUserActive` is the administrator's.

`RateLimiter` is the part of it that counts: `CountedLocally` before the await,
`AdmittedByStore` or `RefusedByStore` after it, with the window read again. When the
store fails the request is let through (`AdmittedByFallback`), as the code has it,
so `LimitHolds` counts what the store admitted.

### Access and Migrations

`Access` is what PostgreSQL makes of migrations 0007 and 0009 and of `client.ts`:
`Begun` and `Returned` are the settings of a connection at the beginning of a
transaction and after it, `Granted` the grants, `Admits` the policies of a table
and command, `Inserted`, `Updated`, `Upserted` and `Deleted` the outcomes. A row is
its owner and whether the system owns it. The properties are over every pair of
contexts and rows, every table, and every history of three transactions on one
connection; `ServicesAreServed` runs the statements the services make under the
identity they make them with. `Migrations` applies files one by one with a
checksum, a death before any of them, and a view of `schema_migrations` that may be
older than another deployment's writes.

### CashLedger, Money and Figures

An execution is one run of a request handler. `BeginCash` and `CommitCash`,
`ConflictCash` (the unique violation) and `ReplayCash` are
`createCashTransaction`, into the default account of the currency or an account that is
`Named`, and `RefuseCash` what it refuses at once; `UpdateCash` and `RemoveCash` edit and delete;
`SyncCashBalance` is the trigger, which is part of each of them. `BeginReceive`,
`CommitReceive` and `RefuseReceive` are `setExpectedIncomeStatus` to `received`, under
the income's own key or one that the client sends: the unique key lets one of two through,
the trigger does not, since it admits `received` after `received`. `ContributeToGoal`,
`UpdateGoal` and `RemoveGoal` go through `SyncGoalStatus`. `OpenHistory` and
`NextPage` read by keyset, and `reader.steady` are the rows nobody touched since
the reading began.

`Money` is compared with the inequalities that define each rounding, and round
trips of decimals; `Figures` computes prices, totals and shares, analytics
of periods, the rate alert and the health report, and `FiguresAgree` relates them: a
price is missing only if nobody has one, a total that is shown as whole leaves
nothing out, series and categories add up to the period, periods nest, an alert
says what happened.

### Notifications and Reminders

`EnqueueNotification` is the insert under the dedupe key. `ClaimNotifications` is the
one statement of `app.claim_notifications`: it raises `attempts`, leaves the row
`queued`, and fails as a whole at the CHECK (`AttemptsCheck`). A run holds a
batch and goes row by row: `Suppress`, `Defer`, `Send` with Telegram's answer, then
`Sent` or `Failed`, each a transaction by id alone. `SentUnwritten` is a markSent
that fails, `Abort` a run that ends in an error, `Crash` a process that dies. The
pump of the bot and the worker's job are two runs that may overlap. `doubted` and
`spent` name the events for which something of that happened. `Reminders` counts time
in half days, because the query compares moments and the key calendar days, and in
quarters of an hour for a payment ahead. A history says when the worker swept and when
the user moved the date, and `Spaced`, `Silences` and `UpcomingRegular` are what the
messages queued must look like. `Messages` escapes, shortens and addresses the texts, and
classifies the answers of the Bot API as `notifications.ts` does.

### Market

The memo, the row, the load in flight and the refresh job, for one pair. `GetPinned`
answers a user who pinned a rate with it, before anything else; `GetRate`
answers from the memo or joins or starts the load; `LoadLatestFx`, `LoadFetches` and
`LoadFails` are its steps over providers in order, `Resolve` and `Reject` what the
shared promise does. `RefreshRate...` is the job, `SaveFxElsewhere` another process
and `SetManualRate` the administrator, here or in another process. Ages count up to
`Old`, past which nothing tells them apart. A rate also has a `lag`, the age its provider
gave it as it was fetched (`Lags`): the code reads that date and then counts from the fetch. The module's specification is `RateSpec`,
so that it can be extended beside another.

## 3. The runs

| run | instance | what it shows |
|---|---|---|
| `send_safety` | 2 keys, 2 handlers, values 1 and 2 under caps 2 and 3, both signer modes, crash, database, provider and signer failures | `AtMostOneTransfer`, `WithdrawnNeverMoves`, `ReportedIsReal`, refinement of `TransferPromise` (`KeepsPromise`) |
| `send_settles` | 2 keys, 2 handlers, provider and signer failures, fair handlers | `ConfirmedIsSettled` |
| `schedule_safety` | 1 payment, 2 workers, 2 automatic attempts and 1 more, batches of 2, every failure, run-now | `OneWorkerPerPayment`, `CancelledIsIdle`, `PaidOnceUnlessInDoubt`, `ClaimEnds` |
| `schedule_retry_pays_twice` | 1 payment, 1 worker, provider failures | `PaidAtMostOnce` is violated |
| `jobs` | the cleanup key and another, 2 rows, 2 executions, 2 workers, 2 faults of any of six kinds | `PoisonJobRetires`, `OneHandlerPerKey`, `WorkIsDone`, `AbandonedIsReclaimed` |
| `chain_safety` | 4 networks, an incoming and an own outgoing transaction or a simulated one, 3 blocks, pages of 2, 2 scans, 2 walkers, 2 faults | `CountedOnce`, `BalanceFollowsLedger`, `ToldTheTruth`; `ProvidersSound` |
| `chain_arrives` | 3 networks (TRC20 lists as TRX does), 3 transactions for pages of 2, 3 blocks, 2 scans, 1 fault, fair scans | `ArrivesIfInReach` |
| `signer` | 2 calls that arrive up to twice, 2 intents, values 1 and 2 under caps 2 and 3, 3 moments, 2 process starts, memories of nonces and answers dropped past 1 and 0 | `SignedOnce`, `DailyCapHolds`, `KeysKept`; `EncodingSound` |
| `web_session` | 2 pages, 2 loads, 2 server processes with a limit of 1 per window, 2 windows, 2 queries, a PIN, 1 fault of network, database, restart or administrator | `LimitHolds`, `OneSessionPerInitData`, `PinChangeEndsOthers`, `NobodyForgotten`, `NewestShown`; `DatabaseSound` |
| `cash` | 3 executions, 2 keys and the income's, 2 row ids, amounts -1, 0 and 1, 2 moments, pages of 1 row | `BalanceIsSum`, `RecordedOnce`, `IncomeAgrees`, `PagesComplete`; `FiguresAgree` |
| `notifications` | an ordinary event and a security alert, pump and job, 3 attempts, 1 fault of crash, database, lost answer or preferences | `DeliveredOnceUnlessInDoubt`, `AbandonedInTime`, `EveryNotificationSettles`; `RemindersAreRegular` |
| `market` | 2 requests, 2 providers, quotations 0 or 3 ticks old, fresh for 2 ticks and stale for 2, a pair with a sanity band | `RatesTrustworthy`, `EveryAskerAnswered` |

**Bounds and why they are enough.** Every race named in the hazards is between
two actors over one row, so two handlers, workers, scans, walkers, calls, pages or
dispatch runs are the smallest instance where it happens, and a third actor repeats
the role of one of the two. Two keys let the daily sum, the shared simulated hash and
the expiry batch involve a second row. In `ScheduledPayments` one payment is enough
for every property stated, since they relate rows of one payment; `MaxAttempts = 2` and
`Slack = 1` let a payment be retried, be given up on and reach the CHECK. In
`JobQueue` two rows hold the two pending jobs there can be (one per key; a row
queued again by a late outcome competes for the same key), and `MaxFaults = 2`
allows the pairs that matter: a crash after a stall, a lost answer and a crash, a
timeout and a shutdown. In `ChainSync` three blocks with a page of two and a
block range of one let transfers fall off a page, fall outside the lookback, and
arrive after a cursor was stored. In `SignerService` the memories of nonces and
answers are dropped within the two calls, and three moments with a window and a
skew of one let a request be fresh, late and too late, and the daily window slide. In
`WebSession` the two windows let the clock turn between the two tiers of the
limiter, a second exchange exceeds the limit, and a session ends while its page is
open. In `CashLedger` three executions let two handlers race for one key while a third
edits or deletes, and two rows over pages of one make the reader pass a boundary. In
`Notifications` `AttemptsCheck = MAX_ATTEMPTS + 1` lets the queue jam, which the
property names. Only crashes and overlaps take attempts without an outcome; the run bounds them
(`MaxFaults`), where the code has a CHECK of 20 that it takes many of them to reach. In `Market` an age past every limit (`Old`) is one value. The
theorems below hold for all values, faults and sizes, with no bound. Runs without
liveness properties use symmetry where values are interchangeable.

The inputs of the functions are in the MC modules and chosen at the boundaries the code
has: RLP lengths 55 and 56, quantities of 255, 256 and one more than a word,
estimates at and beside the gas limits, prices at the ages that turn stale,
histories long enough for a breaker to open, let one read through and open again, all
days of a year on every weekday, sixty-odd histories of sweeps.

**Deadlock** is not checked where the system may rightly stop: a payment, a ledger, a
signer whose bounded clock, starts and arrivals are used up, a page whose user asks for
nothing.

**Fairness**, per module, and what in the code justifies it:

* `SendPipeline`: weak fairness of each handler's steps (a process that runs keeps
  running, its awaits end: every remote call has a timeout) and of
  `ExpireStaleQuotes` (recurrent job). `send_settles` excludes crashes and database
  failures, because a handler that dies leaves its row `confirmed` or `signing`
  and nothing in the code looks for such rows.
* `ScheduledPayments`: weak fairness of each worker (ticks are enqueued for ever
  by a recurrent job), of leases running out and of payments coming due (time).
  `ClaimEnds` excuses the claims whose worker died or whose `markFailed` threw
  (`lost`). The runs allow the system to stop, since every payment may be settled.
* `JobQueue`: weak fairness of execution steps, of the loop, of the claim, of
  restart (the platform restarts a process) and of leases; strong fairness of
  enqueueing a key, since its interval elapses again and again and at each time
  the row may or may not be there, and of claiming a queued row, since the claim
  is ordered and a row comes to the front of the queue.
* `ChainSync`: weak fairness of each scan's steps: scans are enqueued again and
  again by a recurrent job and end. Nothing is assumed about the walkers.
* `Notifications`: weak fairness of the pump's claim (a timer of 5 seconds), of the
  steps of a run that holds rows (the Bot API call is cut off after 10 seconds), of a
  deferred row coming due and of the end of quiet hours (time). Nothing is assumed
  about the worker's job, users or faults. `EveryNotificationSettles` excuses a queue
  that jams at the CHECK.
* `Market`: weak fairness of the load's steps: queries return and providers have a
  timeout. Nothing is assumed about requests, the job, or time.
* `signer`, `web_session` and `cash` assume none: their properties are safety.
  `NobodyForgotten` is the safety half of not hanging: what a coroutine awaits is there,
  unless its page is in `refused`.

## 4. The proofs

All proofs are by an inductive invariant, split into named parts, with one lemma
per action and one temporal step per theorem.

**`SendPipelineProofs`**: for all keys, handlers, values, caps, signer modes and
faults, from `KeysAssumption` (the sentinel is no key), `ValuesAssumption`
(values are positive) and `ModesAssumption`.
`TypeCorrect`, `AtMostOnce`, `Withdrawn`, `ReportsReal`, and `Refines` (the
pipeline implements `TransferPromise`, step by step). `AtMostOneTransfer` alone
is not inductive: a state with two handlers about to broadcast one key satisfies
it. The argument that excludes such states is `IInv`: the conditional update
admits one handler per request into `execute` (`OneExecutor`, over `JobsReal`);
the trigger keeps the row where that handler is (`RowFollowsHandler`), so a
cancel that slips in is met by the trigger before anything is signed; a handler
that has not reached the broadcast has moved nothing (`NothingSentYet`); once
something moved, the row is in a status that nothing withdraws (`SentRows`); and
what is reported with a real signer has a hash of its own (`ReportedRows`). The
memory of the signer is not used: it may be lost at any time, and the database
alone carries the argument.

**`JobQueueProofs`**: for all keys, rows, workers, executions, limits and faults.
`TypeCorrect`, `OnePending`, `PoisonRetires`, `OneHandler`, `FinishedForGood` (an
action property). Outcomes are written without asking whose the row is, so a row
and its executions come apart once a lease runs out under a live execution or the
answer to an outcome is lost; such rows are `unfenced`. The invariant says that up
to there a row in hand is running under a good lease (`HeldRunning`) and in one
hand only (`SoleHolder`); that a queued row has an attempt left (`AttemptsLeft`,
why a reclaim or a retry never exceeds `max_attempts`); and that one row per key
is pending (`PendingUnique`, kept by the partial index at insert and at
re-queueing). `OnePending` turns `PendingUnique` into a bound on a cardinality,
for infinite sets of rows as well.

**`ScheduledPaymentsProofs`**: for all payments, workers, limits and faults, from
`PaymentsAssumption` and `BoundsAssumption`. `TypeCorrect`, `KeysApart`,
`OneWorker`, `CompletedPaid`, `CancelledIdle`, `PaidOnce`. A row in hand carries the
attempt it was claimed with and a later claim counts higher, so keys are never
shared (`KeysNeverShared`, with `OnceInHand` for the rows of one worker). As long as
run-now has not written over a claim, a payment in hand is processing
(`HeldProcessing`): no other claim and no cancel can take it. Before `Execute`
nothing of it was sent (`Fresh`), what was sent keeps it processing or completed
until it is given up on (`SentRemembered`), and that is when it becomes `doubted`.
Leases appear nowhere in the argument: they exclude nothing that the status does
not exclude already.

**`ChainSyncProofs`**: for all walkers, scans, page sizes, depths and faults.
`Truthful` and `ConfirmedFinal`: a walker's answer may be old when it is written;
what makes a transfer final stays true while the chain grows (`AnswersHold`, with
`MinedOnce`), and a settled row admits no other outcome. A simulated row is in no
walker's hand and is confirmed without a notice; `ConfirmedFinal` leaves those rows out,
and TON, where a transaction is confirmed when it is found. This invariant (`IInv`) leaves
out what the listings return, so the two theorems hold for any provider.

`TypeCorrect`, `CountedAtMostOnce` and `BalanceIsLedger` need the listings (`Books`):
what is listed is in order and took place (`ListedSound`, where a sorted arrangement of a
finite set exists because a smallest set without one would not be smallest), and off
TRC20 a movement has one number wherever it is listed (`Numbered`); so two scans that
hold the same movement meet the same event key and the same row key, what was
counted has a row (`CountedHasRow`), and each move of the balance has a claimed event of
its own (`Tally`). On TRC20 that leaves one per position in a page, and no more is said. Up to the first clamp at zero the cached balance
follows (`BalanceFollowsLedger` is inductive with these).

Of `Providers`: `FeesAlwaysBounded` (any node; a chain whose fallback gas price is within
its ceiling, as in `chains.ts:63-79`), `AlwaysPassedOverWhenDead` (any history of
overlapping reads: the breaker's counter is the number of faults since the last success
modulo the threshold, and its deadline that of the last multiple), `AlwaysFailsOver`
(any number of reads over any number of providers, by what is known after each
provider: `ReadTells`) and `AlwaysReconciled` (any tokens, failures and listings).

Of `Transfers`: `SendsAreTruthful`, by cases over what the environment, the node and the
signer make of a send (whatever the texts in the variables), and `FinalOnlyWhenDeep`, for every block, head and
depth. `ProvidersAlwaysSound` puts these together: what the run evaluates holds.

**`SignerServiceProofs`**: for all calls, intents, keys, caps, windows and bounds, from
`TimesAssumption`: a caller's clock is ahead of the signer's by less than the skew
allowed. `TypeCorrect`, `OneSignature`, `CapKept`, `KeysSafe`. A request let in is among
the nonces until it is too old to be let in again (`NonceKept`, where the assumption is
used); an intent that was
signed has its answer until the memory is cleared (`AnswerKept`); the spend records are
what this process signed in the window (`SpendKept`), so the sum that is compared with the
cap is the sum that matters; and every promised address is in memory and in the file or in
the one write that has emptied it (`FileKept`), unless `damaged`.

**`WebSessionProofs`**: for all pages, processes, coroutines, limits, lifetimes and faults,
from `TimesAssumption` (a claim outlives its `initData`: `MaxAge + Skew <= ReplayTtl`),
`GetsAssumption` and `LimiterAssumption`. `TypeCorrect`, `LimitKept`, `OneSession`,
`PinEndsOthers`, `NoneForgotten`, `ShownInOrder` (an action property). A coroutine that
waits has exactly one request that can answer it (`OneAwaited`, `ReauthAwaited`), or waits
on a re-authentication that was refused and waits for itself (`Jams`); of an
`initData` at most one exchange is past the claim (`Exclusive`), whose claim is there
until the `initData` has expired (`Remembered`); a session that exists when a PIN is
stored is ended in that transaction (`PinKept`); what a window of the store has admitted is
what it has counted (`PassedCounted`), whatever the processes have forgotten; and runs of
a hook begin in order (`InOrder`).

Of `Access`: `ConnectionsForget`, `OwnRowsAlone`, `AdministratorsInspect` and `TrailKept`,
by cases over the policies, for any users and rows and whatever the rows hold;
`IdentitiesNeverLeak`, along any list of transactions on one pooled connection (what a
transaction returns is a connection that acts as nobody, `Pooled`); and `ServicesServed`,
table by table. Of `Migrations`: `AlwaysDeployedSoundly`. A database is reached by
deployments is in `Deployed`: no version is recorded twice, and the schema is made of the
recorded bodies in their order. The theorem says that the empty database is one, and that
a deployment of any files, stopped anywhere and overtaken by any other, does what it
promises and leaves one again. `DatabaseAlwaysSound`
puts these together.

**`CashLedgerProofs`**: for all executions, keys, row ids, amounts, moments and page
sizes, from `LedgerAssumption` and `NoneAssumption`. `TypeCorrect`,
`RecordedAtMostOnce`, `IncomeAgreement`, `GoalAgreement`. The difficulty is that what a
handler read may be old when it commits. Of an execution that has begun, the step
says which key it carries (`KeysFollowStep`), and what receiving recorded is told from
what users recorded by its source: the row, the status and the link change in one
transaction, so that there is a row exactly when the income points to one. That there is
only one rests on the unique key alone, and on no lock; so it holds while clients send no
key of their own, and the theorem says no more. What every
step may do to rows, income and goal is stated once (`Change`), so each theorem follows
from that and not from the handlers again.
`BalancesAddUp`: the trigger changes a balance by the difference a row makes to the sum.
That a sum over a finite set changes by what one member changes is proved for the fold
of the community modules: a smallest set for which it failed would have a smaller one.
`PagesShowAll`: a page is the rows behind the cursor with fewer than a page of newer
ones, so that a row nobody touches is on the page or behind the next cursor
(`ReaderSound`), whatever is inserted, moved or deleted around it.

Of `Money`, for every amount: `RoundedAsNamed`, `RoundedEvenly`, `ConvertedEvenly`,
`AllocatedAll`. Of `Market`: `RatesAreTrustworthy`, for all requests, providers and
periods (`RatesKept`: what is memoised, in a load and answered is as young as the periods
and the timeouts allow, counted from its fetch, and what a user pinned is in none of them). The attempt showed that the age of an answer had been bounded too
tightly: `config.ts:118-119` accepts a refresh period longer than the staleness
ceiling, and a memo then serves a rate for two refresh periods; the bound is now the
larger of the two. Of `Figures`: `PricesAlwaysFound`, `ReportsAlwaysTrue` (of a summary
that withholds a total only when it says it is partial) and `AlertsAlwaysTrue`.

Of decimal strings: `AmountsReadBack`, `NeverCut`, `AmountsShown` and `RatesInvert`. The
digits written of a number, padded to any width, are those that write it (`Run`,
`Written`), and reading weighs them again; what is shown is rounded half up, which is
odd, so that a sign written in front of the absolute value changes nothing. Amounts and
scales are below `MaxDigits` digits, the width up to which the model writes a number out;
the proofs use nothing else of it.

Of totals and overviews: `TotalsAreWhole` and `OverviewsAddUp`, for any finite set of
assets or rows. A sum splits by a condition, and by the value of a function (the buckets,
the categories), fibre by fibre; a share is cut off at a basis point, so that shares stay
within the whole and lose less than one basis point each. `PeriodsAlwaysNest` is by cases
over the twelve months of the calendar. `FiguresAlwaysAgree` puts all of these together.

**`NotificationsProofs`**: for all events, runs, limits and faults, from
`EventsAssumption`, `RunsAssumption` and `AttemptsAssumption` (at least two attempts, at
most as many as the CHECK admits). `TypeCorrect`, `DeliveredOnce`, `Abandoned`. Nothing
fences a row, so a row and the runs that hold it come apart when a second run claims it
under the first (`Overtaken`). Up to there a row in hand is queued (`HeldQueued`) and in
one hand (`SoleHolder`), a message that went out is on record or about to be
(`Accounted`), and a row that waits has attempts left (`AttemptsCounted`).

Of `Reminders`, for all dates and histories: `RemindersAlwaysRegular`. What is known
after each half day is `Heard`: no message is later than the mark, and of a payment never
moved the keys tell up to when it was announced, in stretches of three days (`Slot`). A
sweep that the query lets through is more than three days after the mark and so in a later
stretch, which is why the key never swallows it. `UpcomingAlwaysRegular` (`Announced`)
and `QuietHoursAlwaysWrap`.

Of `Messages`: `TextsEscaped`, for texts over any characters and of any length. A text
grows by a character, its escaped form by the block that stands for it, and what a reader
sees by that character (`EscapedMore`): what is escaped never ends in an `&`, so that
nothing written behind it is taken for the name of an entity (`Escaped`), not even a
name that a user typed. A text with an exception has a shortest one.
`LinksAlwaysLeadBack`: a start parameter is taken apart into what it was put together
from, and the four prefixes differ. `MessagesAlwaysComplete`: each payload queued suits
the template of its type (`Suits`), and what suits it is rendered completely.
`RepliesAlwaysUnderstood`, by cases. The attempt showed that the choice of buttons had been
written with arms that overlap, which TLC resolves by their order and the logic does not;
it now has the order of the code. `RemindersAlwaysHold` puts these together.

**Functions along histories.** A history is followed by a recursive function
(`after[t \in 0..Len(history)]`; the migrations to run, the transactions of a connection,
the powers of ten and the blocks of a text likewise), whose existence is proved for each
history, since the
provers cannot instantiate the library's theorems on recursion and induction, which
take an operator as a parameter. In their place stands the least number at which a
statement fails: there is one by well-foundedness (`WFMin`), it is not the first, and
the step before it leads to a contradiction.

**Only model-checked**:

* of the functions, over the inputs `MCSignerService` lists: `Encoding` and
  `AddressFormats` (bitwise operators, which a module with theorems cannot use) and
  `Keystore` (beside them in one formula, over their inputs). So `EncodingSound` is the
  one invariant of a run that no theorem states;
* all liveness (`ConfirmedIsSettled`, `ClaimEnds`, `WorkIsDone`,
  `AbandonedIsReclaimed`, `ArrivesIfInReach`, `EveryNotificationSettles`,
  `EveryAskerAnswered`), which with fairness and `ENABLED` is outside what the prover
  handles.

## 5. Disagreements between code and documentation

One is a run that ends in a counterexample, quoted in `PROJECT.json` under
`findings`: a scheduled payment whose broadcast timed out is retried under a new key
and may be paid twice (`schedule_retry_pays_twice`). The others were met while
translating; the models have what the code does, and the properties leave
the case out by name or are stated about the rest.

Transfers and payments:

* A quote replayed under its key shows the new numbers, while the fingerprint and
  what is sent are the old ones (`send.ts:317-331`; `docs/security.md:192`).
* The claim of a worker that died never expires (`repositories/planning.ts:345`;
  `scheduler.ts:79`, `docs/security.md:140`). `ClaimEnds` excuses it.
* Whatever fails after a broadcast ends in the catch block: a request whose funds moved is
  marked failed (`send.ts:527`). `ReportedIsReal` is about what is recorded as sent.
* A simulated send is recorded `pending` when the signer is the mock (`send.ts:464`), and the
  walker lists `detected` and `confirming` rows only (`repositories/transactions.ts:361`),
  so that it never settles, although `chain-sync.ts:332` confirms it "so the UI settles".
  Those of a mock provider are confirmed, without a notice (333-343).
* Run-now may write over a claim and have a payment executed twice (the exception
  `overridden` of `PaidOnceUnlessInDoubt`); two quotes that each fit the daily cap can
  both be confirmed.
* The signer's schema refuses `bsc` (`apps/signer/src/index.ts:88`;
  `docs/security.md:303`), and a transfer on TON always ends in `SIGNER_REJECTED`,
  because no cell hash is built. TRON's "already known" counts as a failure
  (`tron.ts:532`); a TON transaction is final as soon as it is found
  (`ton.ts:306-324`).

Jobs and notifications:

* A worker that dies while running the cleanup job blocks every later reclaim
  (`handlers.ts:214` with `0005_operations.sql:74-77`; `docs/architecture.md:354`).
* Two overlapping dispatch runs deliver a row twice (`notifications.ts:25-27`,
  `bot/index.ts:38-40`); a row is given up on after 5 attempts, not 6 (lines 31 and 159).
* A payment that is moved after it was announced is not announced again
  (`scheduler.ts:314`; `repositories/planning.ts:266-299` leaves the mark), and "Nothing
  was sent" of a failed scheduled payment (`i18n/en.ts:323`) may follow a broadcast that
  was lost on the way back. The notice of a settled transfer shows the raw amount
  (`chain-sync.ts:373`).

Chain:

* On TON, after the first scan nothing newer is ever listed (`ton.ts:294-297`;
  `chain-sync.ts:20`); `OutOfReach` says how TRON and EVM lose transfers too.
* A transfer waiting in an EVM mempool is marked failed for good
  (`chain-sync.ts:351`, `evm.ts:413-427`; `tests/integration/chain-sync.test.ts:257`).
* A TRC20 transfer is numbered by its place in the page, so that re-reading after a newer
  transfer or a rescan counts it again, although a replay "creates no duplicates"
  (`admin.ts:170-171`). `CountedOnce` asks for once per place there, and for once elsewhere.
* A token whose node does not answer is reported as 0 and reconciling would write it
  (`evm.ts:247-255`). 4xx answers and gas errors count towards the breaker
  (`fallback.ts:98-104`).

Sessions and the database:

* A re-authentication that is refused awaits itself (`api.ts:145-153` with
  `AppProvider.tsx:139`): it was sent by the same request function, whose 401 handling
  joins the shared re-authentication, and that is itself. Expired `initData`, and
  `initData` exchanged before, are refused that way, also as a page is opened. From then on
  every request that meets a 401 waits for ever, until the page is loaded again, against
  `api.ts:121-122` ("must surface rather than loop"). `NobodyForgotten` names these pages
  (`refused`) and says that nobody else waits in vain.
* Two PIN changes that cross are both checked against the old PIN
  (`auth/service.ts:250`), and each ends the session of the other.
* The failed PIN counter is rolled back by the error thrown after it
  (`auth/service.ts:312-326`).
* An unbound connection is granted everything by 0009, against `0007:12-13` and
  `0001:116`; some request handlers run as the system (`admin.ts:71-199`), against
  `docs/security.md:98`; an administrator's change and its audit entry are two
  transactions (`admin.ts:115-118`, against `base.ts:74-75`).
* The migration lock belongs to a session while the pool has two connections, and a file
  with an earlier number added later is applied after later ones.

Money and figures:

* An expected income can be recorded twice: `received` may be set again under a key of the
  client's (`planning.ts:213`, which the status route takes from the body), and the trigger
  admits `received` after `received`. So income and ledger disagree, against
  `planning.ts:158-160`, 212 and the comment of the route. A recorded row that is deleted
  leaves the income received. `IncomeAgrees` states both: the income points to one of the
  rows recorded for it, and there may be others only where a client sent a key.
* An income can be recorded in an account of another currency: `planning.ts:185-191` does
  not compare them, as `transactions.ts:75` does.
* A contribution to a goal ignores its key (`planning.ts:578-605`;
  `contribute/route.ts:8`).
* The total of a wallet in shekels leaves out what has no rate without saying so
  (`wallets.ts:177-204`); the value of an outgoing transaction is negated twice
  (`chain-sync.ts:260`), which lowers expenses; a stale rate turns the whole health report
  down, against `health.ts:8-11`.
* er-api dates its own quotation (`providers.ts:123-125`), but the store drops the date
  (`context.ts:55-65`) and the answer is `stale: false, ageSeconds: 0` (`service.ts:186`,
  226): a rate its provider calls old passes as fresh, against the policy at
  `service.ts:29-30`. `RatesTrustworthy` bounds what comes on top of that date (`lag`).
* A rate that a user pins is not compared with the sanity band (`service.ts:108-113`).
* A memo may serve a rate older than `maxStalenessSeconds`, only USD/ILS has a sanity
  band (`context.ts:181`), and a manual rate is replaced by the next refresh
  (`admin.ts:192`).

## 6. What is not modelled

Listed per component in `PROJECT.json`. In short:

* `chain.reconcile` and `schedule.execute` as jobs, because no code enqueues them (what
  reconciling computes is in `Providers`); `withRetry` and `translateDbError`, which
  nothing calls;
* the bot's commands, pages, translations, schemas and mappers: they read, validate and
  format, and keep no state (texts of notifications are in `Messages`, the bot's pump is in `Notifications`, the API client and
  sign-in in `WebSession`, the send sheet's key in `SendPipeline`);
* the cipher of the keystore (a box in `Keystore`), the command line working on the file of
  a running signer, whose next write replaces it, curve arithmetic, hash functions, and the wire formats of TRON and
  TON transactions: pure functions of third-party specification whose inputs a small
  instance cannot represent;
* the verification of a PIN with its counter and lock, which the code rolls back;
* renaming, archiving and tagging of wallets, contacts and categories: single
  statements on one row;
* seed data, deployment files and build configuration.

A balance of `ChainSync` is one number of one asset, the outbox of `Notifications`
belongs to one user, `Market` is one pair, and `WebSession` one user.

## 7. The plan

Written so that modules can be proved about as well as checked: parameters are
constants with named assumptions, one action per operation, invariants in named
parts, no recursive operators.

1. `TransferPromise`, `SendPipeline`, proofs of safety and refinement. *Done.*
2. `ScheduledPayments`, on top of what (1) promises, with proofs. *Done.*
3. `JobQueue` with proofs. *Done.*
4. `ChainSync`, with proofs about rows and answers, counting and the balance; with
   `Providers`, with proofs. *Done.*
5. `SignerService`, with proofs. *Done; to be composed with `SendPipeline`, whose `Sign`
   is an abstraction of it.*
6. `Notifications`, `Reminders` and `Messages`, with proofs. *Done.*
7. `RateLimiter` and `WebSession`, with proofs, also about `Access` and `Migrations`. *Done.*
8. `CashLedger`, with proofs, also of the sums and the pages. *Done.*
9. The functions: `Money`, `Figures`, `Providers`, `Transfers`, `Access`, `Migrations`,
   `Reminders` and `Messages` with proofs; `Encoding`, `AddressFormats`, `Keystore` over
   bounded inputs. *Done.*
10. `Market`, with proofs. *Done.*
11. Composition: `JobQueue` with the handlers of `ScheduledPayments`, so that the
    assumption that ticks overlap is derived from leases rather than assumed.
