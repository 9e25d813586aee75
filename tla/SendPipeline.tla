---------------------------- MODULE SendPipeline ----------------------------
(***************************************************************************)
(* The two-phase transfer pipeline of one user: quote, confirm, execute,   *)
(* cancel and expire (packages/core/src/services/send.ts over              *)
(* packages/db/src/repositories/send.ts and the status trigger of          *)
(* supabase/migrations/0006_functions.sql).                                *)
(*                                                                         *)
(* A request handler is a Caller.  Each database transaction, each call to *)
(* the signer and each call to the chain provider is one step of it, so    *)
(* two handlers interleave exactly where the code awaits.  A handler may   *)
(* stop for good between any two steps (Crash), and the kinds of failure   *)
(* listed in Faults may happen at the steps they concern.                  *)
(***************************************************************************)
EXTENDS Naturals, FiniteSets, FiniteSetsExt

CONSTANTS
    Keys,     \* client idempotency keys; one send_requests row per key
    NoKey,    \* the key of a handler that is not running
    Callers,  \* request handlers that may be in flight at once
    Values,   \* a transfer's numbers (amount, fee, recipient), told apart by USD value
    TxCap,    \* config.sending.maxUsdPerTxMinor
    DayCap,   \* config.sending.maxUsdPerDayMinor
    Modes,    \* signer modes of the deployment: TRUE is SIGNER_MODE=mock (simulated)
    Faults    \* which of "crash", "db", "provider", "signer" happen

ASSUME KeysAssumption   == NoKey \notin Keys
ASSUME ValuesAssumption == Values \subseteq Nat \ {0}
ASSUME CapsAssumption   == TxCap \in Nat /\ DayCap \in Nat
ASSUME ModesAssumption  == Modes \subseteq BOOLEAN

VARIABLES
    simulated,      \* context.app.signer.simulated, fixed when the process starts
    sendingEnabled, \* app_settings.sending_enabled
    status,         \* send_requests.status per key, "none" before the row exists
    amount,         \* the numbers stored in the row, which quote_fingerprint digests
    lapsed,         \* keys whose expires_at has passed
    txHash,         \* send_requests.tx_hash
    ledger,         \* rows of transactions the pipeline wrote
    screens,        \* quotes delivered to the client
    pc, job,        \* per handler: its next step, and the request it serves
    signed,         \* idempotency keys the signer remembers
    pool, moved     \* per key: signed transfers on the wire, and executed on chain

rowVars   == <<status, amount, lapsed, txHash>>
chainVars == <<signed, pool, moved>>
vars == <<simulated, sendingEnabled, rowVars, ledger, screens, pc, job, chainVars>>

----------------------------------------------------------------------------
(* The send_requests status machine, as the row trigger enforces it. *)

Statuses == {"none", "quoted", "confirmed", "signing", "broadcast",
             "completed", "failed", "cancelled", "expired"}

\* Mutant: a transfer may still be withdrawn while it is being signed.
NextStatuses_CancelWhileSigning(s) ==
    CASE s = "quoted"    -> {"confirmed", "cancelled", "expired"}
      [] s = "confirmed" -> {"signing", "failed", "cancelled"}
      [] s = "signing"   -> {"broadcast", "failed", "cancelled"}
      [] s = "broadcast" -> {"completed", "failed"}
      [] OTHER           -> {}

NextStatuses(s) ==
    CASE s = "quoted"    -> {"confirmed", "cancelled", "expired"}
      [] s = "confirmed" -> {"signing", "failed", "cancelled"}
      [] s = "signing"   -> {"broadcast", "failed"}
      [] s = "broadcast" -> {"completed", "failed"}
      [] OTHER           -> {}

\* An UPDATE to the status the row already has always passes the trigger.
Admits(k, s) == s = status[k] \/ s \in NextStatuses(status[k])

\* The rows the daily cap counts, and their total.
Committed(k) == status[k] \in {"confirmed", "signing", "broadcast", "completed"}
SpentUsdMinor ==
    MapThenSumSet(LAMBDA k : amount[k], {k \in Keys : Committed(k)})

----------------------------------------------------------------------------
(* A quote as the client holds it: the request's key, the numbers on the    *)
(* screen, and the fingerprint to echo.  A fingerprint is a digest of a     *)
(* row's numbers, so it is modelled by those numbers.                       *)

Quotes == [key : Keys, numbers : Values, fingerprint : Values]

NoJob == [key |-> NoKey, numbers |-> 0, fingerprint |-> 0]

NoHash == <<"none", NoKey>>

\* A real hash belongs to one signed transfer.  A simulated one is the digest
\* of the unsigned payload, a function of its numbers.
HashOf(k) == IF simulated THEN <<"sim", amount[k]>> ELSE <<"tx", k>>

Quoting   == {"limits", "persist"}
Executing == {"audit", "execute", "enter", "build", "sign", "broadcast", "record",
              "notify", "fail"}
Labels    == {"idle", "load", "claim", "withdraw"} \cup Quoting \cup Executing

Goto(c, label) == pc' = [pc EXCEPT ![c] = label] /\ UNCHANGED job

Return(c) == /\ pc' = [pc EXCEPT ![c] = "idle"]
             /\ job' = [job EXCEPT ![c] = NoJob]

SetStatus(k, s) == status' = [status EXCEPT ![k] = s]

----------------------------------------------------------------------------
Init ==
    /\ simulated \in Modes
    /\ sendingEnabled = TRUE
    /\ status = [k \in Keys |-> "none"]
    /\ amount = [k \in Keys |-> 0]
    /\ lapsed = {}
    /\ txHash = [k \in Keys |-> NoHash]
    /\ ledger = {}
    /\ screens = {}
    /\ pc = [c \in Callers |-> "idle"]
    /\ job = [c \in Callers |-> NoJob]
    /\ signed = {}
    /\ pool = [k \in Keys |-> 0]
    /\ moved = [k \in Keys |-> 0]

----------------------------------------------------------------------------
(* Phase 1: quote *)

\* assertSendingEnabled, then the validations that only read fixed data.
StartQuote(c, k, v) ==
    /\ pc[c] = "idle" /\ sendingEnabled
    /\ pc' = [pc EXCEPT ![c] = "limits"]
    /\ job' = [job EXCEPT ![c] = [key |-> k, numbers |-> v, fingerprint |-> v]]
    /\ UNCHANGED <<simulated, sendingEnabled, rowVars, ledger, screens, chainVars>>

\* The caps, against what the window holds when it is read.
CheckLimits(c) ==
    /\ pc[c] = "limits"
    /\ LET v == job[c].numbers
       IN  IF v <= TxCap /\ SpentUsdMinor + v <= DayCap
           THEN Goto(c, "persist") ELSE Return(c)
    /\ UNCHANGED <<simulated, sendingEnabled, rowVars, ledger, screens, chainVars>>

\* INSERT ... ON CONFLICT (user_id, idempotency_key) DO NOTHING.  The reply
\* carries the numbers just asked for with the fingerprint of the stored row.
Persist(c) ==
    /\ pc[c] = "persist"
    /\ LET q == job[c]
           numbers == IF status[q.key] = "none" THEN q.numbers ELSE amount[q.key]
       IN  /\ SetStatus(q.key, IF status[q.key] = "none" THEN "quoted" ELSE status[q.key])
           /\ amount' = [amount EXCEPT ![q.key] = numbers]
           /\ screens' = screens \cup {[q EXCEPT !.fingerprint = numbers]}
    /\ Return(c)
    /\ UNCHANGED <<simulated, sendingEnabled, lapsed, txHash, ledger, chainVars>>

----------------------------------------------------------------------------
(* Phase 2: confirm *)

\* The client confirms a quote it was shown; the kill switch is read first.
StartConfirm(c, q) ==
    /\ pc[c] = "idle" /\ sendingEnabled /\ q \in screens
    /\ pc' = [pc EXCEPT ![c] = "load"]
    /\ job' = [job EXCEPT ![c] = q]
    /\ UNCHANGED <<simulated, sendingEnabled, rowVars, ledger, screens, chainVars>>

\* Only a live quote goes on: a replay is answered from the row, the rest refused.
LoadRequest(c) ==
    /\ pc[c] = "load"
    /\ IF status[job[c].key] = "quoted" /\ job[c].key \notin lapsed
       THEN Goto(c, "claim") ELSE Return(c)
    /\ UNCHANGED <<simulated, sendingEnabled, rowVars, ledger, screens, chainVars>>

\* Mutant: the UPDATE trusts the status read before it.
Claim_TrustsEarlierRead(c) ==
    /\ pc[c] = "claim"
    /\ LET q == job[c]
       IN  /\ q.fingerprint = amount[q.key]
           /\ status' = [status EXCEPT ![q.key] = "confirmed"]
           /\ Goto(c, "audit")
    /\ UNCHANGED <<simulated, sendingEnabled, amount, lapsed, txHash, ledger, screens, chainVars>>

\* The conditional UPDATE quoted -> confirmed.
Claim(c) ==
    /\ pc[c] = "claim"
    /\ LET q == job[c]
       IN  IF /\ status[q.key] = "quoted"
              /\ q.fingerprint = amount[q.key]
              /\ q.key \notin lapsed
           THEN SetStatus(q.key, "confirmed") /\ Goto(c, "audit")
           ELSE UNCHANGED status /\ Return(c)
    /\ UNCHANGED <<simulated, sendingEnabled, amount, lapsed, txHash, ledger, screens, chainVars>>

AuditConfirmed(c) ==
    /\ pc[c] = "audit"
    /\ Goto(c, "execute")
    /\ UNCHANGED <<simulated, sendingEnabled, rowVars, ledger, screens, chainVars>>

----------------------------------------------------------------------------
(* execute: build, sign, broadcast, record *)

\* Outside the try: a request that is not confirmed is refused.
ExecuteRead(c) ==
    /\ pc[c] = "execute"
    /\ IF status[job[c].key] = "confirmed" THEN Goto(c, "enter") ELSE Return(c)
    /\ UNCHANGED <<simulated, sendingEnabled, rowVars, ledger, screens, chainVars>>

\* Mutant: the request is moved to signing only if it can be, and signed anyway.
EnterSigning_IgnoresRefusal(c) ==
    /\ pc[c] = "enter"
    /\ LET k == job[c].key
       IN  IF Admits(k, "signing") THEN SetStatus(k, "signing") ELSE UNCHANGED status
    /\ Goto(c, "build")
    /\ UNCHANGED <<simulated, sendingEnabled, amount, lapsed, txHash, ledger, screens, chainVars>>

EnterSigning(c) ==
    /\ pc[c] = "enter"
    /\ LET k == job[c].key
       IN  IF Admits(k, "signing")
           THEN SetStatus(k, "signing") /\ Goto(c, "build")
           ELSE UNCHANGED status /\ Goto(c, "fail")
    /\ UNCHANGED <<simulated, sendingEnabled, amount, lapsed, txHash, ledger, screens, chainVars>>

BuildTransfer(c) ==
    /\ pc[c] = "build"
    /\ \/ Goto(c, "sign")
       \/ "provider" \in Faults /\ Goto(c, "fail")
    /\ UNCHANGED <<simulated, sendingEnabled, rowVars, ledger, screens, chainVars>>

\* A simulated signer remembers nothing.  The remote one refuses a key it has
\* signed; its answer may also be lost, before or after it signed.
Sign(c) ==
    LET k == job[c].key IN
    /\ pc[c] = "sign"
    /\ \/ simulated /\ Goto(c, "broadcast") /\ UNCHANGED signed
       \/ ~simulated /\ k \notin signed /\ Goto(c, "broadcast") /\ signed' = signed \cup {k}
       \/ ~simulated /\ k \in signed /\ Goto(c, "fail") /\ UNCHANGED signed
       \/ ~simulated /\ "signer" \in Faults /\ Goto(c, "fail")
             /\ signed' \in {signed, signed \cup {k}}
    /\ UNCHANGED <<simulated, sendingEnabled, rowVars, ledger, screens, pool, moved>>

\* Mutant: a broadcast that was not answered is recorded as if it had been.
Broadcast_AssumesDelivery(c) ==
    LET k == job[c].key IN
    /\ pc[c] = "broadcast"
    /\ Goto(c, "record")
    /\ UNCHANGED pool
    /\ IF simulated THEN UNCHANGED moved ELSE moved' \in {moved, [moved EXCEPT ![k] = @ + 1]}
    /\ UNCHANGED <<simulated, sendingEnabled, rowVars, ledger, screens, signed>>

\* The provider accepts the transfer; or it is refused; or the call ends in an
\* error (timeout, 5xx, connection reset) with the transfer still on the wire.
Broadcast(c) ==
    LET k == job[c].key IN
    /\ pc[c] = "broadcast"
    /\ \/ simulated /\ Goto(c, "record") /\ UNCHANGED <<pool, moved>>
       \/ ~simulated /\ Goto(c, "record") /\ UNCHANGED pool
             /\ moved' = [moved EXCEPT ![k] = @ + 1]
       \/ ~simulated /\ "provider" \in Faults /\ Goto(c, "fail") /\ UNCHANGED moved
             /\ pool' \in {pool, [pool EXCEPT ![k] = @ + 1]}
    /\ UNCHANGED <<simulated, sendingEnabled, rowVars, ledger, screens, signed>>

\* One transaction: the ledger row unless its hash is already there, then the
\* request.  The row's status is still signing, so the trigger admits it.
Record(c) ==
    LET k == job[c].key
        known == \E t \in ledger : t.hash = HashOf(k)
    IN
    /\ pc[c] = "record"
    /\ IF Admits(k, "broadcast")
       THEN /\ ledger' = IF known THEN ledger ELSE ledger \cup {[hash |-> HashOf(k), key |-> k]}
            /\ SetStatus(k, "broadcast")
            /\ txHash' = [txHash EXCEPT ![k] = HashOf(k)]
            /\ Goto(c, "notify")
       ELSE Goto(c, "fail") /\ UNCHANGED <<ledger, status, txHash>>
    /\ UNCHANGED <<simulated, sendingEnabled, amount, lapsed, screens, chainVars>>

\* queueOutgoing, in a transaction of its own.
QueueOutgoing(c) ==
    /\ pc[c] = "notify"
    /\ Return(c)
    /\ UNCHANGED <<simulated, sendingEnabled, rowVars, ledger, screens, chainVars>>

\* Mutant: the catch block only rethrows.
MarkFailed_Rethrows(c) ==
    /\ pc[c] = "fail"
    /\ Return(c)
    /\ UNCHANGED <<simulated, sendingEnabled, rowVars, ledger, screens, chainVars>>

\* The catch block: whatever went wrong after the read, the request is failed,
\* if the trigger still admits it.
MarkFailed(c) ==
    /\ pc[c] = "fail"
    /\ LET k == job[c].key
       IN  IF Admits(k, "failed") THEN SetStatus(k, "failed") ELSE UNCHANGED status
    /\ Return(c)
    /\ UNCHANGED <<simulated, sendingEnabled, amount, lapsed, txHash, ledger, screens, chainVars>>

----------------------------------------------------------------------------
(* cancel: a plain read, then an update the trigger may reject *)

StartCancel(c, k) ==
    /\ pc[c] = "idle" /\ status[k] \in {"quoted", "confirmed"}
    /\ pc' = [pc EXCEPT ![c] = "withdraw"]
    /\ job' = [job EXCEPT ![c] = [NoJob EXCEPT !.key = k]]
    /\ UNCHANGED <<simulated, sendingEnabled, rowVars, ledger, screens, chainVars>>

Withdraw(c) ==
    /\ pc[c] = "withdraw"
    /\ LET k == job[c].key
       IN  IF Admits(k, "cancelled") THEN SetStatus(k, "cancelled") ELSE UNCHANGED status
    /\ Return(c)
    /\ UNCHANGED <<simulated, sendingEnabled, amount, lapsed, txHash, ledger, screens, chainVars>>

----------------------------------------------------------------------------
(* The cleanup job, the administrator, time, failures and the network *)

\* expireStaleQuotes
ExpireStaleQuotes ==
    LET stale == {k \in lapsed : status[k] = "quoted"} IN
    /\ stale # {}
    /\ status' = [k \in Keys |-> IF k \in stale THEN "expired" ELSE status[k]]
    /\ UNCHANGED <<simulated, sendingEnabled, amount, lapsed, txHash, ledger, screens, pc, job, chainVars>>

\* An administrator flips app_settings.sending_enabled.
SetSendingEnabled ==
    /\ sendingEnabled' = ~sendingEnabled
    /\ UNCHANGED <<simulated, rowVars, ledger, screens, pc, job, chainVars>>

\* A quote's expires_at passes; nothing reads it once the row is past quoted.
Lapse(k) ==
    /\ status[k] = "quoted" /\ k \notin lapsed
    /\ lapsed' = lapsed \cup {k}
    /\ UNCHANGED <<simulated, sendingEnabled, status, amount, txHash, ledger, screens, pc, job, chainVars>>

\* A transaction of a handler fails.  Inside execute's try it leads to the
\* catch block; anywhere else the handler answers with the error.
DbError(c) ==
    /\ "db" \in Faults
    /\ IF pc[c] \in {"enter", "record", "notify"} THEN Goto(c, "fail")
       ELSE /\ pc[c] \in {"limits", "persist", "load", "claim", "audit", "execute",
                          "withdraw", "fail"}
            /\ Return(c)
    /\ UNCHANGED <<simulated, sendingEnabled, rowVars, ledger, screens, chainVars>>

\* The process serving a handler dies.
Crash(c) ==
    /\ "crash" \in Faults /\ pc[c] # "idle"
    /\ Return(c)
    /\ UNCHANGED <<simulated, sendingEnabled, rowVars, ledger, screens, chainVars>>

\* The signer restarts: its memory of signed keys is gone.
SignerRestart ==
    /\ "signer" \in Faults /\ signed # {}
    /\ signed' = {}
    /\ UNCHANGED <<simulated, sendingEnabled, rowVars, ledger, screens, pc, job, pool, moved>>

\* A transfer left on the wire is executed after all, or dropped.
Land(k) ==
    /\ pool[k] > 0
    /\ pool' = [pool EXCEPT ![k] = @ - 1]
    /\ moved' \in {moved, [moved EXCEPT ![k] = @ + 1]}
    /\ UNCHANGED <<simulated, sendingEnabled, rowVars, ledger, screens, pc, job, signed>>

----------------------------------------------------------------------------
HandlerStep(c) ==
    \/ CheckLimits(c) \/ Persist(c)
    \/ LoadRequest(c) \/ Claim(c) \/ AuditConfirmed(c)
    \/ ExecuteRead(c) \/ EnterSigning(c) \/ BuildTransfer(c) \/ Sign(c)
    \/ Broadcast(c) \/ Record(c) \/ QueueOutgoing(c) \/ MarkFailed(c)
    \/ Withdraw(c)

Arrival(c) ==
    \/ \E k \in Keys, v \in Values : StartQuote(c, k, v)
    \/ \E q \in screens : StartConfirm(c, q)
    \/ \E k \in Keys : StartCancel(c, k)

Environment ==
    \/ \E c \in Callers : DbError(c) \/ Crash(c)
    \/ \E k \in Keys : Lapse(k) \/ Land(k)
    \/ ExpireStaleQuotes \/ SetSendingEnabled \/ SignerRestart

Next == \/ \E c \in Callers : Arrival(c) \/ HandlerStep(c)
        \/ Environment

Spec == Init /\ [][Next]_vars

\* A handler that is running keeps running, and the cleanup job is recurrent.
Fairness == /\ \A c \in Callers : WF_vars(HandlerStep(c))
            /\ WF_vars(ExpireStaleQuotes)

FairSpec == Spec /\ Fairness

----------------------------------------------------------------------------
(* Properties *)

Hashes == {NoHash} \cup ({"sim"} \X Values) \cup ({"tx"} \X Keys)

\* Every variable has its type, and the table's CHECK holds: a request is
\* broadcast only with a hash (0004_ledger.sql, send_requests_broadcast_hash).
TypeOK ==
    /\ simulated \in BOOLEAN
    /\ sendingEnabled \in BOOLEAN
    /\ status \in [Keys -> Statuses]
    /\ amount \in [Keys -> Values \cup {0}]
    /\ lapsed \subseteq Keys
    /\ txHash \in [Keys -> Hashes]
    /\ ledger \subseteq [hash : Hashes, key : Keys]
    /\ screens \subseteq Quotes
    /\ pc \in [Callers -> Labels]
    /\ job \in [Callers -> [key : Keys \cup {NoKey}, numbers : Values \cup {0},
                            fingerprint : Values \cup {0}]]
    /\ signed \subseteq Keys
    /\ pool \in [Keys -> Nat]
    /\ moved \in [Keys -> Nat]
    /\ \A k \in Keys : status[k] \in {"broadcast", "completed"} => txHash[k] # NoHash

\* One idempotency key moves funds at most once, whatever is retried, raced,
\* crashed or answered late (send.ts: "a retry returns the original result
\* rather than sending again").
AtMostOneTransfer == \A k \in Keys : pool[k] + moved[k] <= 1

\* A request that was withdrawn, that expired, or that nobody confirmed never
\* has funds moving behind it, although cancel and execute race on the row.
WithdrawnNeverMoves ==
    \A k \in Keys :
        status[k] \in {"none", "quoted", "expired", "cancelled"} => pool[k] + moved[k] = 0

\* The user is told a real transfer went out only when it did, and each ledger
\* row the pipeline wrote stands for a transfer that happened.
ReportedIsReal ==
    ~simulated =>
        /\ \A k \in Keys : status[k] = "broadcast" =>
              /\ moved[k] = 1
              /\ [hash |-> txHash[k], key |-> k] \in ledger
        /\ \A t \in ledger : moved[t.key] = 1 /\ txHash[t.key] = t.hash

\* A confirmed request is settled in the end when no handler dies and no
\* transaction fails: it does not stay confirmed or signing.
ConfirmedIsSettled ==
    \A k \in Keys : status[k] \in {"confirmed", "signing"} ~>
                        status[k] \in {"broadcast", "failed", "cancelled"}

\* The pipeline keeps the promise of TransferPromise.
Standing(k) ==
    CASE status[k] \in {"none", "quoted"}        -> "open"
      [] status[k] \in {"cancelled", "expired"}  -> "withdrawn"
      [] OTHER                                   -> "authorised"

Abstract == INSTANCE TransferPromise
                WITH standing <- [k \in Keys |-> Standing(k)], transfers <- moved

KeepsPromise == Abstract!Promise
=============================================================================
