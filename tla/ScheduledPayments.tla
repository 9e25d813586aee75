-------------------------- MODULE ScheduledPayments --------------------------
(***************************************************************************)
(* Scheduled payments: the user's operations on them, the worker's tick    *)
(* that claims a batch of due ones and executes them one after the other   *)
(* (packages/core/src/services/scheduler.ts and planning.ts over           *)
(* packages/db/src/repositories/planning.ts and the row trigger).          *)
(*                                                                         *)
(* Each attempt at a payment sends through the pipeline of SendPipeline    *)
(* under an idempotency key of its own.  The pipeline appears here as what *)
(* it guarantees: per key at most one transfer, none before the request is *)
(* confirmed, and a broadcast error that may hide a transfer.              *)
(* A signer that signs for real is assumed (SIGNER_MODE=remote).           *)
(***************************************************************************)
EXTENDS Naturals, FiniteSets, FiniteSetsExt

CONSTANTS
    Payments,     \* scheduled_payments rows
    NoPayment,    \* the payment of a worker between two rows
    Workers,      \* worker processes that may run a tick
    MaxAttempts,  \* max_attempts: automatic retries stop there
    Slack,        \* the CHECK allows attempts <= max_attempts + Slack (5)
    Limit,        \* rows one tick claims (5)
    Faults        \* which of "crash", "db", "provider", "run_now" happen

ASSUME PaymentsAssumption == NoPayment \notin Payments
ASSUME BoundsAssumption   == {MaxAttempts, Slack, Limit} \subseteq Nat \ {0}

VARIABLES
    status,         \* scheduled_payments.status, "none" before the row exists
    attempts,       \* scheduled_payments.attempts
    due,            \* payments whose scheduled_at and next_attempt_at have passed
    leased,         \* payments whose locked_until is in the future
    request,        \* send_requests.status of each attempt
    wire, chain,    \* attempts whose transfer is on the wire, or executed
    pc, row, batch, \* per worker: its step, the claimed row at hand, and the rest
    code,           \* per worker: the kind of error it is handling
    starting,       \* payments a run-now handler has read and not yet written
    lost,           \* history: claims dropped by a crash or an aborted tick
    overridden,     \* history: payments set back to scheduled while claimed
    doubted         \* history: payments given up on with a transfer sent

rowVars    == <<status, attempts, due, leased>>
chainVars  == <<request, wire, chain>>
workerVars == <<pc, row, batch, code>>
history    == <<lost, overridden, doubted>>
vars == <<rowVars, chainVars, workerVars, starting, history>>

Cap  == MaxAttempts + Slack
Keys == Payments \X (1..Cap)     \* scheduledExecutionKey(id, attempts)

Statuses == {"none", "scheduled", "processing", "completed", "failed", "cancelled"}

NextStatuses(s) ==
    CASE s = "scheduled"  -> {"processing", "cancelled"}
      [] s = "processing" -> {"completed", "failed", "scheduled"}
      [] s = "failed"     -> {"scheduled", "cancelled"}
      [] OTHER            -> {}

Admits(p, s) == s = status[p] \/ s \in NextStatuses(status[p])

NoRow == [payment |-> NoPayment, attempt |-> 0]
Rows  == [payment : Payments, attempt : 1..Cap]
KeyOf(r) == <<r.payment, r.attempt>>
Sent(p)  == {k \in wire \cup chain : k[1] = p}

Goto(w, label) == pc' = [pc EXCEPT ![w] = label] /\ UNCHANGED <<row, batch, code>>

Throw(w, kind) == /\ pc' = [pc EXCEPT ![w] = "failed"]
                  /\ code' = [code EXCEPT ![w] = kind]
                  /\ UNCHANGED <<row, batch>>

NextRow(w) == /\ pc' = [pc EXCEPT ![w] = "next"]
              /\ row' = [row EXCEPT ![w] = NoRow]
              /\ code' = [code EXCEPT ![w] = "none"]
              /\ UNCHANGED batch

\* The worker's tick ends with claimed rows it will not execute.
Abandon(w, rows) ==
    /\ pc' = [pc EXCEPT ![w] = "idle"]
    /\ row' = [row EXCEPT ![w] = NoRow]
    /\ batch' = [batch EXCEPT ![w] = {}]
    /\ code' = [code EXCEPT ![w] = "none"]
    /\ lost' = lost \cup {r.payment : r \in rows}

----------------------------------------------------------------------------
Init ==
    /\ status = [p \in Payments |-> "none"]
    /\ attempts = [p \in Payments |-> 0]
    /\ due = {} /\ leased = {}
    /\ request = [k \in Keys |-> "none"]
    /\ wire = {} /\ chain = {}
    /\ pc = [w \in Workers |-> "idle"]
    /\ row = [w \in Workers |-> NoRow]
    /\ batch = [w \in Workers |-> {}]
    /\ code = [w \in Workers |-> "none"]
    /\ starting = {}
    /\ lost = {} /\ overridden = {} /\ doubted = {}

----------------------------------------------------------------------------
(* The user *)

CreateScheduledPayment(p) ==
    /\ status[p] = "none"
    /\ status' = [status EXCEPT ![p] = "scheduled"]
    /\ UNCHANGED <<attempts, due, leased, chainVars, workerVars, starting, history>>

\* Only a payment that is not executing may be edited; here, postponed.
UpdateScheduledPayment(p) ==
    /\ status[p] \in {"scheduled", "failed"} /\ p \in due
    /\ due' = due \ {p}
    /\ UNCHANGED <<status, attempts, leased, chainVars, workerVars, starting, history>>

\* Mutant: a payment may be cancelled whatever its status.
CancelScheduledPayment_AnyTime(p) ==
    /\ status[p] \in {"scheduled", "failed", "processing"}
    /\ status' = [status EXCEPT ![p] = "cancelled"]
    /\ UNCHANGED <<attempts, due, leased, chainVars, workerVars, starting, history>>

CancelScheduledPayment(p) ==
    /\ status[p] \in {"scheduled", "failed"}
    /\ status' = [status EXCEPT ![p] = "cancelled"]
    /\ UNCHANGED <<attempts, due, leased, chainVars, workerVars, starting, history>>

\* runScheduledPaymentNow reads the row in one transaction ...
RunNowRead(p) ==
    /\ "run_now" \in Faults
    /\ status[p] \in {"scheduled", "failed"} /\ p \notin starting
    /\ starting' = starting \cup {p}
    /\ UNCHANGED <<rowVars, chainVars, workerVars, history>>

\* Mutant: the second transaction is not checked by the trigger.
RunNowWrite_Unchecked(p) ==
    /\ p \in starting
    /\ starting' = starting \ {p}
    /\ status' = [status EXCEPT ![p] = "scheduled"]
    /\ due' = due \cup {p}
    /\ overridden' = IF status[p] = "processing" THEN overridden \cup {p} ELSE overridden
    /\ UNCHANGED <<attempts, leased, chainVars, workerVars, lost, doubted>>

\* ... and in another sets it to scheduled and due, if the trigger admits it.
\* The lease is left as it is.
RunNowWrite(p) ==
    /\ p \in starting
    /\ starting' = starting \ {p}
    /\ IF Admits(p, "scheduled")
       THEN /\ status' = [status EXCEPT ![p] = "scheduled"]
            /\ due' = due \cup {p}
            /\ overridden' = IF status[p] = "processing" THEN overridden \cup {p} ELSE overridden
       ELSE UNCHANGED <<status, due, overridden>>
    /\ UNCHANGED <<attempts, leased, chainVars, workerVars, lost, doubted>>

----------------------------------------------------------------------------
(* The tick *)

Claimable == {p \in Payments : status[p] = "scheduled" /\ p \in due /\ p \notin leased}

\* Rows one tick claims: as many as the limit allows.
Batches == kSubset(Min({Cardinality(Claimable), Limit}), Claimable) \ {{}}

\* Mutant: only the lease marks a claimed row.
ClaimDue_LeaseOnly(w) ==
    /\ pc[w] = "idle"
    /\ \E S \in Batches :
          /\ \A p \in S : attempts[p] < Cap
          /\ leased' = leased \cup S
          /\ attempts' = [p \in Payments |-> IF p \in S THEN attempts[p] + 1 ELSE attempts[p]]
          /\ batch' = [batch EXCEPT ![w] = {[payment |-> p, attempt |-> attempts[p] + 1] : p \in S}]
    /\ pc' = [pc EXCEPT ![w] = "next"]
    /\ UNCHANGED <<status, due, chainVars, row, code, starting, history>>

\* One UPDATE claims the batch.  A row at the CHECK's bound makes it fail, and
\* with it the whole tick.
ClaimDue(w) ==
    /\ pc[w] = "idle"
    /\ \E S \in Batches :
          /\ \A p \in S : attempts[p] < Cap
          /\ status' = [p \in Payments |-> IF p \in S THEN "processing" ELSE status[p]]
          /\ leased' = leased \cup S
          /\ attempts' = [p \in Payments |-> IF p \in S THEN attempts[p] + 1 ELSE attempts[p]]
          /\ batch' = [batch EXCEPT ![w] = {[payment |-> p, attempt |-> attempts[p] + 1] : p \in S}]
    /\ pc' = [pc EXCEPT ![w] = "next"]
    /\ UNCHANGED <<due, chainVars, row, code, starting, history>>

TakeNext(w) ==
    /\ pc[w] = "next"
    /\ IF batch[w] = {}
       THEN Goto(w, "idle")
       ELSE \E r \in batch[w] :
              /\ row' = [row EXCEPT ![w] = r]
              /\ batch' = [batch EXCEPT ![w] = @ \ {r}]
              /\ pc' = [pc EXCEPT ![w] = "preflight"]
              /\ UNCHANGED code
    /\ UNCHANGED <<rowVars, chainVars, starting, history>>

\* The kill switch, the wallet, the asset and the recipient: any may say no.
Preflight(w) ==
    /\ pc[w] = "preflight"
    /\ Goto(w, "quote") \/ Throw(w, "decision")
    /\ UNCHANGED <<rowVars, chainVars, starting, history>>

\* send.quote under the attempt's key: refused, unreachable, or stored.
Quote(w) ==
    LET k == KeyOf(row[w]) IN
    /\ pc[w] = "quote"
    /\ \/ /\ Goto(w, "confirm")
          /\ request' = [request EXCEPT ![k] = IF @ = "none" THEN "quoted" ELSE @]
       \/ Throw(w, "decision") /\ UNCHANGED request
       \/ "provider" \in Faults /\ Throw(w, "transient") /\ UNCHANGED request
    /\ UNCHANGED <<rowVars, wire, chain, starting, history>>

\* confirmSendRequest, unless the quote has expired, and the link to the payment.
ConfirmQuote(w) ==
    LET k == KeyOf(row[w]) IN
    /\ pc[w] = "confirm"
    /\ \/ /\ request[k] = "quoted"
          /\ request' = [request EXCEPT ![k] = "confirmed"] /\ Goto(w, "execute")
       \/ Throw(w, "decision") /\ UNCHANGED request
    /\ UNCHANGED <<rowVars, wire, chain, starting, history>>

\* send.execute: sent and recorded; refused before anything was sent; or ended in
\* an error after the broadcast, which the network may or may not have accepted.
Execute(w) ==
    LET k == KeyOf(row[w])
        set(s) == request' = [request EXCEPT ![k] = s]
    IN
    /\ pc[w] = "execute"
    /\ \/ set("broadcast") /\ chain' = chain \cup {k} /\ UNCHANGED wire /\ Goto(w, "complete")
       \/ set("failed") /\ UNCHANGED <<wire, chain>> /\ Throw(w, "decision")
       \/ "provider" \in Faults /\ set("failed") /\ UNCHANGED chain
             /\ wire' \in {wire, wire \cup {k}} /\ Throw(w, "transient")
       \/ "db" \in Faults /\ set("failed") /\ UNCHANGED wire
             /\ chain' = chain \cup {k} /\ Throw(w, "decision")
    /\ UNCHANGED <<rowVars, starting, history>>

\* The payment is completed in one transaction, if the trigger admits it.
Complete(w) ==
    LET p == row[w].payment IN
    /\ pc[w] = "complete"
    /\ IF Admits(p, "completed")
       THEN /\ status' = [status EXCEPT ![p] = "completed"]
            /\ leased' = leased \ {p}
            /\ NextRow(w)
       ELSE Throw(w, "decision") /\ UNCHANGED <<status, leased>>
    /\ UNCHANGED <<attempts, due, chainVars, starting, history>>

\* Mutant: a failure leaves the claim in place.
MarkFailed_KeepsClaim(w) ==
    /\ pc[w] = "failed"
    /\ NextRow(w)
    /\ UNCHANGED <<rowVars, chainVars, starting, history>>

\* A transient cause goes back to scheduled while attempts remain, with a backoff;
\* anything else is failed.  If the trigger refuses, the error leaves the loop and
\* the rest of the batch stays claimed.
MarkFailed(w) ==
    LET p == row[w].payment
        target == IF code[w] = "transient" /\ row[w].attempt < MaxAttempts
                  THEN "scheduled" ELSE "failed"
    IN
    /\ pc[w] = "failed"
    /\ IF Admits(p, target)
       THEN /\ status' = [status EXCEPT ![p] = target]
            /\ leased' = leased \ {p} /\ due' = due \ {p}
            /\ doubted' = IF Sent(p) # {} THEN doubted \cup {p} ELSE doubted
            /\ NextRow(w) /\ UNCHANGED lost
       ELSE Abandon(w, batch[w]) /\ UNCHANGED <<status, leased, due, doubted>>
    /\ UNCHANGED <<attempts, chainVars, starting, overridden>>

----------------------------------------------------------------------------
(* Time, failures and the network *)

BecomeDue(p) ==
    /\ status[p] = "scheduled" /\ p \notin due
    /\ due' = due \cup {p}
    /\ UNCHANGED <<status, attempts, leased, chainVars, workerVars, starting, history>>

LeaseExpires(p) ==
    /\ p \in leased
    /\ leased' = leased \ {p}
    /\ UNCHANGED <<status, attempts, due, chainVars, workerVars, starting, history>>

Land(k) ==
    /\ k \in wire
    /\ wire' = wire \ {k}
    /\ chain' \in {chain, chain \cup {k}}
    /\ UNCHANGED <<rowVars, request, workerVars, starting, history>>

\* A transaction of the tick fails: the row is marked, or, when marking it is what
\* failed, the tick ends.
DbError(w) ==
    /\ "db" \in Faults
    /\ \/ /\ pc[w] \in {"preflight", "quote", "confirm", "execute", "complete"}
          /\ Throw(w, "decision") /\ UNCHANGED lost
       \/ pc[w] = "failed" /\ Abandon(w, batch[w] \cup {row[w]})
    /\ UNCHANGED <<rowVars, chainVars, starting, overridden, doubted>>

\* The worker process dies.
Crash(w) ==
    /\ "crash" \in Faults /\ pc[w] # "idle"
    /\ Abandon(w, batch[w] \cup ({row[w]} \ {NoRow}))
    /\ UNCHANGED <<rowVars, chainVars, starting, overridden, doubted>>

----------------------------------------------------------------------------
WorkerStep(w) ==
    \/ ClaimDue(w) \/ TakeNext(w) \/ Preflight(w) \/ Quote(w) \/ ConfirmQuote(w)
    \/ Execute(w) \/ Complete(w) \/ MarkFailed(w)

UserStep(p) ==
    \/ CreateScheduledPayment(p) \/ UpdateScheduledPayment(p) \/ CancelScheduledPayment(p)
    \/ RunNowRead(p) \/ RunNowWrite(p)

Environment ==
    \/ \E p \in Payments : BecomeDue(p) \/ LeaseExpires(p)
    \/ \E w \in Workers : DbError(w) \/ Crash(w)
    \/ \E k \in Keys : Land(k)

Next == \/ \E w \in Workers : WorkerStep(w)
        \/ \E p \in Payments : UserStep(p)
        \/ Environment

Spec == Init /\ [][Next]_vars

\* Ticks are enqueued for ever, a running worker keeps running, and time passes.
Fairness == /\ \A w \in Workers : WF_vars(WorkerStep(w))
            /\ \A p \in Payments : WF_vars(LeaseExpires(p)) /\ WF_vars(BecomeDue(p))

FairSpec == Spec /\ Fairness

----------------------------------------------------------------------------
(* Properties *)

Holding(w) == batch[w] \cup ({row[w]} \ {NoRow})
Labels == {"idle", "next", "preflight", "quote", "confirm", "execute", "complete", "failed"}

\* Every variable has its type; attempts stay within the CHECK of the table, and a
\* row in hand has been counted.
TypeOK ==
    /\ status \in [Payments -> Statuses]
    /\ attempts \in [Payments -> 0..Cap]
    /\ due \subseteq Payments /\ leased \subseteq Payments
    /\ request \in [Keys -> {"none", "quoted", "confirmed", "broadcast", "failed"}]
    /\ wire \subseteq Keys /\ chain \subseteq Keys
    /\ pc \in [Workers -> Labels]
    /\ row \in [Workers -> Rows \cup {NoRow}]
    /\ batch \in [Workers -> SUBSET Rows]
    /\ code \in [Workers -> {"none", "transient", "decision"}]
    /\ starting \subseteq Payments
    /\ lost \subseteq Payments /\ overridden \subseteq Payments /\ doubted \subseteq Payments
    /\ \A w \in Workers : \A r \in Holding(w) : r.attempt <= attempts[r.payment]

\* Two workers never hold one payment under one key, even when a lease ran out or
\* a user forced the payment: the second execution cannot hide behind the first's
\* idempotency key, nor be refused because of it.
KeysNeverShared ==
    \A v, w \in Workers : v # w => Holding(v) \cap Holding(w) = {}

\* Two workers never claim the same payment (docs/security.md), unless the user's
\* run-now wrote over a claim.
OneWorkerPerPayment ==
    \A v, w \in Workers : v # w =>
        \A r \in Holding(v), s \in Holding(w) :
            r.payment = s.payment => r.payment \in overridden

\* A payment shown as completed has a transfer behind it.
CompletedWasPaid ==
    \A p \in Payments : status[p] = "completed" => \E k \in chain : k[1] = p

\* A payment that shows as cancelled is in nobody's hands and cannot be sent,
\* unless run-now wrote over a claim.
CancelledIsIdle ==
    \A p \in Payments : status[p] = "cancelled" =>
        \/ p \in overridden
        \/ \A w \in Workers : \A r \in Holding(w) : r.payment # p

\* A payment is executed twice only if run-now wrote over a claim, or if an earlier
\* attempt was given up on after its transfer had left.
PaidOnceUnlessInDoubt ==
    \A p \in Payments \ (overridden \cup doubted) : Cardinality(Sent(p)) <= 1

\* A claim ends: its payment leaves processing unless its worker died or threw.
ClaimEnds ==
    \A p \in Payments : status[p] = "processing" ~> status[p] # "processing" \/ p \in lost

\* One scheduled payment is executed at most once (scheduler.ts: "if anything is
\* uncertain, nothing is sent").
PaidAtMostOnce == \A p \in Payments : Cardinality({k \in chain : k[1] = p}) <= 1

=============================================================================
