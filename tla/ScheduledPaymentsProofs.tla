----------------------- MODULE ScheduledPaymentsProofs -----------------------
(***************************************************************************)
(* Proofs about ScheduledPayments for every set of payments and workers,   *)
(* every limit of attempts and of rows per tick, and every choice of       *)
(* faults.                                                                 *)
(*                                                                         *)
(* The argument: a row in a worker's hands carries the attempt it was      *)
(* claimed with, and a later claim has a higher one (KeysNeverShared).  As *)
(* long as run-now has not written over a claim, a payment in hand is      *)
(* processing (HeldProcessing), so no second claim takes it, it cannot be  *)
(* cancelled, and nothing of it was sent before its execute (Fresh).  What *)
(* was sent keeps the payment processing or completed until it is given up *)
(* on (SentRemembered), and a payment is completed only behind its transfer *)
(* (CompletingSent).                                                       *)
(***************************************************************************)
EXTENDS ScheduledPayments, FiniteSetTheorems, TLAPS

AtHand == {"preflight", "quote", "confirm", "execute", "complete", "failed"}

\* A worker has a row exactly while it executes one, and an idle one has none.
HandsFollowStep ==
    \A w \in Workers :
        /\ pc[w] \in AtHand <=> row[w] # NoRow
        /\ pc[w] = "idle" => batch[w] = {}

\* A payment in hand is processing, unless run-now wrote over its claim.
HeldProcessing ==
    \A w \in Workers : \A r \in Holding(w) :
        r.payment \in overridden \/ status[r.payment] = "processing"

\* A worker holds no payment twice.
OnceInHand ==
    \A w \in Workers :
        /\ \A r, s \in Holding(w) : r.payment = s.payment => r = s
        /\ row[w] \notin batch[w]

\* A worker about to complete a payment has sent its transfer.
CompletingSent == \A w \in Workers : pc[w] = "complete" => KeyOf(row[w]) \in chain

Clear(p) == p \notin overridden \cup doubted

\* Before execute nothing was sent of a payment in hand, unless in doubt.
Fresh ==
    \A w \in Workers : \A r \in Holding(w) :
        /\ Clear(r.payment)
        /\ r \in batch[w] \/ pc[w] \in {"preflight", "quote", "confirm", "execute"}
        => Sent(r.payment) = {}

\* A payment something was sent of is not claimed again, unless in doubt.
SentRemembered ==
    \A p \in Payments : Clear(p) =>
        /\ Sent(p) # {} => status[p] \in {"processing", "completed"}
        /\ \A j, k \in Sent(p) : j = k

IInv == /\ TypeOK /\ HandsFollowStep /\ KeysNeverShared /\ OnceInHand
        /\ HeldProcessing /\ OneWorkerPerPayment
        /\ CompletingSent /\ CompletedWasPaid
        /\ Fresh /\ SentRemembered

USE PaymentsAssumption, BoundsAssumption

USE DEF Admits, NextStatuses, Statuses, Labels, AtHand, Holding, Sent, Rows, NoRow,
        Clear, rowVars, chainVars, workerVars, history, Goto, Throw, NextRow, Abandon

\* The initial state satisfies the inductive invariant: nobody holds anything.
LEMMA InitIInv == Init => IInv
BY DEF Init, IInv, TypeOK, HandsFollowStep, KeysNeverShared, OnceInHand, HeldProcessing,
       OneWorkerPerPayment, CompletingSent, CompletedWasPaid, Fresh, SentRemembered, Keys, Cap

\* A worker that executes a row has a real row, whose key is a key.
LEMMA RowAtHand ==
    ASSUME NEW w \in Workers, IInv, pc[w] \in AtHand
    PROVE  row[w] \in Rows /\ KeyOf(row[w]) \in Keys /\ row[w].payment \in Payments
BY SMT DEF IInv, TypeOK, HandsFollowStep, KeyOf, Keys

\* A new payment is in nobody's hands.
LEMMA CreateScheduledPaymentStep ==
    ASSUME NEW p \in Payments, IInv, CreateScheduledPayment(p) PROVE IInv'
  BY SMT DEF CreateScheduledPayment, IInv, TypeOK, HandsFollowStep, KeysNeverShared, OnceInHand,
     HeldProcessing, OneWorkerPerPayment, CompletingSent, CompletedWasPaid, Fresh, SentRemembered

\* Editing touches no claim.
LEMMA UpdateScheduledPaymentStep ==
    ASSUME NEW p \in Payments, IInv, UpdateScheduledPayment(p) PROVE IInv'
  BY SMT DEF UpdateScheduledPayment, IInv, TypeOK, HandsFollowStep, KeysNeverShared, OnceInHand,
     HeldProcessing, OneWorkerPerPayment, CompletingSent, CompletedWasPaid, Fresh, SentRemembered

\* Only a payment that is not processing is cancelled.
LEMMA CancelScheduledPaymentStep ==
    ASSUME NEW p \in Payments, IInv, CancelScheduledPayment(p) PROVE IInv'
  BY SMT DEF CancelScheduledPayment, IInv, TypeOK, HandsFollowStep, KeysNeverShared, OnceInHand,
     HeldProcessing, OneWorkerPerPayment, CompletingSent, CompletedWasPaid, Fresh, SentRemembered

\* Reading changes nothing.
LEMMA RunNowReadStep == ASSUME NEW p \in Payments, IInv, RunNowRead(p) PROVE IInv'
  BY SMT DEF RunNowRead, IInv, TypeOK, HandsFollowStep, KeysNeverShared, OnceInHand,
     HeldProcessing, OneWorkerPerPayment, CompletingSent, CompletedWasPaid, Fresh, SentRemembered

\* Run-now writes over a claim only as an override.
LEMMA RunNowWriteStep == ASSUME NEW p \in Payments, IInv, RunNowWrite(p) PROVE IInv'
  BY SMT DEF RunNowWrite, IInv, TypeOK, HandsFollowStep, KeysNeverShared, OnceInHand,
     HeldProcessing, OneWorkerPerPayment, CompletingSent, CompletedWasPaid, Fresh, SentRemembered

\* The row at hand comes out of the batch.
LEMMA TakeNextStep == ASSUME NEW w \in Workers, IInv, TakeNext(w) PROVE IInv'
<1>1. TypeOK'
  <2>1. \A v \in Workers : Holding(v)' \subseteq Holding(v)
    BY SMT, RowAtHand DEF TakeNext, IInv, TypeOK, HandsFollowStep
  <2>2. \A v \in Workers : \A r \in Holding(v)' : r.attempt <= attempts[r.payment]'
    BY <2>1 DEF TakeNext, IInv, TypeOK
  <2>3. /\ pc' \in [Workers -> Labels] /\ code' \in [Workers -> {"none", "transient", "decision"}]
        /\ row' \in [Workers -> Rows \cup {NoRow}] /\ batch' \in [Workers -> SUBSET Rows]
    <3>1. CASE batch[w] = {}
      BY <3>1 DEF TakeNext, IInv, TypeOK, Goto, Labels
    <3>2. CASE batch[w] # {}
      <4>1. PICK r \in batch[w] :
               /\ row' = [row EXCEPT ![w] = r]
               /\ batch' = [batch EXCEPT ![w] = @ \ {r}]
               /\ pc' = [pc EXCEPT ![w] = "preflight"]
               /\ code' = code
        BY <3>2 DEF TakeNext
      <4>2. r \in Rows /\ "preflight" \in Labels
        BY DEF IInv, TypeOK, Labels
      <4>3. row' \in [Workers -> Rows \cup {NoRow}] /\ batch' \in [Workers -> SUBSET Rows]
        BY <4>1, <4>2 DEF IInv, TypeOK
      <4>. QED BY <4>1, <4>2, <4>3 DEF IInv, TypeOK
    <3>. QED BY <3>1, <3>2
  <2>4. UNCHANGED <<rowVars, chainVars, starting, history>>
    BY DEF TakeNext
  <2>. QED BY <2>2, <2>3, <2>4 DEF IInv, TypeOK, rowVars, chainVars, history
<1>2. HandsFollowStep'
  BY SMT DEF TakeNext, IInv, TypeOK, HandsFollowStep
<1>3. KeysNeverShared'
  BY SMT DEF TakeNext, IInv, TypeOK, HandsFollowStep, KeysNeverShared
<1>4. OnceInHand'
  BY SMT DEF TakeNext, IInv, TypeOK, HandsFollowStep, OnceInHand
<1>5. HeldProcessing'
  BY SMT DEF TakeNext, IInv, TypeOK, HandsFollowStep, HeldProcessing
<1>6. OneWorkerPerPayment'
  BY SMT DEF TakeNext, IInv, TypeOK, HandsFollowStep, OneWorkerPerPayment
<1>7. CompletingSent'
  BY SMT DEF TakeNext, IInv, TypeOK, HandsFollowStep, CompletingSent
<1>8. CompletedWasPaid'
  BY SMT DEF TakeNext, IInv, TypeOK, HandsFollowStep, CompletingSent, CompletedWasPaid
<1>9. Fresh'
  BY SMT DEF TakeNext, IInv, TypeOK, HandsFollowStep, Fresh
<1>10. SentRemembered'
  BY SMT DEF TakeNext, IInv, TypeOK, HandsFollowStep, SentRemembered
<1>. QED BY <1>1, <1>2, <1>3, <1>4, <1>5, <1>6, <1>7, <1>8, <1>9, <1>10 DEF IInv

\* Nothing is sent before execute.
LEMMA PreflightStep == ASSUME NEW w \in Workers, IInv, Preflight(w) PROVE IInv'
<1>1. TypeOK'
  BY SMT DEF Preflight, IInv, TypeOK
<1>2. HandsFollowStep'
  BY SMT DEF Preflight, IInv, TypeOK, HandsFollowStep
<1>3. KeysNeverShared'
  BY SMT DEF Preflight, IInv, TypeOK, HandsFollowStep, KeysNeverShared
<1>4. OnceInHand'
  BY SMT DEF Preflight, IInv, TypeOK, HandsFollowStep, OnceInHand
<1>5. HeldProcessing'
  BY SMT DEF Preflight, IInv, TypeOK, HandsFollowStep, HeldProcessing
<1>6. OneWorkerPerPayment'
  BY SMT DEF Preflight, IInv, TypeOK, HandsFollowStep, OneWorkerPerPayment
<1>7. CompletingSent'
  BY SMT DEF Preflight, IInv, TypeOK, HandsFollowStep, CompletingSent
<1>8. CompletedWasPaid'
  BY SMT DEF Preflight, IInv, TypeOK, HandsFollowStep, CompletingSent, CompletedWasPaid
<1>9. Fresh'
  BY SMT DEF Preflight, IInv, TypeOK, HandsFollowStep, Fresh
<1>10. SentRemembered'
  BY SMT DEF Preflight, IInv, TypeOK, HandsFollowStep, SentRemembered
<1>. QED BY <1>1, <1>2, <1>3, <1>4, <1>5, <1>6, <1>7, <1>8, <1>9, <1>10 DEF IInv

\* Nothing is sent before execute.
LEMMA QuoteStep == ASSUME NEW w \in Workers, IInv, Quote(w) PROVE IInv'
<1>1. TypeOK'
  <2>1. \A v \in Workers : Holding(v)' \subseteq Holding(v)
    BY SMT, RowAtHand DEF Quote, IInv, TypeOK, HandsFollowStep
  <2>2. \A v \in Workers : \A r \in Holding(v)' : r.attempt <= attempts[r.payment]'
    BY <2>1 DEF Quote, IInv, TypeOK
  <2>3. pc[w] # "next" /\ pc[w] # "idle" => row[w] \in Rows /\ KeyOf(row[w]) \in Keys
    BY RowAtHand DEF Quote, IInv, TypeOK
  <2>4. /\ pc' \in [Workers -> Labels] /\ code' \in [Workers -> {"none", "transient", "decision"}]
        /\ row' \in [Workers -> Rows \cup {NoRow}] /\ batch' \in [Workers -> SUBSET Rows]
    BY SMTT(20), <2>3 DEF Quote, IInv, TypeOK
  <2>5. /\ request' \in [Keys -> {"none", "quoted", "confirmed", "broadcast", "failed"}]
        /\ wire' \subseteq Keys /\ chain' \subseteq Keys
    BY SMTT(20), <2>3 DEF Quote, IInv, TypeOK
  <2>6. /\ status' \in [Payments -> Statuses] /\ attempts' \in [Payments -> 0..Cap]
        /\ due' \subseteq Payments /\ leased' \subseteq Payments /\ starting' \subseteq Payments
    BY SMTT(20), <2>3 DEF Quote, IInv, TypeOK
  <2>7. lost' \subseteq Payments /\ overridden' \subseteq Payments /\ doubted' \subseteq Payments
    BY SMTT(20), <2>3 DEF Quote, IInv, TypeOK
  <2>. QED BY <2>2, <2>4, <2>5, <2>6, <2>7 DEF TypeOK
<1>2. HandsFollowStep'
  BY SMT DEF Quote, IInv, TypeOK, HandsFollowStep
<1>3. KeysNeverShared'
  BY SMT DEF Quote, IInv, TypeOK, HandsFollowStep, KeysNeverShared
<1>4. OnceInHand'
  BY SMT DEF Quote, IInv, TypeOK, HandsFollowStep, OnceInHand
<1>5. HeldProcessing'
  BY SMT DEF Quote, IInv, TypeOK, HandsFollowStep, HeldProcessing
<1>6. OneWorkerPerPayment'
  BY SMT DEF Quote, IInv, TypeOK, HandsFollowStep, OneWorkerPerPayment
<1>7. CompletingSent'
  BY SMT DEF Quote, IInv, TypeOK, HandsFollowStep, CompletingSent
<1>8. CompletedWasPaid'
  BY SMT DEF Quote, IInv, TypeOK, HandsFollowStep, CompletingSent, CompletedWasPaid
<1>9. Fresh'
  BY SMT DEF Quote, IInv, TypeOK, HandsFollowStep, Fresh
<1>10. SentRemembered'
  BY SMT DEF Quote, IInv, TypeOK, HandsFollowStep, SentRemembered
<1>. QED BY <1>1, <1>2, <1>3, <1>4, <1>5, <1>6, <1>7, <1>8, <1>9, <1>10 DEF IInv

\* Nothing is sent before execute.
LEMMA ConfirmQuoteStep == ASSUME NEW w \in Workers, IInv, ConfirmQuote(w) PROVE IInv'
<1>1. TypeOK'
  <2>1. \A v \in Workers : Holding(v)' \subseteq Holding(v)
    BY SMT, RowAtHand DEF ConfirmQuote, IInv, TypeOK, HandsFollowStep
  <2>2. \A v \in Workers : \A r \in Holding(v)' : r.attempt <= attempts[r.payment]'
    BY <2>1 DEF ConfirmQuote, IInv, TypeOK
  <2>3. pc[w] # "next" /\ pc[w] # "idle" => row[w] \in Rows /\ KeyOf(row[w]) \in Keys
    BY RowAtHand DEF ConfirmQuote, IInv, TypeOK
  <2>4. /\ pc' \in [Workers -> Labels] /\ code' \in [Workers -> {"none", "transient", "decision"}]
        /\ row' \in [Workers -> Rows \cup {NoRow}] /\ batch' \in [Workers -> SUBSET Rows]
    BY SMTT(20), <2>3 DEF ConfirmQuote, IInv, TypeOK
  <2>5. /\ request' \in [Keys -> {"none", "quoted", "confirmed", "broadcast", "failed"}]
        /\ wire' \subseteq Keys /\ chain' \subseteq Keys
    BY SMTT(20), <2>3 DEF ConfirmQuote, IInv, TypeOK
  <2>6. /\ status' \in [Payments -> Statuses] /\ attempts' \in [Payments -> 0..Cap]
        /\ due' \subseteq Payments /\ leased' \subseteq Payments /\ starting' \subseteq Payments
    BY SMTT(20), <2>3 DEF ConfirmQuote, IInv, TypeOK
  <2>7. lost' \subseteq Payments /\ overridden' \subseteq Payments /\ doubted' \subseteq Payments
    BY SMTT(20), <2>3 DEF ConfirmQuote, IInv, TypeOK
  <2>. QED BY <2>2, <2>4, <2>5, <2>6, <2>7 DEF TypeOK
<1>2. HandsFollowStep'
  BY SMT DEF ConfirmQuote, IInv, TypeOK, HandsFollowStep
<1>3. KeysNeverShared'
  BY SMT DEF ConfirmQuote, IInv, TypeOK, HandsFollowStep, KeysNeverShared
<1>4. OnceInHand'
  BY SMT DEF ConfirmQuote, IInv, TypeOK, HandsFollowStep, OnceInHand
<1>5. HeldProcessing'
  BY SMT DEF ConfirmQuote, IInv, TypeOK, HandsFollowStep, HeldProcessing
<1>6. OneWorkerPerPayment'
  BY SMT DEF ConfirmQuote, IInv, TypeOK, HandsFollowStep, OneWorkerPerPayment
<1>7. CompletingSent'
  BY SMT DEF ConfirmQuote, IInv, TypeOK, HandsFollowStep, CompletingSent
<1>8. CompletedWasPaid'
  BY SMT DEF ConfirmQuote, IInv, TypeOK, HandsFollowStep, CompletingSent, CompletedWasPaid
<1>9. Fresh'
  BY SMT DEF ConfirmQuote, IInv, TypeOK, HandsFollowStep, Fresh
<1>10. SentRemembered'
  BY SMT DEF ConfirmQuote, IInv, TypeOK, HandsFollowStep, SentRemembered
<1>. QED BY <1>1, <1>2, <1>3, <1>4, <1>5, <1>6, <1>7, <1>8, <1>9, <1>10 DEF IInv

\* The first transfer of a payment in hand, or none.
LEMMA ExecuteStep == ASSUME NEW w \in Workers, IInv, Execute(w) PROVE IInv'
<1>1. TypeOK'
  <2>1. \A v \in Workers : Holding(v)' \subseteq Holding(v)
    BY SMT, RowAtHand DEF Execute, IInv, TypeOK, HandsFollowStep
  <2>2. \A v \in Workers : \A r \in Holding(v)' : r.attempt <= attempts[r.payment]'
    BY <2>1 DEF Execute, IInv, TypeOK
  <2>3. pc[w] # "next" /\ pc[w] # "idle" => row[w] \in Rows /\ KeyOf(row[w]) \in Keys
    BY RowAtHand DEF Execute, IInv, TypeOK
  <2>4. /\ pc' \in [Workers -> Labels] /\ code' \in [Workers -> {"none", "transient", "decision"}]
        /\ row' \in [Workers -> Rows \cup {NoRow}] /\ batch' \in [Workers -> SUBSET Rows]
    BY SMTT(20), <2>3 DEF Execute, IInv, TypeOK
  <2>5. /\ request' \in [Keys -> {"none", "quoted", "confirmed", "broadcast", "failed"}]
        /\ wire' \subseteq Keys /\ chain' \subseteq Keys
    BY SMTT(20), <2>3 DEF Execute, IInv, TypeOK
  <2>6. /\ status' \in [Payments -> Statuses] /\ attempts' \in [Payments -> 0..Cap]
        /\ due' \subseteq Payments /\ leased' \subseteq Payments /\ starting' \subseteq Payments
    BY SMTT(20), <2>3 DEF Execute, IInv, TypeOK
  <2>7. lost' \subseteq Payments /\ overridden' \subseteq Payments /\ doubted' \subseteq Payments
    BY SMTT(20), <2>3 DEF Execute, IInv, TypeOK
  <2>. QED BY <2>2, <2>4, <2>5, <2>6, <2>7 DEF TypeOK
<1>2. HandsFollowStep'
  BY SMT DEF Execute, IInv, TypeOK, HandsFollowStep
<1>3. KeysNeverShared'
  BY SMT DEF Execute, IInv, TypeOK, HandsFollowStep, KeysNeverShared
<1>4. OnceInHand'
  BY SMT DEF Execute, IInv, TypeOK, HandsFollowStep, OnceInHand
<1>5. HeldProcessing'
  BY SMT DEF Execute, IInv, TypeOK, HandsFollowStep, HeldProcessing
<1>6. OneWorkerPerPayment'
  BY SMT DEF Execute, IInv, TypeOK, HandsFollowStep, OneWorkerPerPayment
<1>7. CompletingSent'
  BY SMT DEF Execute, IInv, TypeOK, HandsFollowStep, CompletingSent
<1>8. CompletedWasPaid'
  BY SMT DEF Execute, IInv, TypeOK, HandsFollowStep, CompletingSent, CompletedWasPaid
<1>. DEFINE p == row[w].payment
<1>a. /\ row[w] \in Holding(w) /\ p \in Payments /\ KeyOf(row[w])[1] = p
      /\ Clear(p) => Sent(p) = {} /\ status[p] = "processing"
  BY SMTT(20), RowAtHand DEF Execute, IInv, TypeOK, Fresh, HeldProcessing, KeyOf
<1>b. /\ wire' \cup chain' \subseteq wire \cup chain \cup {KeyOf(row[w])}
      /\ Sent(p)' \subseteq Sent(p) \cup {KeyOf(row[w])}
      /\ \A q \in Payments : q # p => Sent(q)' \subseteq Sent(q)
  BY SMT, <1>a DEF Execute
<1>c. /\ \A v \in Workers : Holding(v)' = Holding(v) /\ batch'[v] = batch[v]
      /\ pc'[w] \in {"complete", "failed"} /\ \A v \in Workers : v # w => pc'[v] = pc[v]
      /\ UNCHANGED <<status, overridden, doubted>>
  BY SMT DEF Execute, IInv, TypeOK
<1>9. Fresh'
  <2>. SUFFICES ASSUME NEW v \in Workers, NEW r \in Holding(v), Clear(r.payment),
                       r \in batch[v] \/ pc'[v] \in {"preflight", "quote", "confirm", "execute"}
                PROVE  Sent(r.payment)' = {}
    BY <1>c DEF Fresh
  <2>1. r.payment # p
    BY SMT, <1>a, <1>c DEF IInv, OneWorkerPerPayment, OnceInHand
  <2>2. r.payment \in Payments /\ Sent(r.payment) = {}
    BY SMT, <1>c, <2>1, <1>a DEF IInv, Fresh, TypeOK
  <2>. QED BY <1>b, <2>1, <2>2
<1>10. SentRemembered'
  BY SMT, <1>a, <1>b, <1>c DEF IInv, SentRemembered
<1>. QED BY <1>1, <1>2, <1>3, <1>4, <1>5, <1>6, <1>7, <1>8, <1>9, <1>10 DEF IInv

\* A payment is completed behind its transfer.
LEMMA CompleteStep == ASSUME NEW w \in Workers, IInv, Complete(w) PROVE IInv'
<1>1. TypeOK'
  <2>1. \A v \in Workers : Holding(v)' \subseteq Holding(v)
    BY SMT, RowAtHand DEF Complete, IInv, TypeOK, HandsFollowStep
  <2>2. \A v \in Workers : \A r \in Holding(v)' : r.attempt <= attempts[r.payment]'
    BY <2>1 DEF Complete, IInv, TypeOK
  <2>3. pc[w] # "next" /\ pc[w] # "idle" => row[w] \in Rows /\ KeyOf(row[w]) \in Keys
    BY RowAtHand DEF Complete, IInv, TypeOK
  <2>4. /\ pc' \in [Workers -> Labels] /\ code' \in [Workers -> {"none", "transient", "decision"}]
        /\ row' \in [Workers -> Rows \cup {NoRow}] /\ batch' \in [Workers -> SUBSET Rows]
    BY SMTT(20), <2>3 DEF Complete, IInv, TypeOK
  <2>5. /\ request' \in [Keys -> {"none", "quoted", "confirmed", "broadcast", "failed"}]
        /\ wire' \subseteq Keys /\ chain' \subseteq Keys
    BY SMTT(20), <2>3 DEF Complete, IInv, TypeOK
  <2>6. /\ status' \in [Payments -> Statuses] /\ attempts' \in [Payments -> 0..Cap]
        /\ due' \subseteq Payments /\ leased' \subseteq Payments /\ starting' \subseteq Payments
    BY SMTT(20), <2>3 DEF Complete, IInv, TypeOK
  <2>7. lost' \subseteq Payments /\ overridden' \subseteq Payments /\ doubted' \subseteq Payments
    BY SMTT(20), <2>3 DEF Complete, IInv, TypeOK
  <2>. QED BY <2>2, <2>4, <2>5, <2>6, <2>7 DEF TypeOK
<1>2. HandsFollowStep'
  BY SMT DEF Complete, IInv, TypeOK, HandsFollowStep
<1>3. KeysNeverShared'
  BY SMT DEF Complete, IInv, TypeOK, HandsFollowStep, KeysNeverShared
<1>4. OnceInHand'
  BY SMT DEF Complete, IInv, TypeOK, HandsFollowStep, OnceInHand
<1>5. HeldProcessing'
  BY SMT DEF Complete, IInv, TypeOK, HandsFollowStep,
     HeldProcessing, OneWorkerPerPayment, OnceInHand
<1>6. OneWorkerPerPayment'
  BY SMT DEF Complete, IInv, TypeOK, HandsFollowStep, OneWorkerPerPayment
<1>7. CompletingSent'
  BY SMT DEF Complete, IInv, TypeOK, HandsFollowStep, CompletingSent
<1>8. CompletedWasPaid'
  <2>1. KeyOf(row[w]) \in chain' /\ KeyOf(row[w])[1] = row[w].payment
    BY DEF Complete, IInv, CompletingSent, KeyOf
  <2>2. \A p \in Payments : status'[p] = "completed" => p = row[w].payment \/ status[p] = "completed"
    BY SMT DEF Complete, IInv, TypeOK
  <2>. QED BY <2>1, <2>2 DEF Complete, IInv, CompletedWasPaid
<1>9. Fresh'
  BY SMT DEF Complete, IInv, TypeOK, HandsFollowStep, Fresh
<1>10. SentRemembered'
  BY SMT DEF Complete, IInv, TypeOK, HandsFollowStep, SentRemembered
<1>. QED BY <1>1, <1>2, <1>3, <1>4, <1>5, <1>6, <1>7, <1>8, <1>9, <1>10 DEF IInv

\* A payment given up on after a transfer is in doubt.
LEMMA MarkFailedStep == ASSUME NEW w \in Workers, IInv, MarkFailed(w) PROVE IInv'
<1>1. TypeOK'
  <2>1. \A v \in Workers : Holding(v)' \subseteq Holding(v)
    BY SMT, RowAtHand DEF MarkFailed, IInv, TypeOK, HandsFollowStep
  <2>2. \A v \in Workers : \A r \in Holding(v)' : r.attempt <= attempts[r.payment]'
    BY <2>1 DEF MarkFailed, IInv, TypeOK
  <2>3. pc[w] # "next" /\ pc[w] # "idle" => row[w] \in Rows /\ KeyOf(row[w]) \in Keys
    BY RowAtHand DEF MarkFailed, IInv, TypeOK
  <2>4. /\ pc' \in [Workers -> Labels] /\ code' \in [Workers -> {"none", "transient", "decision"}]
        /\ row' \in [Workers -> Rows \cup {NoRow}] /\ batch' \in [Workers -> SUBSET Rows]
    BY SMTT(20), <2>3 DEF MarkFailed, IInv, TypeOK
  <2>5. /\ request' \in [Keys -> {"none", "quoted", "confirmed", "broadcast", "failed"}]
        /\ wire' \subseteq Keys /\ chain' \subseteq Keys
    BY SMTT(20), <2>3 DEF MarkFailed, IInv, TypeOK
  <2>6. /\ status' \in [Payments -> Statuses] /\ attempts' \in [Payments -> 0..Cap]
        /\ due' \subseteq Payments /\ leased' \subseteq Payments /\ starting' \subseteq Payments
    BY SMTT(20), <2>3 DEF MarkFailed, IInv, TypeOK
  <2>7. lost' \subseteq Payments /\ overridden' \subseteq Payments /\ doubted' \subseteq Payments
    BY SMTT(20), <2>3 DEF MarkFailed, IInv, TypeOK
  <2>. QED BY <2>2, <2>4, <2>5, <2>6, <2>7 DEF TypeOK
<1>2. HandsFollowStep'
  BY SMT DEF MarkFailed, IInv, TypeOK, HandsFollowStep
<1>3. KeysNeverShared'
  BY SMT DEF MarkFailed, IInv, TypeOK, HandsFollowStep, KeysNeverShared
<1>4. OnceInHand'
  BY SMT DEF MarkFailed, IInv, TypeOK, HandsFollowStep, OnceInHand
<1>5. HeldProcessing'
  BY SMT DEF MarkFailed, IInv, TypeOK, HandsFollowStep,
     HeldProcessing, OneWorkerPerPayment, OnceInHand
<1>6. OneWorkerPerPayment'
  BY SMT DEF MarkFailed, IInv, TypeOK, HandsFollowStep, OneWorkerPerPayment
<1>7. CompletingSent'
  BY SMT DEF MarkFailed, IInv, TypeOK, HandsFollowStep, CompletingSent
<1>8. CompletedWasPaid'
  BY SMT DEF MarkFailed, IInv, TypeOK, HandsFollowStep, CompletingSent, CompletedWasPaid
<1>9. Fresh'
  BY SMT DEF MarkFailed, IInv, TypeOK, HandsFollowStep, Fresh
<1>10. SentRemembered'
  BY SMT DEF MarkFailed, IInv, TypeOK, HandsFollowStep, SentRemembered
<1>. QED BY <1>1, <1>2, <1>3, <1>4, <1>5, <1>6, <1>7, <1>8, <1>9, <1>10 DEF IInv

\* Time touches no claim.
LEMMA BecomeDueStep == ASSUME NEW p \in Payments, IInv, BecomeDue(p) PROVE IInv'
  BY SMT DEF BecomeDue, IInv, TypeOK, HandsFollowStep, KeysNeverShared, OnceInHand,
     HeldProcessing, OneWorkerPerPayment, CompletingSent, CompletedWasPaid, Fresh, SentRemembered

\* A lease that runs out leaves the row processing.
LEMMA LeaseExpiresStep == ASSUME NEW p \in Payments, IInv, LeaseExpires(p) PROVE IInv'
  BY SMT DEF LeaseExpires, IInv, TypeOK, HandsFollowStep, KeysNeverShared, OnceInHand,
     HeldProcessing, OneWorkerPerPayment, CompletingSent, CompletedWasPaid, Fresh, SentRemembered

\* A transfer on the wire is executed or dropped.
LEMMA LandStep == ASSUME NEW k \in Keys, IInv, Land(k) PROVE IInv'
  BY SMT DEF Land, IInv, TypeOK, HandsFollowStep, KeysNeverShared, OnceInHand,
     HeldProcessing, OneWorkerPerPayment, CompletingSent, CompletedWasPaid, Fresh, SentRemembered

\* A failing transaction sends nothing.
LEMMA DbErrorStep == ASSUME NEW w \in Workers, IInv, DbError(w) PROVE IInv'
<1>1. TypeOK'
  <2>1. \A v \in Workers : Holding(v)' \subseteq Holding(v)
    BY SMT, RowAtHand DEF DbError, IInv, TypeOK, HandsFollowStep
  <2>2. \A v \in Workers : \A r \in Holding(v)' : r.attempt <= attempts[r.payment]'
    BY <2>1 DEF DbError, IInv, TypeOK
  <2>3. pc[w] # "next" /\ pc[w] # "idle" => row[w] \in Rows /\ KeyOf(row[w]) \in Keys
    BY RowAtHand DEF DbError, IInv, TypeOK
  <2>4. /\ pc' \in [Workers -> Labels] /\ code' \in [Workers -> {"none", "transient", "decision"}]
        /\ row' \in [Workers -> Rows \cup {NoRow}] /\ batch' \in [Workers -> SUBSET Rows]
    BY SMTT(20), <2>3 DEF DbError, IInv, TypeOK
  <2>5. /\ request' \in [Keys -> {"none", "quoted", "confirmed", "broadcast", "failed"}]
        /\ wire' \subseteq Keys /\ chain' \subseteq Keys
    BY SMTT(20), <2>3 DEF DbError, IInv, TypeOK
  <2>6. /\ status' \in [Payments -> Statuses] /\ attempts' \in [Payments -> 0..Cap]
        /\ due' \subseteq Payments /\ leased' \subseteq Payments /\ starting' \subseteq Payments
    BY SMTT(20), <2>3 DEF DbError, IInv, TypeOK
  <2>7. lost' \subseteq Payments /\ overridden' \subseteq Payments /\ doubted' \subseteq Payments
    BY SMTT(20), <2>3 DEF DbError, IInv, TypeOK
  <2>. QED BY <2>2, <2>4, <2>5, <2>6, <2>7 DEF TypeOK
<1>2. HandsFollowStep'
  BY SMT DEF DbError, IInv, TypeOK, HandsFollowStep
<1>3. KeysNeverShared'
  BY SMT DEF DbError, IInv, TypeOK, HandsFollowStep, KeysNeverShared
<1>4. OnceInHand'
  BY SMT DEF DbError, IInv, TypeOK, HandsFollowStep, OnceInHand
<1>5. HeldProcessing'
  BY SMT DEF DbError, IInv, TypeOK, HandsFollowStep, HeldProcessing
<1>6. OneWorkerPerPayment'
  BY SMT DEF DbError, IInv, TypeOK, HandsFollowStep, OneWorkerPerPayment
<1>7. CompletingSent'
  BY SMT DEF DbError, IInv, TypeOK, HandsFollowStep, CompletingSent
<1>8. CompletedWasPaid'
  BY SMT DEF DbError, IInv, TypeOK, HandsFollowStep, CompletingSent, CompletedWasPaid
<1>9. Fresh'
  BY SMT DEF DbError, IInv, TypeOK, HandsFollowStep, Fresh
<1>10. SentRemembered'
  BY SMT DEF DbError, IInv, TypeOK, HandsFollowStep, SentRemembered
<1>. QED BY <1>1, <1>2, <1>3, <1>4, <1>5, <1>6, <1>7, <1>8, <1>9, <1>10 DEF IInv

\* A worker that dies leaves its rows processing.
LEMMA CrashStep == ASSUME NEW w \in Workers, IInv, Crash(w) PROVE IInv'
<1>1. TypeOK'
  BY SMT DEF Crash, IInv, TypeOK
<1>2. HandsFollowStep'
  BY SMT DEF Crash, IInv, TypeOK, HandsFollowStep
<1>3. KeysNeverShared'
  BY SMT DEF Crash, IInv, TypeOK, HandsFollowStep, KeysNeverShared
<1>4. OnceInHand'
  BY SMT DEF Crash, IInv, TypeOK, HandsFollowStep, OnceInHand
<1>5. HeldProcessing'
  BY SMT DEF Crash, IInv, TypeOK, HandsFollowStep, HeldProcessing
<1>6. OneWorkerPerPayment'
  BY SMT DEF Crash, IInv, TypeOK, HandsFollowStep, OneWorkerPerPayment
<1>7. CompletingSent'
  BY SMT DEF Crash, IInv, TypeOK, HandsFollowStep, CompletingSent
<1>8. CompletedWasPaid'
  BY SMT DEF Crash, IInv, TypeOK, HandsFollowStep, CompletingSent, CompletedWasPaid
<1>9. Fresh'
  BY SMT DEF Crash, IInv, TypeOK, HandsFollowStep, Fresh
<1>10. SentRemembered'
  BY SMT DEF Crash, IInv, TypeOK, HandsFollowStep, SentRemembered
<1>. QED BY <1>1, <1>2, <1>3, <1>4, <1>5, <1>6, <1>7, <1>8, <1>9, <1>10 DEF IInv

\* A claim takes only payments that are scheduled, within the bound of attempts,
\* and gives the worker one row for each, with the attempt just counted.
LEMMA Claimed ==
    ASSUME NEW w \in Workers, IInv, ClaimDue(w)
    PROVE  \E S \in SUBSET Payments :
              /\ \A p \in S : status[p] = "scheduled" /\ attempts[p] < Cap
              /\ status' = [p \in Payments |-> IF p \in S THEN "processing" ELSE status[p]]
              /\ attempts' = [p \in Payments |-> IF p \in S THEN attempts[p] + 1 ELSE attempts[p]]
              /\ batch' = [batch EXCEPT ![w] = {[payment |-> p, attempt |-> attempts[p] + 1] : p \in S}]
              /\ leased' = leased \cup S
BY DEF ClaimDue, Batches, kSubset, Claimable

\* The rows in hand after a claim: what others hold, and fresh attempts.
LEMMA ClaimDueStep == ASSUME NEW w \in Workers, IInv, ClaimDue(w) PROVE IInv'
<1>1. PICK S \in SUBSET Payments :
              /\ \A p \in S : status[p] = "scheduled" /\ attempts[p] < Cap
              /\ status' = [p \in Payments |-> IF p \in S THEN "processing" ELSE status[p]]
              /\ attempts' = [p \in Payments |-> IF p \in S THEN attempts[p] + 1 ELSE attempts[p]]
              /\ batch' = [batch EXCEPT ![w] = {[payment |-> p, attempt |-> attempts[p] + 1] : p \in S}]
              /\ leased' = leased \cup S
  BY Claimed
<1>2. /\ pc[w] = "idle" /\ row[w] = NoRow /\ batch[w] = {} /\ pc' = [pc EXCEPT ![w] = "next"]
      /\ UNCHANGED <<due, chainVars, row, code, starting, history>>
  BY DEF ClaimDue, IInv, HandsFollowStep
<1>3. /\ \A r \in Holding(w)' : /\ r.payment \in S /\ r.attempt = attempts[r.payment] + 1
                               /\ r = [payment |-> r.payment, attempt |-> r.attempt]
      /\ \A v \in Workers : v # w => Holding(v)' = Holding(v)
  BY SMT, <1>1, <1>2 DEF IInv, TypeOK
<1>4. \A p \in S : Cap \in Nat /\ attempts[p] + 1 \in 1..Cap
  BY SMT, <1>1 DEF IInv, TypeOK, Cap
<1>5. TypeOK'
  <2>1. /\ status' \in [Payments -> Statuses] /\ attempts' \in [Payments -> 0..Cap]
        /\ batch' \in [Workers -> SUBSET Rows]
    BY SMT, <1>1, <1>4 DEF IInv, TypeOK
  <2>2. \A v \in Workers : \A r \in Holding(v)' : r.attempt <= attempts'[r.payment]
    BY SMT, <1>1, <1>3, <1>4 DEF IInv, TypeOK
  <2>. QED BY SMT, <1>1, <1>2, <2>1, <2>2 DEF IInv, TypeOK
<1>6. HandsFollowStep'
  BY SMT, <1>1, <1>2 DEF IInv, TypeOK, HandsFollowStep
<1>7. KeysNeverShared'
  BY SMT, <1>3, <1>4 DEF IInv, TypeOK, KeysNeverShared
<1>8. OnceInHand'
  BY SMT, <1>1, <1>2, <1>3 DEF IInv, TypeOK, OnceInHand
<1>9. HeldProcessing'
  BY SMT, <1>1, <1>2, <1>3 DEF IInv, TypeOK, HeldProcessing
<1>10. OneWorkerPerPayment'
  BY SMT, <1>1, <1>2, <1>3 DEF IInv, TypeOK, OneWorkerPerPayment, HeldProcessing
<1>11. CompletingSent' /\ CompletedWasPaid'
  BY SMT, <1>1, <1>2 DEF IInv, TypeOK, CompletingSent, CompletedWasPaid
<1>12. Fresh'
  BY SMT, <1>1, <1>2, <1>3 DEF IInv, TypeOK, Fresh, SentRemembered
<1>13. SentRemembered'
  BY SMT, <1>1, <1>2 DEF IInv, TypeOK, SentRemembered
<1>. QED BY <1>5, <1>6, <1>7, <1>8, <1>9, <1>10, <1>11, <1>12, <1>13 DEF IInv

\* A step that changes nothing keeps the invariant.
LEMMA Stutter == IInv /\ UNCHANGED vars => IInv'
BY DEF vars, IInv, TypeOK, HandsFollowStep, KeysNeverShared, OnceInHand, HeldProcessing,
       OneWorkerPerPayment, CompletingSent, CompletedWasPaid, Fresh, SentRemembered

\* Every action keeps the invariant.
LEMMA NextIInv == IInv /\ [Next]_vars => IInv'
<1>. SUFFICES ASSUME IInv, [Next]_vars PROVE IInv'
  OBVIOUS
<1>1. ASSUME NEW w \in Workers, WorkerStep(w) PROVE IInv'
  BY <1>1, ClaimDueStep, TakeNextStep, PreflightStep, QuoteStep, ConfirmQuoteStep, ExecuteStep,
     CompleteStep, MarkFailedStep DEF WorkerStep
<1>2. ASSUME NEW p \in Payments, UserStep(p) PROVE IInv'
  BY <1>2, CreateScheduledPaymentStep, UpdateScheduledPaymentStep, CancelScheduledPaymentStep,
     RunNowReadStep, RunNowWriteStep DEF UserStep
<1>3. CASE Environment
  BY <1>3, BecomeDueStep, LeaseExpiresStep, DbErrorStep, CrashStep, LandStep DEF Environment
<1>4. CASE UNCHANGED vars
  BY <1>4, Stutter
<1>. QED BY <1>1, <1>2, <1>3, <1>4 DEF Next

----------------------------------------------------------------------------
(* The theorems *)

\* The inductive invariant holds in every reachable state.
THEOREM Inductive == Spec => []IInv
<1>. QED BY InitIInv, NextIInv, PTL DEF Spec

\* Every variable has its type, attempts stay within the CHECK of the table, and a
\* row in hand has been counted.
THEOREM TypeCorrect == Spec => []TypeOK
<1>1. IInv => TypeOK
  BY DEF IInv
<1>. QED BY <1>1, Inductive, PTL

\* Two workers never hold one payment under one idempotency key.
THEOREM KeysApart == Spec => []KeysNeverShared
<1>1. IInv => KeysNeverShared
  BY DEF IInv
<1>. QED BY <1>1, Inductive, PTL

\* Two workers never claim the same payment unless run-now wrote over a claim.
THEOREM OneWorker == Spec => []OneWorkerPerPayment
<1>1. IInv => OneWorkerPerPayment
  BY DEF IInv
<1>. QED BY <1>1, Inductive, PTL

\* A payment shown as completed has a transfer behind it.
THEOREM CompletedPaid == Spec => []CompletedWasPaid
<1>1. IInv => CompletedWasPaid
  BY DEF IInv
<1>. QED BY <1>1, Inductive, PTL

\* A cancelled payment is in nobody's hands unless run-now wrote over a claim.
THEOREM CancelledIdle == Spec => []CancelledIsIdle
<1>1. IInv => CancelledIsIdle
  BY DEF IInv, HeldProcessing, CancelledIsIdle
<1>. QED BY <1>1, Inductive, PTL

\* A payment is executed twice only after run-now wrote over a claim or an attempt
\* was given up on whose transfer had left.
THEOREM PaidOnce == Spec => []PaidOnceUnlessInDoubt
<1>. HIDE DEF Sent
<1>1. ASSUME IInv, NEW p \in Payments \ (overridden \cup doubted)
      PROVE  Cardinality(Sent(p)) <= 1
  <2>1. \A j, k \in Sent(p) : j = k
    BY <1>1 DEF IInv, SentRemembered
  <2>2. CASE Sent(p) = {}
    <3>1. Cardinality(Sent(p)) = 0
      BY <2>2, FS_EmptySet, Zenon
    <3>. QED BY <3>1
  <2>3. CASE Sent(p) # {}
    <3>1. PICK k : k \in Sent(p)
      BY <2>3
    <3>2. Sent(p) = {k}
      BY <2>1, <3>1
    <3>3. Cardinality(Sent(p)) = 1
      BY <3>2, FS_Singleton, Zenon
    <3>. QED BY <3>3
  <2>. QED BY <2>2, <2>3
<1>2. IInv => PaidOnceUnlessInDoubt
  BY <1>1 DEF PaidOnceUnlessInDoubt
<1>. QED BY <1>2, Inductive, PTL
=============================================================================
