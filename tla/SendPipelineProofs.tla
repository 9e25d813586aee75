------------------------- MODULE SendPipelineProofs -------------------------
(***************************************************************************)
(* Proofs about SendPipeline for every set of keys, callers and values and *)
(* every choice of caps, signer modes and faults.                          *)
(*                                                                         *)
(* The argument: the conditional UPDATE quoted -> confirmed admits one     *)
(* handler per request into execute (OneExecutor), the row trigger keeps   *)
(* the row in step with that handler (RowFollowsHandler), and a transfer   *)
(* leaves only at the handler's broadcast step (NothingSentYet), after     *)
(* which the row can no longer be withdrawn (SentRows).                    *)
(***************************************************************************)
EXTENDS SendPipeline, TLAPS

BeforeRecord == {"audit", "execute", "enter", "build", "sign", "broadcast"}

\* A running handler serves a request that exists, and a stored row has numbers.
JobsReal ==
    /\ \A c \in Callers : pc[c] \in {"limits", "persist", "load", "claim"} \cup Executing
                              => job[c] \in Quotes
    /\ \A c \in Callers : pc[c] = "withdraw" => job[c].key \in Keys
    /\ \A k \in Keys : status[k] # "none" => amount[k] \in Values

\* At most one handler executes a request.
OneExecutor ==
    \A c, d \in Callers :
        /\ pc[c] \in Executing /\ pc[d] \in Executing
        /\ job[c].key = job[d].key
        => c = d

\* Where the row can be, given where its handler is.
RowFollowsHandler ==
    \A c \in Callers :
        LET s == status[job[c].key] IN
        /\ pc[c] \in {"audit", "execute", "enter"} => s \in {"confirmed", "cancelled"}
        /\ pc[c] \in {"build", "sign", "broadcast", "record"} => s = "signing"
        /\ pc[c] = "notify" => s = "broadcast"
        /\ pc[c] = "fail" => s \in {"confirmed", "cancelled", "signing", "broadcast"}

\* A handler that has not reached the broadcast has moved nothing, and one that
\* is recording a real transfer has moved it.
NothingSentYet ==
    \A c \in Callers :
        LET k == job[c].key IN
        /\ pc[c] \in BeforeRecord => pool[k] = 0 /\ moved[k] = 0
        /\ pc[c] = "record" /\ ~simulated => pool[k] = 0 /\ moved[k] = 1

\* The rows behind which something was sent, at most once.
SentRows ==
    \A k \in Keys :
        /\ pool[k] + moved[k] <= 1
        /\ pool[k] + moved[k] > 0 => status[k] \in {"signing", "broadcast", "failed"}

\* What a deployment with a real signer has told: every row it reports, and
\* every ledger row it wrote, is a transfer that happened.
ReportedRows ==
    ~simulated =>
        /\ \A k \in Keys : status[k] = "broadcast" =>
              /\ moved[k] = 1 /\ txHash[k] = <<"tx", k>>
              /\ [hash |-> <<"tx", k>>, key |-> k] \in ledger
        /\ \A t \in ledger :
              /\ t.hash = <<"tx", t.key>> /\ txHash[t.key] = t.hash
              /\ moved[t.key] = 1 /\ status[t.key] \in {"broadcast", "failed"}

IInv == /\ TypeOK /\ JobsReal
        /\ OneExecutor /\ RowFollowsHandler
        /\ NothingSentYet /\ SentRows
        /\ ReportedRows

USE KeysAssumption, ValuesAssumption, ModesAssumption
USE DEF Goto, Return, SetStatus, Admits, NextStatuses, rowVars, chainVars, NoJob, Quotes,
        Labels, Quoting, Executing, BeforeRecord, Statuses

\* The tables start empty and no handler runs.
LEMMA InitIInv == Init => IInv
BY DEF IInv, Init, TypeOK, JobsReal, OneExecutor, RowFollowsHandler, NothingSentYet,
       SentRows, ReportedRows, Hashes, NoHash

\* A handler that only returns leaves every promise in place.
LEMMA ReturnStep ==
    ASSUME NEW c \in Callers, IInv, Return(c),
           UNCHANGED <<simulated, sendingEnabled, rowVars, ledger, screens, chainVars>>
    PROVE  IInv'
<1>1. TypeOK' /\ JobsReal'
  BY DEF IInv, TypeOK, JobsReal
<1>2. OneExecutor' /\ RowFollowsHandler'
  BY DEF IInv, TypeOK, JobsReal, OneExecutor, RowFollowsHandler
<1>3. NothingSentYet' /\ SentRows' /\ ReportedRows'
  BY DEF IInv, TypeOK, JobsReal, NothingSentYet, SentRows, ReportedRows, HashOf
<1>. QED BY <1>1, <1>2, <1>3 DEF IInv

----------------------------------------------------------------------------
(* Phase 1: quote *)

\* A handler that starts a quote executes nothing.
LEMMA StartQuoteStep ==
    ASSUME NEW c \in Callers, NEW k \in Keys, NEW v \in Values, IInv, StartQuote(c, k, v)
    PROVE  IInv'
<1>1. TypeOK' /\ JobsReal'
  BY DEF IInv, TypeOK, JobsReal, Hashes, NoHash, HashOf, StartQuote
<1>2. OneExecutor' /\ RowFollowsHandler'
  BY DEF IInv, TypeOK, JobsReal, OneExecutor, RowFollowsHandler, StartQuote
<1>3. NothingSentYet' /\ SentRows'
  BY DEF IInv, TypeOK, JobsReal, OneExecutor, RowFollowsHandler, NothingSentYet, SentRows,
         StartQuote
<1>4. ReportedRows'
  BY DEF IInv, TypeOK, JobsReal, RowFollowsHandler, NothingSentYet, SentRows, ReportedRows,
         HashOf, StartQuote
<1>. QED BY <1>1, <1>2, <1>3, <1>4 DEF IInv

\* The caps decide only whether the handler goes on.
LEMMA CheckLimitsStep == ASSUME NEW c \in Callers, IInv, CheckLimits(c) PROVE IInv'
<1>1. CASE Return(c)
  BY <1>1, ReturnStep DEF CheckLimits
<1>2. CASE ~Return(c)
  <2>. Goto(c, "persist")
    BY <1>2 DEF CheckLimits
  <2>1. TypeOK' /\ JobsReal'
    BY DEF IInv, TypeOK, JobsReal, Hashes, NoHash, HashOf, CheckLimits
  <2>2. OneExecutor' /\ RowFollowsHandler'
    BY DEF IInv, TypeOK, JobsReal, OneExecutor, RowFollowsHandler, CheckLimits
  <2>3. NothingSentYet' /\ SentRows'
    BY DEF IInv, TypeOK, JobsReal, OneExecutor, RowFollowsHandler, NothingSentYet, SentRows,
           CheckLimits
  <2>4. ReportedRows'
    BY DEF IInv, TypeOK, JobsReal, RowFollowsHandler, NothingSentYet, SentRows, ReportedRows,
           HashOf, CheckLimits
  <2>. QED BY <2>1, <2>2, <2>3, <2>4 DEF IInv
<1>. QED BY <1>1, <1>2

\* INSERT ... ON CONFLICT: nothing was sent behind a row that did not exist.
LEMMA PersistStep == ASSUME NEW c \in Callers, IInv, Persist(c) PROVE IInv'
<1>1. TypeOK' /\ JobsReal'
  BY DEF IInv, TypeOK, JobsReal, Hashes, NoHash, HashOf, Persist
<1>2. OneExecutor' /\ RowFollowsHandler'
  BY DEF IInv, TypeOK, JobsReal, OneExecutor, RowFollowsHandler, Persist
<1>3. NothingSentYet' /\ SentRows'
  BY DEF IInv, TypeOK, JobsReal, OneExecutor, RowFollowsHandler, NothingSentYet, SentRows,
         Persist
<1>4. ReportedRows'
  BY DEF IInv, TypeOK, JobsReal, RowFollowsHandler, NothingSentYet, SentRows, ReportedRows,
         HashOf, Persist
<1>. QED BY <1>1, <1>2, <1>3, <1>4 DEF IInv

----------------------------------------------------------------------------
(* Phase 2: confirm *)

\* The client's quote names a row that exists.
LEMMA StartConfirmStep ==
    ASSUME NEW c \in Callers, NEW q \in screens, IInv, StartConfirm(c, q)
    PROVE  IInv'
<1>1. TypeOK' /\ JobsReal'
  BY DEF IInv, TypeOK, JobsReal, Hashes, NoHash, HashOf, StartConfirm
<1>2. OneExecutor' /\ RowFollowsHandler'
  BY DEF IInv, TypeOK, JobsReal, OneExecutor, RowFollowsHandler, StartConfirm
<1>3. NothingSentYet' /\ SentRows'
  BY DEF IInv, TypeOK, JobsReal, OneExecutor, RowFollowsHandler, NothingSentYet, SentRows,
         StartConfirm
<1>4. ReportedRows'
  BY DEF IInv, TypeOK, JobsReal, RowFollowsHandler, NothingSentYet, SentRows, ReportedRows,
         HashOf, StartConfirm
<1>. QED BY <1>1, <1>2, <1>3, <1>4 DEF IInv

\* The plain read claims nothing.
LEMMA LoadRequestStep == ASSUME NEW c \in Callers, IInv, LoadRequest(c) PROVE IInv'
<1>1. CASE Return(c)
  BY <1>1, ReturnStep DEF LoadRequest
<1>2. CASE ~Return(c)
  <2>. Goto(c, "claim")
    BY <1>2 DEF LoadRequest
  <2>1. TypeOK' /\ JobsReal'
    BY DEF IInv, TypeOK, JobsReal, Hashes, NoHash, HashOf, LoadRequest
  <2>2. OneExecutor' /\ RowFollowsHandler'
    BY DEF IInv, TypeOK, JobsReal, OneExecutor, RowFollowsHandler, LoadRequest
  <2>3. NothingSentYet' /\ SentRows'
    BY DEF IInv, TypeOK, JobsReal, OneExecutor, RowFollowsHandler, NothingSentYet, SentRows,
           LoadRequest
  <2>4. ReportedRows'
    BY DEF IInv, TypeOK, JobsReal, RowFollowsHandler, NothingSentYet, SentRows, ReportedRows,
           HashOf, LoadRequest
  <2>. QED BY <2>1, <2>2, <2>3, <2>4 DEF IInv
<1>. QED BY <1>1, <1>2

\* The conditional UPDATE: no handler executes a quoted row, so c is alone.
LEMMA ClaimStep == ASSUME NEW c \in Callers, IInv, Claim(c) PROVE IInv'
<1>1. CASE status' = status
  BY <1>1, ReturnStep DEF Claim, IInv, TypeOK, JobsReal
<1>2. CASE status' # status
  <2>. USE <1>2
  <2>1. TypeOK' /\ JobsReal'
    <3>1. TypeOK'
      BY SMTT(20) DEF IInv, TypeOK, JobsReal, Hashes, NoHash, HashOf, Claim
    <3>2. JobsReal'
      BY DEF IInv, TypeOK, JobsReal, Claim
    <3>. QED BY <3>1, <3>2
  <2>2. OneExecutor'
    BY DEF IInv, TypeOK, JobsReal, OneExecutor, RowFollowsHandler, Claim
  <2>3. RowFollowsHandler'
    BY DEF IInv, TypeOK, JobsReal, OneExecutor, RowFollowsHandler, Claim
  <2>4. NothingSentYet'
    BY DEF IInv, TypeOK, JobsReal, OneExecutor, RowFollowsHandler, NothingSentYet, SentRows,
           Claim
  <2>5. SentRows'
    BY DEF IInv, TypeOK, JobsReal, RowFollowsHandler, SentRows, Claim
  <2>6. ReportedRows'
    BY DEF IInv, TypeOK, JobsReal, RowFollowsHandler, NothingSentYet, SentRows, ReportedRows,
           HashOf, Claim
  <2>. QED BY <2>1, <2>2, <2>3, <2>4, <2>5, <2>6 DEF IInv
<1>. QED BY <1>1, <1>2

\* The audit row touches no money.
LEMMA AuditConfirmedStep == ASSUME NEW c \in Callers, IInv, AuditConfirmed(c) PROVE IInv'
<1>1. TypeOK' /\ JobsReal'
  BY DEF IInv, TypeOK, JobsReal, Hashes, NoHash, HashOf, AuditConfirmed
<1>2. OneExecutor' /\ RowFollowsHandler'
  BY DEF IInv, TypeOK, JobsReal, OneExecutor, RowFollowsHandler, AuditConfirmed
<1>3. NothingSentYet' /\ SentRows'
  BY DEF IInv, TypeOK, JobsReal, OneExecutor, RowFollowsHandler, NothingSentYet, SentRows,
         AuditConfirmed
<1>4. ReportedRows'
  BY DEF IInv, TypeOK, JobsReal, RowFollowsHandler, NothingSentYet, SentRows, ReportedRows,
         HashOf, AuditConfirmed
<1>. QED BY <1>1, <1>2, <1>3, <1>4 DEF IInv

----------------------------------------------------------------------------
(* execute: build, sign, broadcast, record *)

\* The second read leaves the row alone.
LEMMA ExecuteReadStep == ASSUME NEW c \in Callers, IInv, ExecuteRead(c) PROVE IInv'
<1>1. CASE Return(c)
  BY <1>1, ReturnStep DEF ExecuteRead
<1>2. CASE ~Return(c)
  <2>. Goto(c, "enter")
    BY <1>2 DEF ExecuteRead
  <2>1. TypeOK' /\ JobsReal'
    BY DEF IInv, TypeOK, JobsReal, Hashes, NoHash, HashOf, ExecuteRead
  <2>2. OneExecutor' /\ RowFollowsHandler'
    BY DEF IInv, TypeOK, JobsReal, OneExecutor, RowFollowsHandler, ExecuteRead
  <2>3. NothingSentYet' /\ SentRows'
    BY DEF IInv, TypeOK, JobsReal, OneExecutor, RowFollowsHandler, NothingSentYet, SentRows,
           ExecuteRead
  <2>4. ReportedRows'
    BY DEF IInv, TypeOK, JobsReal, RowFollowsHandler, NothingSentYet, SentRows, ReportedRows,
           HashOf, ExecuteRead
  <2>. QED BY <2>1, <2>2, <2>3, <2>4 DEF IInv
<1>. QED BY <1>1, <1>2

\* The trigger refuses a row that was cancelled meanwhile.
LEMMA EnterSigningStep == ASSUME NEW c \in Callers, IInv, EnterSigning(c) PROVE IInv'
<1>1. CASE ~Admits(job[c].key, "signing")
  <2>. USE <1>1
  <2>1. TypeOK' /\ JobsReal'
    <3>1. TypeOK'
      BY SMTT(20) DEF IInv, TypeOK, JobsReal, Hashes, NoHash, HashOf, EnterSigning
    <3>2. JobsReal'
      BY DEF IInv, TypeOK, JobsReal, EnterSigning
    <3>. QED BY <3>1, <3>2
  <2>2. OneExecutor'
    BY DEF IInv, TypeOK, JobsReal, OneExecutor, RowFollowsHandler, EnterSigning
  <2>3. RowFollowsHandler'
    BY DEF IInv, TypeOK, JobsReal, OneExecutor, RowFollowsHandler, EnterSigning
  <2>4. NothingSentYet' /\ SentRows'
    BY DEF IInv, TypeOK, JobsReal, OneExecutor, RowFollowsHandler, NothingSentYet, SentRows,
           EnterSigning
  <2>5. ReportedRows'
    BY DEF IInv, TypeOK, JobsReal, RowFollowsHandler, NothingSentYet, SentRows, ReportedRows,
           HashOf, EnterSigning
  <2>. QED BY <2>1, <2>2, <2>3, <2>4, <2>5 DEF IInv
<1>2. CASE Admits(job[c].key, "signing")
  <2>. USE <1>2
  <2>1. TypeOK' /\ JobsReal'
    <3>1. TypeOK'
      BY SMTT(20) DEF IInv, TypeOK, JobsReal, Hashes, NoHash, HashOf, EnterSigning
    <3>2. JobsReal'
      BY DEF IInv, TypeOK, JobsReal, EnterSigning
    <3>. QED BY <3>1, <3>2
  <2>2. OneExecutor'
    BY DEF IInv, TypeOK, JobsReal, OneExecutor, RowFollowsHandler, EnterSigning
  <2>3. RowFollowsHandler'
    BY DEF IInv, TypeOK, JobsReal, OneExecutor, RowFollowsHandler, EnterSigning
  <2>4. NothingSentYet'
    BY DEF IInv, TypeOK, JobsReal, OneExecutor, RowFollowsHandler, NothingSentYet, SentRows,
           EnterSigning
  <2>5. SentRows'
    BY DEF IInv, TypeOK, JobsReal, RowFollowsHandler, SentRows, EnterSigning
  <2>6. ReportedRows'
    BY DEF IInv, TypeOK, JobsReal, RowFollowsHandler, NothingSentYet, SentRows, ReportedRows,
           HashOf, EnterSigning
  <2>. QED BY <2>1, <2>2, <2>3, <2>4, <2>5, <2>6 DEF IInv
<1>. QED BY <1>1, <1>2

\* Building moves nothing; its failure leaves the row signing.
LEMMA BuildTransferStep == ASSUME NEW c \in Callers, IInv, BuildTransfer(c) PROVE IInv'
<1>1. TypeOK' /\ JobsReal'
  BY DEF IInv, TypeOK, JobsReal, Hashes, NoHash, HashOf, BuildTransfer
<1>2. OneExecutor' /\ RowFollowsHandler'
  BY DEF IInv, TypeOK, JobsReal, OneExecutor, RowFollowsHandler, BuildTransfer
<1>3. NothingSentYet' /\ SentRows'
  BY DEF IInv, TypeOK, JobsReal, OneExecutor, RowFollowsHandler, NothingSentYet, SentRows,
         BuildTransfer
<1>4. ReportedRows'
  BY DEF IInv, TypeOK, JobsReal, RowFollowsHandler, NothingSentYet, SentRows, ReportedRows,
         HashOf, BuildTransfer
<1>. QED BY <1>1, <1>2, <1>3, <1>4 DEF IInv

\* Signing moves nothing, whatever the signer remembers.
LEMMA SignStep == ASSUME NEW c \in Callers, IInv, Sign(c) PROVE IInv'
<1>1. TypeOK' /\ JobsReal'
  BY DEF IInv, TypeOK, JobsReal, Hashes, NoHash, HashOf, Sign
<1>2. OneExecutor' /\ RowFollowsHandler'
  BY DEF IInv, TypeOK, JobsReal, OneExecutor, RowFollowsHandler, Sign
<1>3. NothingSentYet' /\ SentRows'
  BY DEF IInv, TypeOK, JobsReal, OneExecutor, RowFollowsHandler, NothingSentYet, SentRows, Sign
<1>4. ReportedRows'
  BY DEF IInv, TypeOK, JobsReal, RowFollowsHandler, NothingSentYet, SentRows, ReportedRows,
         HashOf, Sign
<1>. QED BY <1>1, <1>2, <1>3, <1>4 DEF IInv

\* The only step that sends: by NothingSentYet, the first for this key.
LEMMA BroadcastStep == ASSUME NEW c \in Callers, IInv, Broadcast(c) PROVE IInv'
<1>1. TypeOK' /\ JobsReal'
  BY DEF IInv, TypeOK, JobsReal, Hashes, NoHash, HashOf, Broadcast
<1>2. OneExecutor' /\ RowFollowsHandler'
  BY DEF IInv, TypeOK, JobsReal, OneExecutor, RowFollowsHandler, Broadcast
<1>3. NothingSentYet' /\ SentRows'
  BY DEF IInv, TypeOK, JobsReal, OneExecutor, RowFollowsHandler, NothingSentYet, SentRows,
         Broadcast
<1>4. ReportedRows'
  BY DEF IInv, TypeOK, JobsReal, RowFollowsHandler, NothingSentYet, SentRows, ReportedRows,
         HashOf, Broadcast
<1>. QED BY <1>1, <1>2, <1>3, <1>4 DEF IInv

\* The row is signing, so no ledger row of this key exists yet.
LEMMA RecordStep == ASSUME NEW c \in Callers, IInv, Record(c) PROVE IInv'
<1>1. CASE ~Admits(job[c].key, "broadcast")
  <2>. USE <1>1
  <2>1. TypeOK' /\ JobsReal'
    BY DEF IInv, TypeOK, JobsReal, Hashes, NoHash, HashOf, Record
  <2>2. OneExecutor'
    BY DEF IInv, TypeOK, JobsReal, OneExecutor, RowFollowsHandler, Record
  <2>3. RowFollowsHandler'
    BY DEF IInv, TypeOK, JobsReal, OneExecutor, RowFollowsHandler, Record
  <2>4. NothingSentYet' /\ SentRows'
    BY DEF IInv, TypeOK, JobsReal, OneExecutor, RowFollowsHandler, NothingSentYet, SentRows,
           Record
  <2>5. ReportedRows'
    BY DEF IInv, TypeOK, JobsReal, RowFollowsHandler, NothingSentYet, SentRows, ReportedRows,
           HashOf, Record
  <2>. QED BY <2>1, <2>2, <2>3, <2>4, <2>5 DEF IInv
<1>2. CASE Admits(job[c].key, "broadcast")
  <2>. USE <1>2
  <2>. DEFINE k == job[c].key
              known == \E t \in ledger : t.hash = HashOf(k)
              row == [hash |-> HashOf(k), key |-> k]
  <2>1. /\ k \in Keys /\ amount[k] \in Values /\ HashOf(k) \in Hashes \ {NoHash}
        /\ status[k] = "signing" /\ pc[c] = "record"
    BY DEF IInv, TypeOK, JobsReal, RowFollowsHandler, Record, HashOf, Hashes, NoHash
  <2>2. /\ ledger' = IF known THEN ledger ELSE ledger \cup {row}
        /\ status' = [status EXCEPT ![k] = "broadcast"]
        /\ txHash' = [txHash EXCEPT ![k] = HashOf(k)]
        /\ pc' = [pc EXCEPT ![c] = "notify"]
        /\ UNCHANGED <<simulated, sendingEnabled, amount, lapsed, screens, job, signed, pool, moved>>
    BY DEF Record
  <2>. HIDE DEF k
  <2>3. TypeOK' /\ JobsReal'
    <3>1. ledger' \subseteq [hash : Hashes, key : Keys]
      BY <2>1, <2>2 DEF IInv, TypeOK
    <3>. QED BY <2>1, <2>2, <3>1 DEF IInv, TypeOK, JobsReal
  <2>4. OneExecutor'
    BY DEF IInv, TypeOK, JobsReal, OneExecutor, RowFollowsHandler, Record
  <2>5. RowFollowsHandler'
    BY DEF IInv, TypeOK, JobsReal, OneExecutor, RowFollowsHandler, Record
  <2>6. NothingSentYet'
    BY DEF IInv, TypeOK, JobsReal, OneExecutor, RowFollowsHandler, NothingSentYet, SentRows,
           Record
  <2>7. SentRows'
    BY DEF IInv, TypeOK, JobsReal, RowFollowsHandler, SentRows, Record
  <2>8. ReportedRows'
    <3>. SUFFICES ASSUME ~simulated PROVE ReportedRows'
      BY <2>2 DEF ReportedRows
    <3>1. HashOf(k) = <<"tx", k>> /\ moved[k] = 1
      BY <2>1 DEF IInv, NothingSentYet, HashOf, k
    <3>2. \A t \in ledger : t.key # k /\ t.hash = <<"tx", t.key>>
      BY <2>1 DEF IInv, ReportedRows
    <3>3. ~known
      BY <3>1, <3>2
    <3>4. row \in ledger' /\ \A t \in ledger' : t \in ledger \/ t = row
      BY <2>2, <3>3
    <3>5. ASSUME NEW x \in Keys, status'[x] = "broadcast"
          PROVE  /\ moved'[x] = 1 /\ txHash'[x] = <<"tx", x>>
                 /\ [hash |-> <<"tx", x>>, key |-> x] \in ledger'
      BY <2>1, <2>2, <3>1, <3>3, <3>5 DEF IInv, TypeOK, ReportedRows
    <3>6. ASSUME NEW t \in ledger'
          PROVE  /\ t.hash = <<"tx", t.key>> /\ txHash'[t.key] = t.hash
                 /\ moved'[t.key] = 1 /\ status'[t.key] \in {"broadcast", "failed"}
      <4>1. CASE t \in ledger
        BY <2>1, <2>2, <3>2, <4>1 DEF IInv, TypeOK, ReportedRows
      <4>2. CASE t = row
        BY <2>1, <2>2, <3>1, <4>2 DEF IInv, TypeOK
      <4>. QED BY <3>4, <4>1, <4>2
    <3>. QED BY <3>5, <3>6 DEF ReportedRows
  <2>. QED BY <2>3, <2>4, <2>5, <2>6, <2>7, <2>8 DEF IInv
<1>. QED BY <1>1, <1>2

\* The notification ends the handler.
LEMMA QueueOutgoingStep == ASSUME NEW c \in Callers, IInv, QueueOutgoing(c) PROVE IInv'
BY ReturnStep DEF QueueOutgoing

\* The catch block may fail a broadcast row: its ledger row stays true.
LEMMA MarkFailedStep == ASSUME NEW c \in Callers, IInv, MarkFailed(c) PROVE IInv'
<1>1. TypeOK' /\ JobsReal'
  BY DEF IInv, TypeOK, JobsReal, Hashes, NoHash, HashOf, MarkFailed
<1>2. OneExecutor' /\ RowFollowsHandler'
  BY DEF IInv, TypeOK, JobsReal, OneExecutor, RowFollowsHandler, MarkFailed
<1>3. NothingSentYet' /\ SentRows'
  BY DEF IInv, TypeOK, JobsReal, OneExecutor, RowFollowsHandler, NothingSentYet, SentRows,
         MarkFailed
<1>4. ReportedRows'
  BY SMTT(20) DEF IInv, TypeOK, JobsReal, RowFollowsHandler, NothingSentYet, SentRows, ReportedRows,
         HashOf, MarkFailed
<1>. QED BY <1>1, <1>2, <1>3, <1>4 DEF IInv

----------------------------------------------------------------------------
(* cancel *)

\* cancel reads the row and touches nothing.
LEMMA StartCancelStep ==
    ASSUME NEW c \in Callers, NEW k \in Keys, IInv, StartCancel(c, k)
    PROVE  IInv'
<1>1. TypeOK' /\ JobsReal'
  BY DEF IInv, TypeOK, JobsReal, Hashes, NoHash, HashOf, StartCancel
<1>2. OneExecutor' /\ RowFollowsHandler'
  BY DEF IInv, TypeOK, JobsReal, OneExecutor, RowFollowsHandler, StartCancel
<1>3. NothingSentYet' /\ SentRows'
  BY DEF IInv, TypeOK, JobsReal, OneExecutor, RowFollowsHandler, NothingSentYet, SentRows,
         StartCancel
<1>4. ReportedRows'
  BY DEF IInv, TypeOK, JobsReal, RowFollowsHandler, NothingSentYet, SentRows, ReportedRows,
         HashOf, StartCancel
<1>. QED BY <1>1, <1>2, <1>3, <1>4 DEF IInv

\* The trigger refuses once the row is signing; before that nothing was sent.
LEMMA WithdrawStep == ASSUME NEW c \in Callers, IInv, Withdraw(c) PROVE IInv'
<1>1. TypeOK' /\ JobsReal'
  BY DEF IInv, TypeOK, JobsReal, Hashes, NoHash, HashOf, Withdraw
<1>2. OneExecutor' /\ RowFollowsHandler'
  BY DEF IInv, TypeOK, JobsReal, OneExecutor, RowFollowsHandler, Withdraw
<1>3. NothingSentYet' /\ SentRows'
  BY DEF IInv, TypeOK, JobsReal, OneExecutor, RowFollowsHandler, NothingSentYet, SentRows,
         Withdraw
<1>4. ReportedRows'
  BY DEF IInv, TypeOK, JobsReal, RowFollowsHandler, NothingSentYet, SentRows, ReportedRows,
         HashOf, Withdraw
<1>. QED BY <1>1, <1>2, <1>3, <1>4 DEF IInv

----------------------------------------------------------------------------
(* The cleanup job, the administrator, time, failures and the network *)

\* Only quoted rows expire, and nothing was sent behind them.
LEMMA ExpireStaleQuotesStep == ASSUME IInv, ExpireStaleQuotes PROVE IInv'
<1>1. TypeOK' /\ JobsReal'
  BY DEF IInv, TypeOK, JobsReal, Hashes, NoHash, HashOf, ExpireStaleQuotes
<1>2. OneExecutor' /\ RowFollowsHandler'
  BY DEF IInv, TypeOK, JobsReal, OneExecutor, RowFollowsHandler, ExpireStaleQuotes
<1>3. NothingSentYet' /\ SentRows'
  BY DEF IInv, TypeOK, JobsReal, OneExecutor, RowFollowsHandler, NothingSentYet, SentRows,
         ExpireStaleQuotes
<1>4. ReportedRows'
  BY DEF IInv, TypeOK, JobsReal, RowFollowsHandler, NothingSentYet, SentRows, ReportedRows,
         HashOf, ExpireStaleQuotes
<1>. QED BY <1>1, <1>2, <1>3, <1>4 DEF IInv

\* The kill switch is a flag no running handler reads.
LEMMA SetSendingEnabledStep == ASSUME IInv, SetSendingEnabled PROVE IInv'
<1>1. TypeOK' /\ JobsReal'
  BY DEF IInv, TypeOK, JobsReal, Hashes, NoHash, HashOf, SetSendingEnabled
<1>2. OneExecutor' /\ RowFollowsHandler'
  BY DEF IInv, TypeOK, JobsReal, OneExecutor, RowFollowsHandler, SetSendingEnabled
<1>3. NothingSentYet' /\ SentRows'
  BY DEF IInv, TypeOK, JobsReal, OneExecutor, RowFollowsHandler, NothingSentYet, SentRows,
         SetSendingEnabled
<1>4. ReportedRows'
  BY DEF IInv, TypeOK, JobsReal, RowFollowsHandler, NothingSentYet, SentRows, ReportedRows,
         HashOf, SetSendingEnabled
<1>. QED BY <1>1, <1>2, <1>3, <1>4 DEF IInv

\* Time makes a quote stale without touching its row.
LEMMA LapseStep == ASSUME NEW k \in Keys, IInv, Lapse(k) PROVE IInv'
<1>1. TypeOK' /\ JobsReal'
  BY DEF IInv, TypeOK, JobsReal, Hashes, NoHash, HashOf, Lapse
<1>2. OneExecutor' /\ RowFollowsHandler'
  BY DEF IInv, TypeOK, JobsReal, OneExecutor, RowFollowsHandler, Lapse
<1>3. NothingSentYet' /\ SentRows'
  BY DEF IInv, TypeOK, JobsReal, OneExecutor, RowFollowsHandler, NothingSentYet, SentRows, Lapse
<1>4. ReportedRows'
  BY DEF IInv, TypeOK, JobsReal, RowFollowsHandler, NothingSentYet, SentRows, ReportedRows,
         HashOf, Lapse
<1>. QED BY <1>1, <1>2, <1>3, <1>4 DEF IInv

\* A failed transaction leaves the tables alone and ends the handler or fails it.
LEMMA DbErrorStep == ASSUME NEW c \in Callers, IInv, DbError(c) PROVE IInv'
<1>1. CASE Return(c)
  BY <1>1, ReturnStep DEF DbError
<1>2. CASE ~Return(c)
  <2>. Goto(c, "fail")
    BY <1>2 DEF DbError
  <2>1. TypeOK' /\ JobsReal'
    BY DEF IInv, TypeOK, JobsReal, Hashes, NoHash, HashOf, DbError
  <2>2. OneExecutor' /\ RowFollowsHandler'
    BY DEF IInv, TypeOK, JobsReal, OneExecutor, RowFollowsHandler, DbError
  <2>3. NothingSentYet' /\ SentRows'
    BY DEF IInv, TypeOK, JobsReal, OneExecutor, RowFollowsHandler, NothingSentYet, SentRows,
           DbError
  <2>4. ReportedRows'
    BY DEF IInv, TypeOK, JobsReal, RowFollowsHandler, NothingSentYet, SentRows, ReportedRows,
           HashOf, DbError
  <2>. QED BY <2>1, <2>2, <2>3, <2>4 DEF IInv
<1>. QED BY <1>1, <1>2

\* A handler that dies leaves the tables as they are.
LEMMA CrashStep == ASSUME NEW c \in Callers, IInv, Crash(c) PROVE IInv'
BY ReturnStep DEF Crash

\* What the signer forgot is not what protects a request.
LEMMA SignerRestartStep == ASSUME IInv, SignerRestart PROVE IInv'
<1>1. TypeOK' /\ JobsReal'
  BY DEF IInv, TypeOK, JobsReal, Hashes, NoHash, HashOf, SignerRestart
<1>2. OneExecutor' /\ RowFollowsHandler'
  BY DEF IInv, TypeOK, JobsReal, OneExecutor, RowFollowsHandler, SignerRestart
<1>3. NothingSentYet' /\ SentRows'
  BY DEF IInv, TypeOK, JobsReal, OneExecutor, RowFollowsHandler, NothingSentYet, SentRows,
         SignerRestart
<1>4. ReportedRows'
  BY DEF IInv, TypeOK, JobsReal, RowFollowsHandler, NothingSentYet, SentRows, ReportedRows,
         HashOf, SignerRestart
<1>. QED BY <1>1, <1>2, <1>3, <1>4 DEF IInv

\* What is on the wire was counted when it was sent.
LEMMA LandStep == ASSUME NEW k \in Keys, IInv, Land(k) PROVE IInv'
<1>1. TypeOK' /\ JobsReal'
  BY DEF IInv, TypeOK, JobsReal, Hashes, NoHash, HashOf, Land
<1>2. OneExecutor' /\ RowFollowsHandler'
  BY DEF IInv, TypeOK, JobsReal, OneExecutor, RowFollowsHandler, Land
<1>3. NothingSentYet' /\ SentRows'
  BY DEF IInv, TypeOK, JobsReal, OneExecutor, RowFollowsHandler, NothingSentYet, SentRows, Land
<1>4. ReportedRows'
  BY DEF IInv, TypeOK, JobsReal, RowFollowsHandler, NothingSentYet, SentRows, ReportedRows,
         HashOf, Land
<1>. QED BY <1>1, <1>2, <1>3, <1>4 DEF IInv

----------------------------------------------------------------------------
\* The invariant is inductive.
LEMMA NextIInv == IInv /\ [Next]_vars => IInv'
<1>. SUFFICES ASSUME IInv, [Next]_vars PROVE IInv'
  OBVIOUS
<1>1. CASE UNCHANGED vars
  BY <1>1 DEF vars, IInv, TypeOK, JobsReal, OneExecutor, RowFollowsHandler, NothingSentYet,
     SentRows, ReportedRows
<1>2. CASE \E c \in Callers : Arrival(c)
  BY <1>2, StartQuoteStep, StartConfirmStep, StartCancelStep DEF Arrival
<1>3. CASE \E c \in Callers : HandlerStep(c)
  BY <1>3, CheckLimitsStep, PersistStep, LoadRequestStep, ClaimStep, AuditConfirmedStep,
     ExecuteReadStep, EnterSigningStep, BuildTransferStep, SignStep, BroadcastStep, RecordStep,
     QueueOutgoingStep, MarkFailedStep, WithdrawStep DEF HandlerStep
<1>4. CASE Environment
  BY <1>4, DbErrorStep, CrashStep, LapseStep, LandStep, ExpireStaleQuotesStep,
     SetSendingEnabledStep, SignerRestartStep DEF Environment
<1>. QED BY <1>1, <1>2, <1>3, <1>4 DEF Next

\* The invariant holds in every reachable state.
THEOREM Inductive == Spec => []IInv
BY InitIInv, NextIInv, PTL DEF Spec

\* Every reachable state is well typed, and a request is broadcast only with a hash.
THEOREM TypeCorrect == Spec => []TypeOK
<1>1. IInv => TypeOK
  BY DEF IInv
<1>. QED BY <1>1, Inductive, PTL

\* One idempotency key moves funds at most once.
THEOREM AtMostOnce == Spec => []AtMostOneTransfer
<1>1. IInv => AtMostOneTransfer
  BY DEF IInv, SentRows, AtMostOneTransfer
<1>. QED BY <1>1, Inductive, PTL

\* Nothing moves behind a request that was withdrawn, expired or never confirmed.
THEOREM Withdrawn == Spec => []WithdrawnNeverMoves
<1>1. IInv => WithdrawnNeverMoves
  BY DEF IInv, TypeOK, SentRows, WithdrawnNeverMoves
<1>. QED BY <1>1, Inductive, PTL

\* What is reported as sent, or written to the ledger, was sent.
THEOREM ReportsReal == Spec => []ReportedIsReal
<1>1. IInv => ReportedIsReal
  BY DEF IInv, ReportedRows, ReportedIsReal
<1>. QED BY <1>1, Inductive, PTL

----------------------------------------------------------------------------
\* A step of the pipeline is a step of the promise, or changes nothing in it.
LEMMA StepRefines ==
    IInv /\ [Next]_vars => [Abstract!Keep]_(Abstract!promiseVars)
<1>. SUFFICES ASSUME IInv, [Next]_vars PROVE [Abstract!Keep]_(Abstract!promiseVars)
  OBVIOUS
<1>. DEFINE standing == [k \in Keys |-> Standing(k)]
            Stutter == standing' = standing /\ moved' = moved
            Authorise(k) == /\ standing[k] = "open"
                            /\ standing' = [standing EXCEPT ![k] = "authorised"]
                            /\ moved' = moved
            Transfer(k) == /\ standing[k] = "authorised" /\ moved[k] = 0
                           /\ moved' = [moved EXCEPT ![k] = 1]
                           /\ standing' = standing
            WithdrawAll(S) ==
                /\ \A k \in S : standing[k] \in {"open", "authorised"} /\ moved[k] = 0
                /\ standing' = [k \in Keys |-> IF k \in S THEN "withdrawn" ELSE standing[k]]
                /\ moved' = moved
            Kept == \/ Stutter
                    \/ \E k \in Keys : Authorise(k) \/ Transfer(k)
                    \/ \E S \in SUBSET Keys : WithdrawAll(S)
<1>. SUFFICES Kept
  BY DEF Abstract!Keep, Abstract!promiseVars, Abstract!Authorise, Abstract!Transfer,
     Abstract!WithdrawAll
<1>1. CASE UNCHANGED <<status, moved>>
  BY <1>1 DEF Standing
<1>2. ASSUME NEW c \in Callers, Persist(c) PROVE Stutter
  BY <1>2 DEF Persist, Standing, IInv, TypeOK, JobsReal
<1>3. ASSUME NEW c \in Callers, Claim(c), status' # status PROVE Authorise(job[c].key)
  BY <1>3 DEF Claim, Standing, IInv, TypeOK, JobsReal
<1>4. ASSUME NEW c \in Callers, EnterSigning(c) \/ Record(c) PROVE Stutter
  BY <1>4 DEF EnterSigning, Record, Standing, IInv, TypeOK, JobsReal, RowFollowsHandler
<1>5. ASSUME NEW c \in Callers, Broadcast(c) PROVE Stutter \/ Transfer(job[c].key)
  BY <1>5 DEF Broadcast, Standing, IInv, TypeOK, JobsReal, RowFollowsHandler, NothingSentYet
<1>6. ASSUME NEW c \in Callers, MarkFailed(c) PROVE Stutter
  BY <1>6 DEF MarkFailed, Standing, IInv, TypeOK, JobsReal, RowFollowsHandler
<1>7. ASSUME NEW c \in Callers, Withdraw(c) PROVE Stutter \/ WithdrawAll({job[c].key})
  <2>. DEFINE k == job[c].key
  <2>1. k \in Keys /\ moved' = moved
    BY <1>7 DEF Withdraw, IInv, JobsReal
  <2>2. CASE status' = status
    BY <2>1, <2>2 DEF Standing
  <2>3. CASE status' # status
    <3>1. /\ status[k] \in {"quoted", "confirmed"} /\ status' = [status EXCEPT ![k] = "cancelled"]
      BY <1>7, <2>1, <2>3 DEF Withdraw, IInv, TypeOK
    <3>2. moved[k] = 0
      BY <2>1, <3>1 DEF IInv, TypeOK, SentRows
    <3>. HIDE DEF k
    <3>3. WithdrawAll({k})
      BY <2>1, <3>1, <3>2 DEF Standing, IInv, TypeOK
    <3>. QED BY <3>3 DEF k
  <2>. QED BY <2>2, <2>3
<1>8. ASSUME ExpireStaleQuotes PROVE WithdrawAll({k \in lapsed : status[k] = "quoted"})
  BY <1>8 DEF ExpireStaleQuotes, Standing, IInv, TypeOK, SentRows
<1>9. ASSUME NEW k \in Keys, Land(k) PROVE Stutter \/ Transfer(k)
  <2>1. moved[k] = 0 /\ status[k] \in {"signing", "broadcast", "failed"}
    BY <1>9 DEF Land, IInv, TypeOK, SentRows
  <2>2. status' = status /\ (moved' = moved \/ moved' = [moved EXCEPT ![k] = 1])
    BY <1>9, <2>1 DEF Land
  <2>. QED BY <2>1, <2>2 DEF Standing
<1>10. CASE \E c \in Callers : HandlerStep(c)
  <2>1. PICK c \in Callers : HandlerStep(c)
    BY <1>10
  <2>2. CASE status' = status /\ moved' = moved
    BY <1>1, <2>2
  <2>3. CASE ~(status' = status /\ moved' = moved)
    <3>1. CheckLimits(c) \/ LoadRequest(c) \/ AuditConfirmed(c) \/ ExecuteRead(c)
            => (status' = status /\ moved' = moved)
      BY DEF CheckLimits, LoadRequest, AuditConfirmed, ExecuteRead
    <3>2. BuildTransfer(c) \/ Sign(c) \/ QueueOutgoing(c) => (status' = status /\ moved' = moved)
      BY DEF BuildTransfer, Sign, QueueOutgoing
    <3>3. Claim(c) => moved' = moved
      BY DEF Claim
    <3>4. \/ Persist(c) \/ (Claim(c) /\ status' # status)
          \/ EnterSigning(c) \/ Record(c) \/ Broadcast(c) \/ MarkFailed(c) \/ Withdraw(c)
      BY <2>1, <2>3, <3>1, <3>2, <3>3 DEF HandlerStep
    <3>5. Persist(c) \/ Claim(c) \/ Broadcast(c) \/ Withdraw(c) => job[c].key \in Keys
      BY DEF IInv, JobsReal, Persist, Claim, Broadcast, Withdraw
    <3>. HIDE DEF Stutter, Authorise, Transfer, WithdrawAll
    <3>. QED BY <3>4, <3>5, <1>2, <1>3, <1>4, <1>5, <1>6, <1>7
  <2>. QED BY <2>2, <2>3
<1>11. CASE Environment
  <2>1. \/ ExpireStaleQuotes \/ \E k \in Keys : Land(k)
        \/ UNCHANGED <<status, moved>>
    BY <1>11 DEF Environment, DbError, Crash, Lapse, SetSendingEnabled, SignerRestart
  <2>2. lapsed \subseteq Keys
    BY DEF IInv, TypeOK
  <2>. HIDE DEF Stutter, Authorise, Transfer, WithdrawAll
  <2>. QED BY <1>1, <1>8, <1>9, <2>1, <2>2
<1>12. CASE UNCHANGED vars \/ \E c \in Callers : Arrival(c)
  BY <1>1, <1>12 DEF vars, Arrival, StartQuote, StartConfirm, StartCancel
<1>. QED BY <1>10, <1>11, <1>12 DEF Next

\* The pipeline implements TransferPromise.
THEOREM Refines == Spec => KeepsPromise
<1>1. Init => Abstract!Open
  BY DEF Init, Abstract!Open, Standing
<1>. QED BY <1>1, InitIInv, NextIInv, StepRefines, PTL DEF Spec, KeepsPromise, Abstract!Promise
=============================================================================
