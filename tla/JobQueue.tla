------------------------------ MODULE JobQueue ------------------------------
(***************************************************************************)
(* The job queue in PostgreSQL and the workers that drain it: enqueueing   *)
(* under a dedupe key, the claim under a lease, a batch of handlers run    *)
(* concurrently, their outcomes, and the cleanup job that reclaims what a  *)
(* dead worker left (packages/core/src/jobs/runner.ts and handlers.ts over *)
(* packages/db/src/repositories/ops.ts and supabase/migrations/0005, 0006).*)
(*                                                                         *)
(* Every job kind is a dedupe key that some worker enqueues on an interval.*)
(* A finished row that no worker holds can be neither read nor written by  *)
(* any action; its slot stands for a new row when one is inserted.         *)
(***************************************************************************)
EXTENDS Naturals, FiniteSets, Functions

CONSTANTS
    Keys,         \* dedupe keys
    Cleanup,      \* the key of cleanup.expire, the job that reclaims
    Rows,         \* rows of the jobs table that are still of interest (a bound)
    Workers,      \* worker processes
    Runs,         \* handler executions in memory (a bound)
    None,         \* no key, no worker or no row
    Concurrency,  \* jobs one tick claims
    MaxAttempts,  \* jobs.max_attempts
    Faults,       \* which of "crash", "stop", "throw", "timeout", "stall", "db" happen
    MaxFaults     \* how many of them happen (a bound)

ASSUME KeysAssumption   == Cleanup \in Keys /\ None \notin Keys \cup Workers \cup Rows
ASSUME BoundsAssumption == /\ Concurrency \in Nat \ {0}
                           /\ MaxAttempts \in Nat \ {0}
                           /\ MaxFaults \in Nat

VARIABLES
    key, status,    \* jobs.dedupe_key and jobs.status of each row
    attempts,       \* jobs.attempts
    expired,        \* running rows whose locked_until is 30 s in the past
    run,            \* the handler executions: worker, row, phase, what it sees
    phase,          \* per worker: at the top of its loop, in a tick, or down
    stopping,       \* workers that have been told to stop
    aside,          \* workers and keys with a handler running on after its timeout
    needed,         \* keys with work that no handler has done
    unfenced,       \* history: rows whose lease ran out under a live execution,
                    \* or whose outcome was written and the answer lost
    faults          \* faults so far

rowVars == <<key, status, attempts, expired>>
vars == <<rowVars, run, phase, stopping, aside, needed, unfenced, faults>>

Active   == {"queued", "running"}
Finished == {"succeeded", "dead"}

Phases     == {"running", "returned", "threw", "refused"}
Executions == [worker : Workers, row : Rows, phase : Phases, sees : BOOLEAN]

NoRun == [worker |-> None, row |-> None, phase |-> "free", sees |-> FALSE]
FreeRuns == {r \in Runs : run[r] = NoRun}
RunsOf(w) == {r \in Runs : run[r].worker = w}
Held(j) == \E r \in Runs : run[r].row = j

ActiveRows(k) == {j \in Rows : key[j] = k /\ status[j] \in Active}
KeyOf(r) == key[run[r].row]

Finish(r) == run' = [run EXCEPT ![r] = NoRun]
Step(r, p) == run' = [run EXCEPT ![r].phase = p]

Drop(w) == run' = [r \in Runs |-> IF run[r].worker = w THEN NoRun ELSE run[r]]

Fault(kind) == kind \in Faults /\ faults < MaxFaults /\ faults' = faults + 1

\* Promise.all: the tick ends with its last job, unless one rejects first.
TickEnds(w, r) == phase' = [phase EXCEPT ![w] =
    IF @ = "busy" /\ RunsOf(w) \subseteq {r} THEN "loop" ELSE @]

----------------------------------------------------------------------------
Init ==
    /\ key = [j \in Rows |-> None]
    /\ status = [j \in Rows |-> "none"]
    /\ attempts = [j \in Rows |-> 0]
    /\ expired = {}
    /\ run = [r \in Runs |-> NoRun]
    /\ phase = [w \in Workers |-> "loop"]
    /\ stopping = {} /\ aside = {} /\ needed = {} /\ unfenced = {}
    /\ faults = 0

----------------------------------------------------------------------------
(* The loop and its tick *)

\* Something for the handler of k to do: a due payment, a new block, a message.
\* (For the cleanup job that is what LeaseExpires leaves behind.)
WorkArrives(k) ==
    /\ k \notin needed \cup {Cleanup}
    /\ needed' = needed \cup {k}
    /\ UNCHANGED <<rowVars, run, phase, stopping, aside, unfenced, faults>>

StartTick(w) ==
    /\ phase[w] = "loop" /\ w \notin stopping
    /\ phase' = [phase EXCEPT ![w] = "tick"]
    /\ UNCHANGED <<rowVars, run, stopping, aside, needed, unfenced, faults>>

FreeRows == {j \in Rows : status[j] = "none" \/ (status[j] \in Finished /\ ~Held(j))}

\* The insert that app.enqueue_job tries, into any free slot.
Insert(k) ==
    LET j == CHOOSE j \in FreeRows : TRUE IN
    /\ FreeRows # {}
    /\ key' = [key EXCEPT ![j] = k]
    /\ status' = [status EXCEPT ![j] = "queued"]
    /\ attempts' = [attempts EXCEPT ![j] = 0]
    /\ unfenced' = unfenced \ {j}

\* Mutant: a dead job keeps its dedupe key.
EnqueueRecurring_DeadBlocks(w, k) ==
    /\ phase[w] = "tick"
    /\ {j \in Rows : key[j] = k /\ status[j] \in Active \cup {"dead"}} = {}
    /\ Insert(k)
    /\ UNCHANGED <<expired, run, phase, stopping, aside, needed, faults>>

\* The interval of k has elapsed for this worker.  An active row with its key
\* absorbs the insert.
EnqueueRecurring(w, k) ==
    /\ phase[w] = "tick"
    /\ ActiveRows(k) = {}
    /\ Insert(k)
    /\ UNCHANGED <<expired, run, phase, stopping, aside, needed, faults>>

\* One UPDATE claims the queued rows that are due, up to the limit; a row locked
\* by another worker's claim is skipped.
ClaimRows(w, S) ==
    /\ phase[w] = "tick"
    /\ status' = [j \in Rows |-> IF j \in S THEN "running" ELSE status[j]]
    /\ attempts' = [j \in Rows |-> IF j \in S THEN attempts[j] + 1 ELSE attempts[j]]
    /\ UNCHANGED <<key, expired, stopping, aside, needed, unfenced>>

\* Mutant: the claim takes running rows too.
Batches_AnyActive ==
    {S \in SUBSET {j \in Rows : status[j] \in Active} : Cardinality(S) <= Concurrency}

Batches == {S \in SUBSET {j \in Rows : status[j] = "queued"} : Cardinality(S) <= Concurrency}

\* The handlers of the rows in S start, each in the slot given to it.
Begin(w, S, slot) ==
    run' = [r \in Runs |->
              IF \E j \in S : slot[j] = r
              THEN LET j == CHOOSE j \in S : slot[j] = r IN
                   [worker |-> w, row |-> j, phase |-> "running", sees |-> key[j] \in needed]
              ELSE run[r]]

\* Every row claimed starts its handler, if there is room for it in Runs; with
\* nothing to do the loop sleeps.
ClaimJobs(w, S) ==
    /\ ClaimRows(w, S)
    /\ ExistsInjection(S, FreeRuns)
    /\ Begin(w, S, CHOOSE slot \in Injection(S, FreeRuns) : TRUE)
    /\ phase' = [phase EXCEPT ![w] = IF S = {} THEN "loop" ELSE "busy"]
    /\ UNCHANGED faults

\* The claim is committed and its answer lost: the tick fails.
ClaimLost(w, S) ==
    /\ Fault("db")
    /\ S # {} /\ ClaimRows(w, S)
    /\ phase' = [phase EXCEPT ![w] = "loop"]
    /\ UNCHANGED run

----------------------------------------------------------------------------
(* The handlers *)

\* Mutant: a row that used up its attempts is queued all the same.
Reclaim_Always ==
    /\ status' = [j \in Rows |-> IF status[j] = "running" /\ j \in expired
                                 THEN "queued" ELSE status[j]]
    /\ expired' = {}

\* Mutant: only rows with attempts left are reclaimed.
Reclaim_Retryable ==
    LET S == {j \in expired : status[j] = "running" /\ attempts[j] < MaxAttempts} IN
    /\ status' = [j \in Rows |-> IF j \in S THEN "queued" ELSE status[j]]
    /\ expired' = expired \ S

\* app.reclaim_stuck_jobs
Reclaim ==
    /\ status' = [j \in Rows |->
                    IF status[j] = "running" /\ j \in expired
                    THEN IF attempts[j] >= MaxAttempts THEN "dead" ELSE "queued"
                    ELSE status[j]]
    /\ expired' = {}

\* The handler of k did its work, with what it saw when it started.
WorkDone(r) ==
    LET k == KeyOf(r) IN
    IF run[r].sees
    THEN /\ needed' = needed \ {k}
         /\ run' = [q \in Runs |->
                      IF q = r THEN [run[q] EXCEPT !.phase = "returned", !.sees = FALSE]
                      ELSE IF run[q].row # None /\ KeyOf(q) = k
                      THEN [run[q] EXCEPT !.sees = FALSE]
                      ELSE run[q]]
    ELSE Step(r, "returned") /\ UNCHANGED needed

HandlerReturns(r) ==
    /\ run[r].phase = "running"
    /\ WorkDone(r)
    /\ IF KeyOf(r) = Cleanup THEN Reclaim ELSE UNCHANGED <<status, expired>>
    /\ UNCHANGED <<key, attempts, phase, stopping, aside, unfenced, faults>>

\* It throws, after or before reclaiming; some errors are not worth a retry.
HandlerThrows(r) ==
    /\ run[r].phase = "running"
    /\ Fault("throw")
    /\ \E p \in {"threw", "refused"} : Step(r, p)
    /\ \/ UNCHANGED <<status, expired>>
       \/ KeyOf(r) = Cleanup /\ Reclaim
    /\ UNCHANGED <<key, attempts, phase, stopping, aside, needed, unfenced>>

\* withTimeout gives up on it; the handler itself runs on.
TimesOut(r) ==
    /\ run[r].phase = "running"
    /\ Fault("timeout")
    /\ Step(r, "threw")
    /\ aside' = aside \cup {<<run[r].worker, KeyOf(r)>>}
    /\ UNCHANGED <<rowVars, phase, stopping, needed, unfenced>>

\* A handler that timed out ends; nobody reads its result.
AsideEnds(w, k) ==
    /\ <<w, k>> \in aside
    /\ aside' = aside \ {<<w, k>>}
    /\ \/ UNCHANGED <<status, expired>>
       \/ k = Cleanup /\ Reclaim
    /\ UNCHANGED <<key, attempts, run, phase, stopping, needed, unfenced, faults>>

\* completeJob writes whatever the row has become in the meantime.
SetSucceeded(j) ==
    /\ status' = [status EXCEPT ![j] = "succeeded"]
    /\ expired' = expired \ {j}
    /\ UNCHANGED <<key, attempts>>

CompleteJob(r) ==
    /\ run[r].phase = "returned"
    /\ SetSucceeded(run[r].row)
    /\ Finish(r) /\ TickEnds(run[r].worker, r)
    /\ UNCHANGED <<stopping, aside, needed, unfenced, faults>>

\* completeJob fails, perhaps after its commit: the job counts as failed.
CompleteLost(r) ==
    LET j == run[r].row IN
    /\ run[r].phase = "returned"
    /\ Fault("db")
    /\ \/ SetSucceeded(j) /\ unfenced' = unfenced \cup {j}
       \/ UNCHANGED <<rowVars, unfenced>>
    /\ Step(r, "threw")
    /\ UNCHANGED <<phase, stopping, aside, needed>>

\* failJob: back in the queue with a delay, or dead; a refusal uses up the
\* attempts first.  The dedupe index may refuse to have the row queued, and then,
\* as on any error here, the tick fails while its other jobs run on.
FailJob(r) ==
    LET j == run[r].row
        tried == IF run[r].phase = "refused" THEN MaxAttempts ELSE attempts[j]
        next  == IF tried >= MaxAttempts THEN "dead" ELSE "queued"
        written == /\ attempts' = [attempts EXCEPT ![j] = tried]
                   /\ status' = [status EXCEPT ![j] = next]
                   /\ expired' = expired \ {j}
        rejects == phase' = [phase EXCEPT ![run[r].worker] = "loop"]
    IN
    /\ run[r].phase \in {"threw", "refused"}
    /\ IF next = "dead" \/ ActiveRows(key[j]) \subseteq {j}
       THEN \/ written /\ TickEnds(run[r].worker, r) /\ UNCHANGED faults
            \/ Fault("db") /\ rejects /\ (written \/ UNCHANGED <<status, attempts, expired>>)
       ELSE rejects /\ UNCHANGED <<status, attempts, expired, faults>>
    /\ Finish(r)
    /\ UNCHANGED <<key, stopping, aside, needed, unfenced>>

----------------------------------------------------------------------------
(* Time, and the life of a worker process *)

\* A live execution is timed out 30 s before its lease ends; it outlives the lease
\* only when its process is suspended or its last write hangs.
LeaseExpires(j) ==
    /\ status[j] = "running" /\ j \notin expired
    /\ IF Held(j)
       THEN Fault("stall") /\ unfenced' = unfenced \cup {j}
       ELSE UNCHANGED <<faults, unfenced>>
    /\ expired' = expired \cup {j}
    /\ UNCHANGED <<key, status, attempts, run, phase, stopping, aside, needed>>

\* SIGTERM, or a fatal error of the process.
Shutdown(w) ==
    /\ phase[w] # "down" /\ w \notin stopping
    /\ Fault("stop")
    /\ stopping' = stopping \cup {w}
    /\ UNCHANGED <<rowVars, run, phase, aside, needed, unfenced>>

\* The process exits: drained, or with its jobs in hand after 15 s, or killed.
Exit(w) ==
    /\ phase[w] # "down"
    /\ IF w \in stopping THEN UNCHANGED faults ELSE Fault("crash")
    /\ phase' = [phase EXCEPT ![w] = "down"]
    /\ stopping' = stopping \ {w}
    /\ Drop(w) /\ aside' = {a \in aside : a[1] # w}
    /\ UNCHANGED <<rowVars, needed, unfenced>>

Restart(w) ==
    /\ phase[w] = "down"
    /\ phase' = [phase EXCEPT ![w] = "loop"]
    /\ UNCHANGED <<rowVars, run, stopping, aside, needed, unfenced, faults>>

----------------------------------------------------------------------------
RunStep(r) == HandlerReturns(r) \/ CompleteJob(r) \/ FailJob(r)

Next ==
    \/ \E k \in Keys : WorkArrives(k)
    \/ \E w \in Workers :
          \/ StartTick(w) \/ Shutdown(w) \/ Exit(w) \/ Restart(w)
          \/ \E k \in Keys : EnqueueRecurring(w, k) \/ AsideEnds(w, k)
          \/ \E S \in Batches : ClaimJobs(w, S) \/ ClaimLost(w, S)
    \/ \E r \in Runs : RunStep(r) \/ HandlerThrows(r) \/ TimesOut(r) \/ CompleteLost(r)
    \/ \E j \in Rows : LeaseExpires(j)

Spec == Init /\ [][Next]_vars

\* Processes keep running and are restarted; every interval elapses again and
\* again; and a queued row comes to the front of the queue.
Fairness ==
    /\ \A r \in Runs : WF_vars(RunStep(r))
    /\ \A w \in Workers :
          /\ WF_vars(StartTick(w) \/ Restart(w) \/ (w \in stopping /\ Exit(w)))
          /\ WF_vars(\E S \in Batches : ClaimJobs(w, S))
    /\ \A k \in Keys : SF_vars(\E w \in Workers : EnqueueRecurring(w, k))
    /\ \A j \in Rows : /\ SF_vars(\E w \in Workers, S \in Batches : j \in S /\ ClaimJobs(w, S))
                       /\ WF_vars(LeaseExpires(j))

FairSpec == Spec /\ Fairness

----------------------------------------------------------------------------
(* Properties *)

\* Every variable has its type, and a worker that is down executes nothing.
TypeOK ==
    /\ key \in [Rows -> Keys \cup {None}]
    /\ status \in [Rows -> {"none"} \cup Active \cup Finished]
    /\ attempts \in [Rows -> Nat]
    /\ expired \subseteq {j \in Rows : status[j] = "running"}
    /\ run \in [Runs -> Executions \cup {NoRun}]
    /\ phase \in [Workers -> {"loop", "tick", "busy", "down"}]
    /\ stopping \subseteq {w \in Workers : phase[w] # "down"}
    /\ aside \subseteq Workers \X Keys /\ needed \subseteq Keys
    /\ unfenced \subseteq Rows
    /\ faults \in 0..MaxFaults
    /\ \A w \in Workers : phase[w] = "down" => RunsOf(w) = {}

\* Only one pending job per dedupe key (0005_operations.sql), whatever late
\* outcomes, reclaims and enqueues of several workers do to the rows.
OnePendingPerKey == \A k \in Keys : Cardinality(ActiveRows(k)) <= 1

\* A job is started at most max_attempts times, also one that kills its worker
\* each time, is reclaimed while it runs, or whose outcome is written twice.
PoisonJobRetires == \A j \in Rows : attempts[j] <= MaxAttempts

\* Two executions for one dedupe key run at once only if the lease of one ran out
\* under it, or its outcome was written and the answer lost (a handler that runs
\* on after its timeout is not counted).
OneHandlerPerKey ==
    \A q, r \in Runs :
        q # r /\ run[q].phase = "running" /\ run[r].phase = "running" /\ KeyOf(q) = KeyOf(r)
            => {run[q].row, run[r].row} \cap unfenced # {}

\* A job that finished is not run again, with the same exception.
FinishedStaysFinished ==
    [][\A j \in Rows : status[j] \in Finished /\ status'[j] \in Active
            => attempts'[j] = 0 \/ j \in unfenced]_vars

\* The row of the cleanup job is running and nobody runs it.
CleanupStuck == \E j \in Rows : key[j] = Cleanup /\ status[j] = "running" /\ ~Held(j)

\* Work that arrives is done in the end, even when it arrives while its job runs
\* and the enqueue is absorbed, or when its job dies, unless the cleanup job is
\* itself left running.
WorkIsDone == \A k \in Keys \ {Cleanup} : k \in needed ~> k \notin needed \/ CleanupStuck

\* Jobs whose worker died are taken from it in the end, unless the cleanup job is
\* itself left running.
AbandonedIsReclaimed == expired # {} ~> expired = {} \/ CleanupStuck

=============================================================================
