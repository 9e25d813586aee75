--------------------------- MODULE JobQueueProofs ---------------------------
(***************************************************************************)
(* Proofs about JobQueue for every set of keys, rows, workers and handler  *)
(* executions, and every choice of limits and faults.                      *)
(*                                                                         *)
(* The argument: outcomes are written without asking whose the row is, so  *)
(* a row and its executions come apart when a lease runs out under a live  *)
(* execution or the answer to an outcome is lost (unfenced).  Up to there  *)
(* a row in hand is running, its lease is good (HeldRunning) and it is in  *)
(* one hand only (SoleHolder).                                             *)
(***************************************************************************)
EXTENDS JobQueue, FiniteSetTheorems, TLAPS

\* A row that exists has a key, and rows in hand exist.
KeysReal ==
    /\ \A j \in Rows : status[j] # "none" => key[j] \in Keys
    /\ \A r \in Runs : run[r] # NoRun => status[run[r].row] # "none"

\* At most one row of a key is queued or running.
PendingUnique ==
    \A i, j \in Rows :
        status[i] \in Active /\ status[j] \in Active /\ key[i] = key[j] => i = j

\* A queued row has an attempt left.
AttemptsLeft ==
    \A j \in Rows : attempts[j] <= MaxAttempts
                    /\ (status[j] = "queued" => attempts[j] < MaxAttempts)

\* A row in hand is running under a lease that is good, unless it is unfenced.
HeldRunning ==
    \A r \in Runs : run[r] # NoRun =>
        \/ run[r].row \in unfenced
        \/ status[run[r].row] = "running" /\ run[r].row \notin expired

\* A row is in one hand only, unless it is unfenced.
SoleHolder ==
    \A q, r \in Runs :
        q # r /\ run[q] # NoRun /\ run[q].row = run[r].row => run[r].row \in unfenced

IInv == TypeOK /\ KeysReal /\ PendingUnique /\ AttemptsLeft /\ HeldRunning /\ SoleHolder

USE KeysAssumption, BoundsAssumption

\* The initial state satisfies the inductive invariant: no row exists.
LEMMA InitIInv == Init => IInv
  BY SMT DEF Init, IInv, TypeOK, KeysReal, PendingUnique, AttemptsLeft, HeldRunning,
     SoleHolder, NoRun, Active, Finished, RunsOf

\* Work that arrives touches no row.
LEMMA StepWorkArrives == ASSUME IInv, NEW k \in Keys, WorkArrives(k) PROVE IInv'
  BY SMT DEF WorkArrives, rowVars, IInv, TypeOK, KeysReal, PendingUnique, AttemptsLeft,
     HeldRunning, SoleHolder, NoRun, Active, Finished, RunsOf

\* The loop of a worker starts over.
LEMMA StepStartTick == ASSUME IInv, NEW w \in Workers, StartTick(w) PROVE IInv'
  BY SMT DEF StartTick, rowVars, IInv, TypeOK, KeysReal, PendingUnique, AttemptsLeft,
     HeldRunning, SoleHolder, NoRun, Active, Finished, RunsOf

\* A worker told to stop is still up.
LEMMA StepShutdown == ASSUME IInv, NEW w \in Workers, Shutdown(w) PROVE IInv'
  BY SMT DEF Shutdown, Fault, rowVars, IInv, TypeOK, KeysReal, PendingUnique, AttemptsLeft,
     HeldRunning, SoleHolder, NoRun, Active, Finished, RunsOf

\* A worker comes back with nothing in hand.
LEMMA StepRestart == ASSUME IInv, NEW w \in Workers, Restart(w) PROVE IInv'
  BY SMT DEF Restart, rowVars, IInv, TypeOK, KeysReal, PendingUnique, AttemptsLeft,
     HeldRunning, SoleHolder, NoRun, Active, Finished, RunsOf

\* What an execution in hand is, and what a free slot is.
LEMMA Hands ==
    ASSUME TypeOK, NEW r \in Runs
    PROVE  /\ run[r] # NoRun => run[r] \in Executions /\ run[r].row \in Rows
                                /\ run[r].worker \in Workers
           /\ run[r] = NoRun => run[r].row \notin Rows /\ run[r].worker \notin Workers
                                /\ run[r].phase = "free"
           /\ run[r].row \in Rows => run[r] # NoRun
  BY SMT DEF TypeOK, Executions, NoRun

\* The same after a step.
LEMMA HandsNext ==
    ASSUME TypeOK', NEW r \in Runs
    PROVE  /\ run'[r] # NoRun => run'[r] \in Executions /\ run'[r].row \in Rows
                                /\ run'[r].worker \in Workers
           /\ run'[r].row \in Rows => run'[r] # NoRun
  BY SMT DEF TypeOK, Executions, NoRun

\* A free slot is no execution.
LEMMA NoRunFree == NoRun \notin Executions
  BY SMT DEF NoRun, Executions, Phases

\* An execution that moves on is an execution of the same row by the same worker.
LEMMA Updates ==
    ASSUME NEW e \in Executions, NEW p \in Phases, NEW b \in BOOLEAN
    PROVE  /\ [e EXCEPT !.sees = b] \in Executions
           /\ [e EXCEPT !.sees = b].row = e.row
           /\ [e EXCEPT !.sees = b].worker = e.worker
           /\ [e EXCEPT !.phase = p, !.sees = b] \in Executions
           /\ [e EXCEPT !.phase = p, !.sees = b].row = e.row
           /\ [e EXCEPT !.phase = p, !.sees = b].worker = e.worker
  <1>1. [e EXCEPT !.sees = b] \in Executions
    BY DEF Executions
  <1>2. [e EXCEPT !.sees = b].row = e.row /\ [e EXCEPT !.sees = b].worker = e.worker
    BY DEF Executions
  <1>3. [e EXCEPT !.phase = p, !.sees = b] \in Executions
    BY DEF Executions
  <1>4. /\ [e EXCEPT !.phase = p, !.sees = b].row = e.row
        /\ [e EXCEPT !.phase = p, !.sees = b].worker = e.worker
    BY DEF Executions
  <1> QED BY <1>1, <1>2, <1>3, <1>4

\* The executions are in the hands they were in.
SameHands ==
    /\ run' \in [Runs -> Executions \cup {NoRun}]
    /\ \A q \in Runs : run'[q].row = run[q].row /\ run'[q].worker = run[q].worker
    /\ \A q \in Runs : (run'[q] = NoRun) <=> (run[q] = NoRun)

\* A step of one execution leaves rows and workers where they are.
LEMMA StepKeepsHands ==
    ASSUME TypeOK, NEW r \in Runs, run[r] # NoRun,
           NEW p \in Phases, Step(r, p)
    PROVE  SameHands
  <1>1. run[r] \in Executions
    BY Hands
  <1>2. run'[r] = [run[r] EXCEPT !.phase = p]
    BY SMT DEF Step, TypeOK
  <1>3. \A q \in Runs : q # r => run'[q] = run[q]
    BY SMT DEF Step, TypeOK
  <1>4. run'[r] \in Executions /\ run'[r].row = run[r].row /\ run'[r].worker = run[r].worker
    BY <1>1, <1>2, SMT DEF Executions
  <1>5. run'[r] # NoRun
    BY <1>4, NoRunFree
  <1>6. run' \in [Runs -> Executions \cup {NoRun}]
    BY <1>3, <1>4, SMT DEF Step, TypeOK
  <1>7. ASSUME NEW q \in Runs
        PROVE  /\ run'[q].row = run[q].row /\ run'[q].worker = run[q].worker
               /\ (run'[q] = NoRun) <=> (run[q] = NoRun)
    <2>1. CASE q = r
      BY <2>1, <1>4, <1>5
    <2>2. CASE q # r
      BY <2>2, <1>3
    <2> QED BY <2>1, <2>2
  <1> QED BY <1>6, <1>7 DEF SameHands

\* An execution that ends frees its slot and no other.
LEMMA FinishFrees ==
    ASSUME TypeOK, NEW r \in Runs, Finish(r)
    PROVE  /\ run' \in [Runs -> Executions \cup {NoRun}]
           /\ run'[r] = NoRun
           /\ \A q \in Runs \ {r} : run'[q] = run[q]
  <1>1. run \in [Runs -> Executions \cup {NoRun}]
    BY DEF TypeOK
  <1> HIDE DEF NoRun
  <1> QED BY <1>1, SMT DEF Finish

\* What is in hand after a step was in hand before it.
FewerHands ==
    /\ run' \in [Runs -> Executions \cup {NoRun}]
    /\ \A r \in Runs : run'[r] # NoRun =>
          run[r] # NoRun /\ run'[r].row = run[r].row /\ run'[r].worker = run[r].worker

\* A worker that is down stays down and gets no execution.
LEMMA DownIsIdle ==
    ASSUME TypeOK, FewerHands, \A w \in Workers : phase'[w] = "down" => phase[w] = "down"
    PROVE  \A w \in Workers : phase'[w] = "down" => RunsOf(w)' = {}
  <1> SUFFICES ASSUME NEW w \in Workers, phase'[w] = "down", NEW r \in Runs,
                      run'[r].worker = w
               PROVE  FALSE
    BY DEF RunsOf
  <1>1. run'[r] # NoRun
    BY KeysAssumption DEF NoRun
  <1>2. r \in RunsOf(w)
    BY <1>1 DEF FewerHands, RunsOf
  <1> QED BY <1>2 DEF TypeOK

\* A step that writes no row, or reclaims, keeps the invariant.
LEMMA MaybeReclaim ==
    ASSUME IInv, TypeOK', FewerHands, UNCHANGED <<key, attempts, unfenced>>,
           Reclaim \/ UNCHANGED <<status, expired>>
    PROVE  IInv'
  <1>1. \A j \in Rows :
           \/ status'[j] = status[j] /\ (j \notin expired => j \notin expired')
           \/ /\ status[j] = "running" /\ j \in expired /\ j \notin expired'
              /\ status'[j] = (IF attempts[j] >= MaxAttempts THEN "dead" ELSE "queued")
    BY SMT DEF Reclaim
  <1>2. KeysReal'
    <2>1. \A j \in Rows : status'[j] # "none" <=> status[j] # "none"
      BY <1>1
    <2>2. \A r \in Runs : run[r] # NoRun => run[r].row \in Rows
      BY Hands DEF IInv
    <2> QED BY <2>1, <2>2 DEF IInv, KeysReal, FewerHands
  <1>3. PendingUnique'
    BY <1>1 DEF IInv, PendingUnique, Active
  <1>4. AttemptsLeft'
    BY <1>1, SMT DEF IInv, TypeOK, AttemptsLeft
  <1>5. HeldRunning'
    <2> SUFFICES ASSUME NEW r \in Runs, run'[r] # NoRun, run'[r].row \notin unfenced
                 PROVE  status'[run'[r].row] = "running" /\ run'[r].row \notin expired'
      BY DEF HeldRunning
    <2>1. /\ run[r] # NoRun /\ run'[r].row = run[r].row /\ run[r].row \in Rows
          /\ status[run[r].row] = "running" /\ run[r].row \notin expired
      BY Hands DEF FewerHands, IInv, HeldRunning
    <2> QED BY <1>1, <2>1
  <1>6. SoleHolder'
    <2> SUFFICES ASSUME NEW q \in Runs, NEW r \in Runs, q # r, run'[q] # NoRun,
                        run'[q].row = run'[r].row
                 PROVE  run'[r].row \in unfenced
      BY DEF SoleHolder
    <2>1. run'[q].row \in Rows /\ run'[r] # NoRun
      BY HandsNext
    <2> QED BY <2>1 DEF IInv, SoleHolder, FewerHands
  <1> QED BY <1>2, <1>3, <1>4, <1>5, <1>6 DEF IInv

\* A worker that exits lets go of its rows, which stay as they are.
LEMMA StepExit == ASSUME IInv, NEW w \in Workers, Exit(w) PROVE IInv'
  <1>1. \A r \in Runs : run'[r] = IF run[r].worker = w THEN NoRun ELSE run[r]
    BY SMT DEF Exit, Drop
  <1>2. run' \in [Runs -> Executions \cup {NoRun}]
    BY SMT DEF Exit, Drop, IInv, TypeOK
  <1>3. TypeOK'
    <2>1. \A v \in Workers : phase'[v] = "down" => RunsOf(v)' = {}
      <3> SUFFICES ASSUME NEW v \in Workers, phase'[v] = "down", NEW r \in Runs,
                          run'[r].worker = v
                   PROVE  FALSE
        BY DEF RunsOf
      <3>1. run[r].worker # w /\ run'[r] = run[r]
        BY <1>1, KeysAssumption DEF NoRun
      <3>2. phase[v] = "down"
        BY <3>1, SMT DEF Exit, IInv, TypeOK
      <3> QED BY <3>1, <3>2 DEF IInv, TypeOK, RunsOf
    <2>2. faults' \in 0..MaxFaults
      BY SMT DEF Exit, Fault, IInv, TypeOK
    <2>3. stopping' \subseteq {v \in Workers : phase'[v] # "down"}
      BY SMT DEF Exit, IInv, TypeOK
    <2>4. phase' \in [Workers -> {"loop", "tick", "busy", "down"}]
      BY SMT DEF Exit, IInv, TypeOK
    <2> QED BY <1>2, <2>1, <2>2, <2>3, <2>4 DEF Exit, rowVars, IInv, TypeOK
  <1>4. FewerHands
    BY <1>1, <1>2 DEF FewerHands
  <1> QED BY <1>3, <1>4, MaybeReclaim DEF Exit, rowVars

\* A lease that runs out under a live execution leaves the row unfenced.
LEMMA StepLeaseExpires == ASSUME IInv, NEW j \in Rows, LeaseExpires(j) PROVE IInv'
  BY SMT DEF LeaseExpires, Held, Fault, rowVars, IInv, TypeOK, KeysReal, PendingUnique,
     AttemptsLeft, HeldRunning, SoleHolder, NoRun, Active, Finished, RunsOf

\* Reclaiming gives every row a status, and no running row is left expired.
LEMMA ReclaimTypes ==
    ASSUME TypeOK, Reclaim \/ UNCHANGED <<status, expired>>
    PROVE  /\ status' \in [Rows -> {"none"} \cup Active \cup Finished]
           /\ expired' \subseteq {j \in Rows : status'[j] = "running"}
  <1>1. CASE UNCHANGED <<status, expired>>
    BY <1>1 DEF TypeOK
  <1>2. CASE Reclaim
    BY <1>2, SMT DEF Reclaim, TypeOK, Active, Finished
  <1> QED BY <1>1, <1>2

\* A handler that times out keeps its row until its failure is written.
LEMMA StepTimesOut == ASSUME IInv, NEW r \in Runs, TimesOut(r) PROVE IInv'
  <1>1. run[r] # NoRun /\ run[r].worker \in Workers /\ run[r].row \in Rows
    BY Hands DEF TimesOut, IInv, NoRun
  <1>2. Step(r, "threw")
    BY DEF TimesOut
  <1>3. FewerHands
    BY <1>1, <1>2, StepKeepsHands DEF IInv, SameHands, FewerHands, Phases
  <1>4. KeyOf(r) \in Keys
    BY <1>1 DEF KeyOf, IInv, KeysReal
  <1>5. TypeOK'
    <2>1. \A w \in Workers : phase'[w] = "down" => RunsOf(w)' = {}
      BY <1>3, DownIsIdle DEF TimesOut, IInv
    <2>2. faults' \in 0..MaxFaults
      BY SMT DEF TimesOut, Fault, IInv, TypeOK
    <2>3. aside' \subseteq Workers \X Keys
      BY <1>1, <1>4, SMT DEF TimesOut, IInv, TypeOK
    <2> QED BY <1>3, <2>1, <2>2, <2>3 DEF FewerHands, TimesOut, rowVars, IInv, TypeOK
  <1> QED BY <1>3, <1>5, MaybeReclaim DEF TimesOut, rowVars

\* A handler that throws, before or after reclaiming.
LEMMA StepThrows == ASSUME IInv, NEW r \in Runs, HandlerThrows(r) PROVE IInv'
  <1>1. run[r] # NoRun
    BY DEF HandlerThrows, NoRun
  <1>2. PICK p \in {"threw", "refused"} : Step(r, p)
    BY DEF HandlerThrows
  <1>3. FewerHands
    BY <1>1, <1>2, StepKeepsHands DEF IInv, SameHands, FewerHands, Phases
  <1>4. Reclaim \/ UNCHANGED <<status, expired>>
    BY DEF HandlerThrows
  <1>5. TypeOK'
    <2>1. \A w \in Workers : phase'[w] = "down" => RunsOf(w)' = {}
      BY <1>3, DownIsIdle DEF HandlerThrows, IInv
    <2>2. faults' \in 0..MaxFaults
      BY SMT DEF HandlerThrows, Fault, IInv, TypeOK
    <2> QED BY <1>3, <1>4, <2>1, <2>2, ReclaimTypes DEF FewerHands, HandlerThrows, IInv, TypeOK
  <1> QED BY <1>3, <1>4, <1>5, MaybeReclaim DEF HandlerThrows

\* A handler that ends after its timeout holds no row; it may reclaim.
LEMMA StepAsideEnds ==
    ASSUME IInv, NEW w \in Workers, NEW k \in Keys, AsideEnds(w, k) PROVE IInv'
  <1>1. FewerHands
    BY DEF AsideEnds, FewerHands, IInv, TypeOK
  <1>2. Reclaim \/ UNCHANGED <<status, expired>>
    BY DEF AsideEnds
  <1>3. TypeOK'
    BY <1>1, <1>2, ReclaimTypes DEF AsideEnds, RunsOf, IInv, TypeOK
  <1> QED BY <1>1, <1>2, <1>3, MaybeReclaim DEF AsideEnds

\* A handler that did its work takes it from the others that saw it.
LEMMA WorkDoneKeepsHands ==
    ASSUME TypeOK, NEW r \in Runs, run[r] # NoRun, WorkDone(r)
    PROVE  SameHands
  <1>1. CASE ~run[r].sees
    BY <1>1, StepKeepsHands DEF WorkDone, Phases
  <1>2. CASE run[r].sees
    <2>1. run[r] \in Executions /\ run \in [Runs -> Executions \cup {NoRun}]
      BY Hands DEF TypeOK
    <2>2. ASSUME NEW q \in Runs
          PROVE  /\ run'[q] \in Executions \cup {NoRun}
                 /\ run'[q].row = run[q].row /\ run'[q].worker = run[q].worker
                 /\ (run'[q] = NoRun) <=> (run[q] = NoRun)
      <3>1. \/ run'[q] = run[q]
            \/ q = r /\ run'[q] = [run[q] EXCEPT !.phase = "returned", !.sees = FALSE]
            \/ run[q].row # None /\ run'[q] = [run[q] EXCEPT !.sees = FALSE]
        BY <1>2 DEF WorkDone
      <3>2. CASE run'[q] = run[q]
        BY <2>1, <3>2
      <3>3. CASE q = r /\ run'[q] = [run[q] EXCEPT !.phase = "returned", !.sees = FALSE]
        <4>1. run[q] \in Executions /\ run'[q] = [run[q] EXCEPT !.phase = "returned", !.sees = FALSE]
          BY <2>1, <3>3
        <4>2. /\ run'[q] \in Executions
              /\ run'[q].row = run[q].row /\ run'[q].worker = run[q].worker
          BY <4>1, Updates, ZenonT(30) DEF Phases
        <4>3. run'[q] # NoRun /\ run[q] # NoRun
          BY <4>1, <4>2, NoRunFree
        <4> QED BY <4>2, <4>3
      <3>4. CASE run[q].row # None /\ run'[q] = [run[q] EXCEPT !.sees = FALSE]
        <4>1. run[q] \in Executions /\ run'[q] = [run[q] EXCEPT !.sees = FALSE]
          BY <2>1, <3>4 DEF NoRun
        <4>2. /\ run'[q] \in Executions
              /\ run'[q].row = run[q].row /\ run'[q].worker = run[q].worker
          BY <4>1, Updates DEF Phases
        <4>3. run'[q] # NoRun /\ run[q] # NoRun
          BY <4>1, <4>2, NoRunFree
        <4> QED BY <4>2, <4>3
      <3> QED BY <3>1, <3>2, <3>3, <3>4
    <2>3. run' \in [Runs -> Executions \cup {NoRun}]
      <3> DEFINE E(q) == IF q = r THEN [run[q] EXCEPT !.phase = "returned", !.sees = FALSE]
                         ELSE IF run[q].row # None /\ KeyOf(q) = KeyOf(r)
                         THEN [run[q] EXCEPT !.sees = FALSE]
                         ELSE run[q]
      <3>1. run' = [q \in Runs |-> E(q)]
        BY <1>2 DEF WorkDone
      <3>2. \A q \in Runs : run'[q] = E(q)
        BY <3>1
      <3> HIDE DEF E
      <3> QED BY <2>2, <3>1, <3>2
    <2> QED BY <2>2, <2>3 DEF SameHands
  <1>3. run[r].sees \in BOOLEAN
    BY Hands DEF Executions
  <1> QED BY <1>1, <1>2, <1>3

\* A handler that returns keeps its row until its success is written.
LEMMA StepReturns == ASSUME IInv, NEW r \in Runs, HandlerReturns(r) PROVE IInv'
  <1>1. run[r] # NoRun
    BY DEF HandlerReturns, NoRun
  <1>2. SameHands
    BY <1>1, WorkDoneKeepsHands DEF HandlerReturns, IInv
  <1>3. FewerHands
    BY <1>2 DEF SameHands, FewerHands
  <1>4. Reclaim \/ UNCHANGED <<status, expired>>
    BY DEF HandlerReturns
  <1>5. TypeOK'
    <2>1. \A w \in Workers : phase'[w] = "down" => RunsOf(w)' = {}
      BY <1>3, DownIsIdle DEF HandlerReturns, IInv
    <2>2. needed' \subseteq Keys
      BY DEF HandlerReturns, WorkDone, IInv, TypeOK
    <2> QED BY <1>3, <1>4, <2>1, <2>2, ReclaimTypes
          DEF FewerHands, HandlerReturns, IInv, TypeOK
  <1> QED BY <1>3, <1>4, <1>5, MaybeReclaim DEF HandlerReturns

\* An insert takes a slot that is in nobody's hand, for a key with no pending row.
LEMMA StepEnqueue ==
    ASSUME IInv, NEW w \in Workers, NEW k \in Keys, EnqueueRecurring(w, k) PROVE IInv'
  <1>1. PICK j \in FreeRows : /\ key' = [key EXCEPT ![j] = k]
                              /\ status' = [status EXCEPT ![j] = "queued"]
                              /\ attempts' = [attempts EXCEPT ![j] = 0]
                              /\ unfenced' = unfenced \ {j}
    BY DEF EnqueueRecurring, Insert
  <1>2. /\ j \in Rows
        /\ status[j] = "none" \/ (status[j] \in Finished /\ ~Held(j))
    BY DEF FreeRows
  <1>3. \A r \in Runs : run[r].row # j
    <2>1. \A r \in Runs : run[r] # NoRun => status[run[r].row] # "none"
      BY DEF IInv, KeysReal
    <2>2. \A r \in Runs : run[r].row = j => run[r] # NoRun
      BY <1>2, Hands DEF IInv
    <2> QED BY <1>2, <2>1, <2>2 DEF Held
  <1>4. ActiveRows(k) = {} /\ UNCHANGED <<expired, run, phase, stopping, aside, needed, faults>>
    BY DEF EnqueueRecurring
  <1>5. TypeOK'
    <2>1. key' \in [Rows -> Keys \cup {None}] /\ status' \in [Rows -> {"none"} \cup Active \cup Finished]
          /\ attempts' \in [Rows -> Nat] /\ unfenced' \subseteq Rows
      BY <1>1, <1>2, SMT DEF IInv, TypeOK, Active
    <2>2. expired' \subseteq {i \in Rows : status'[i] = "running"}
      BY <1>1, <1>2, <1>4 DEF IInv, TypeOK, Finished
    <2> QED BY <1>4, <2>1, <2>2 DEF IInv, TypeOK, RunsOf
  <1>6. \A i \in Rows : i # j => key'[i] = key[i] /\ status'[i] = status[i] /\ attempts'[i] = attempts[i]
    BY <1>1, SMT DEF IInv, TypeOK
  <1>7. key'[j] = k /\ status'[j] = "queued" /\ attempts'[j] = 0
    BY <1>1, <1>2, SMT DEF IInv, TypeOK
  <1>8. \A r \in Runs : run[r] # NoRun => run[r].row \in Rows
    BY Hands DEF IInv
  <1>9. KeysReal'
    BY <1>3, <1>4, <1>6, <1>7, <1>8 DEF IInv, KeysReal
  <1>10. PendingUnique'
    BY <1>4, <1>6, <1>7, SMT DEF IInv, PendingUnique, ActiveRows
  <1>11. AttemptsLeft'
    BY <1>6, <1>7, SMT DEF IInv, AttemptsLeft
  <1>12. HeldRunning'
    BY <1>1, <1>3, <1>4, <1>6, <1>8 DEF IInv, HeldRunning
  <1>13. SoleHolder'
    BY <1>1, <1>3, <1>4 DEF IInv, SoleHolder
  <1> QED BY <1>5, <1>9, <1>10, <1>11, <1>12, <1>13 DEF IInv

\* What a claim does to the rows: queued rows become running, one attempt later.
LEMMA ClaimedRows ==
    ASSUME IInv, NEW w \in Workers, NEW S \in Batches, ClaimRows(w, S)
    PROVE  /\ S \subseteq Rows /\ \A j \in S : status[j] = "queued"
           /\ \A j \in Rows : status'[j] = IF j \in S THEN "running" ELSE status[j]
           /\ status' \in [Rows -> {"none"} \cup Active \cup Finished]
           /\ attempts' \in [Rows -> Nat]
           /\ expired' \subseteq {j \in Rows : status'[j] = "running"}
           /\ PendingUnique' /\ AttemptsLeft'
           /\ UNCHANGED <<key, expired, stopping, aside, needed, unfenced>>
  <1>1. S \subseteq Rows /\ \A j \in S : status[j] = "queued"
    BY DEF Batches
  <1>2. /\ status' = [j \in Rows |-> IF j \in S THEN "running" ELSE status[j]]
        /\ attempts' = [j \in Rows |-> IF j \in S THEN attempts[j] + 1 ELSE attempts[j]]
        /\ UNCHANGED <<key, expired, stopping, aside, needed, unfenced>>
    BY DEF ClaimRows
  <1>3. \A j \in Rows : /\ status'[j] = IF j \in S THEN "running" ELSE status[j]
                        /\ attempts'[j] = IF j \in S THEN attempts[j] + 1 ELSE attempts[j]
    BY <1>2
  <1>4. status' \in [Rows -> {"none"} \cup Active \cup Finished] /\ attempts' \in [Rows -> Nat]
    BY <1>2, SMT DEF IInv, TypeOK, Active
  <1>5. expired' \subseteq {j \in Rows : status'[j] = "running"}
    BY <1>2, <1>3 DEF IInv, TypeOK
  <1>6. PendingUnique'
    BY <1>1, <1>2, <1>3 DEF IInv, PendingUnique, Active
  <1>7. AttemptsLeft'
    BY <1>1, <1>3, SMT DEF IInv, TypeOK, AttemptsLeft
  <1> QED BY <1>1, <1>2, <1>3, <1>4, <1>5, <1>6, <1>7

\* A claim whose answer is lost leaves running rows in nobody's hand.
LEMMA StepClaimLost ==
    ASSUME IInv, NEW w \in Workers, NEW S \in Batches, ClaimLost(w, S) PROVE IInv'
  <1>1. ClaimRows(w, S) /\ run' = run /\ phase' = [phase EXCEPT ![w] = "loop"]
    BY DEF ClaimLost
  <1>2. TypeOK'
    <2>1. faults' \in 0..MaxFaults
      BY SMT DEF ClaimLost, Fault, IInv, TypeOK
    <2>2. /\ phase' \in [Workers -> {"loop", "tick", "busy", "down"}]
          /\ \A v \in Workers : phase'[v] = "down" => phase[v] = "down"
          /\ \A v \in Workers : phase[v] # "down" => phase'[v] # "down"
      BY <1>1, SMT DEF IInv, TypeOK
    <2> QED BY <1>1, <2>1, <2>2, ClaimedRows DEF IInv, TypeOK, RunsOf
  <1>3. S \subseteq Rows /\ \A j \in S : status[j] = "queued"
    BY <1>1, ClaimedRows
  <1>4. \A j \in Rows : status'[j] = IF j \in S THEN "running" ELSE status[j]
    BY <1>1, ClaimedRows
  <1>5. UNCHANGED <<key, expired, unfenced>>
    BY <1>1, ClaimedRows
  <1>6. ASSUME NEW r \in Runs, run[r] # NoRun
        PROVE  /\ status'[run[r].row] # "none"
               /\ run[r].row \notin unfenced =>
                     status'[run[r].row] = "running" /\ run[r].row \notin expired
    <2>1. run[r].row \in Rows /\ status[run[r].row] # "none"
      BY <1>6, Hands DEF IInv, KeysReal
    <2>2. run[r].row \notin unfenced =>
             status[run[r].row] = "running" /\ run[r].row \notin expired
      BY <1>6 DEF IInv, HeldRunning
    <2> QED BY <1>4, <2>1, <2>2
  <1>7. KeysReal'
    <2>1. \A j \in Rows : status'[j] # "none" => status[j] # "none"
      BY <1>3, <1>4
    <2> QED BY <1>1, <1>5, <1>6, <2>1 DEF IInv, KeysReal
  <1>8. HeldRunning'
    BY <1>1, <1>5, <1>6 DEF HeldRunning
  <1>9. SoleHolder'
    BY <1>1, <1>5 DEF IInv, SoleHolder
  <1> QED BY <1>1, <1>2, <1>7, <1>8, <1>9, ClaimedRows DEF IInv

\* A row that is claimed was in no hand, unless it is unfenced.
LEMMA StepClaimJobs ==
    ASSUME IInv, NEW w \in Workers, NEW S \in Batches, ClaimJobs(w, S) PROVE IInv'
  <1>1. ClaimRows(w, S) /\ phase[w] = "tick"
        /\ phase' = [phase EXCEPT ![w] = IF S = {} THEN "loop" ELSE "busy"] /\ UNCHANGED faults
    BY DEF ClaimJobs, ClaimRows
  <1>2. PICK slot \in Injection(S, FreeRuns) : Begin(w, S, slot)
    BY DEF ClaimJobs, ExistsInjection
  <1>3. /\ \A j \in S : slot[j] \in Runs /\ run[slot[j]] = NoRun
        /\ \A i, j \in S : slot[i] = slot[j] => i = j
    BY <1>2 DEF Injection, IsInjective, FreeRuns
  <1> DEFINE New(r) == \E j \in S : slot[j] = r
  <1>4. \A r \in Runs : ~New(r) => run'[r] = run[r]
    BY <1>2 DEF Begin
  <1>5. \A r \in Runs : New(r) =>
           \E j \in S : /\ slot[j] = r /\ run'[r].row = j /\ run'[r].worker = w
                        /\ run'[r] \in Executions /\ run'[r] # NoRun
    <2> SUFFICES ASSUME NEW r \in Runs, New(r)
                 PROVE  \E j \in S : /\ slot[j] = r /\ run'[r].row = j /\ run'[r].worker = w
                                     /\ run'[r] \in Executions /\ run'[r] # NoRun
      OBVIOUS
    <2> DEFINE j == CHOOSE i \in S : slot[i] = r
    <2>1. j \in S /\ slot[j] = r
      OBVIOUS
    <2>2. run'[r] = [worker |-> w, row |-> j, phase |-> "running", sees |-> key[j] \in needed]
      BY <1>2 DEF Begin
    <2>3. j \in Rows
      BY <2>1, <1>1, ClaimedRows
    <2> HIDE DEF j
    <2>4. (key[j] \in needed) \in BOOLEAN /\ "running" \in Phases
      BY DEF Phases
    <2>5. run'[r] \in Executions /\ run'[r].row = j /\ run'[r].worker = w
      BY <2>2, <2>3, <2>4 DEF Executions
    <2> QED BY <2>1, <2>5, NoRunFree
  <1>6. run' \in [Runs -> Executions \cup {NoRun}]
    <2>1. \A r \in Runs : run'[r] \in Executions \cup {NoRun}
      BY <1>4, <1>5 DEF IInv, TypeOK
    <2>2. run' = [r \in Runs |-> run'[r]]
      BY <1>2 DEF Begin
    <2> QED BY <2>1, <2>2
  <1>7. \A r \in Runs : run[r] # NoRun => run[r].row \in Rows /\ ~New(r)
    BY <1>3, Hands DEF IInv
  <1>8. TypeOK'
    <2>1. /\ phase' \in [Workers -> {"loop", "tick", "busy", "down"}]
          /\ phase'[w] # "down" /\ \A v \in Workers : v # w => phase'[v] = phase[v]
      BY <1>1, SMT DEF IInv, TypeOK
    <2>2. \A v \in Workers : phase'[v] = "down" => RunsOf(v)' = {}
      <3> SUFFICES ASSUME NEW v \in Workers, phase'[v] = "down", NEW r \in Runs,
                          run'[r].worker = v
                   PROVE  FALSE
        BY DEF RunsOf
      <3>1. v # w /\ phase[v] = "down"
        BY <2>1
      <3>2. ~New(r)
        BY <1>5, <3>1
      <3> QED BY <1>4, <3>1, <3>2 DEF IInv, TypeOK, RunsOf
    <2>3. stopping' \subseteq {v \in Workers : phase'[v] # "down"}
      BY <1>1, <2>1, ClaimedRows DEF IInv, TypeOK
    <2> QED BY <1>1, <1>6, <2>1, <2>2, <2>3, ClaimedRows DEF IInv, TypeOK
  <1>20. S \subseteq Rows /\ \A j \in S : status[j] = "queued"
    BY <1>1, ClaimedRows
  <1>21. \A j \in Rows : status'[j] = IF j \in S THEN "running" ELSE status[j]
    BY <1>1, ClaimedRows
  <1>22. UNCHANGED <<key, expired, unfenced>>
    BY <1>1, ClaimedRows
  <1>9. KeysReal'
    <2>1. ASSUME NEW r \in Runs, run'[r] # NoRun PROVE status'[run'[r].row] # "none"
      <3>1. CASE New(r)
        BY <1>5, <1>20, <1>21, <3>1
      <3>2. CASE ~New(r)
        <4>1. run[r] # NoRun /\ run'[r].row = run[r].row
          BY <1>4, <2>1, <3>2
        <4>2. run[r].row \in Rows /\ status[run[r].row] # "none"
          BY <1>7, <4>1 DEF IInv, KeysReal
        <4> QED BY <1>21, <4>1, <4>2
      <3> QED BY <3>1, <3>2
    <2>2. \A j \in Rows : status'[j] # "none" => status[j] # "none"
      BY <1>20, <1>21
    <2> QED BY <1>22, <2>1, <2>2 DEF IInv, KeysReal
  <1>10. HeldRunning'
    <2>1. ASSUME NEW r \in Runs, run'[r] # NoRun, run'[r].row \notin unfenced
          PROVE  status'[run'[r].row] = "running" /\ run'[r].row \notin expired
      <3>1. CASE New(r)
        <4>1. run'[r].row \in S /\ run'[r].row \in Rows /\ status[run'[r].row] = "queued"
          BY <1>5, <1>20, <3>1
        <4> QED BY <1>21, <4>1 DEF IInv, TypeOK
      <3>2. CASE ~New(r)
        <4>1. run[r] # NoRun /\ run'[r].row = run[r].row
          BY <1>4, <2>1, <3>2
        <4>2. run[r].row \in Rows /\ status[run[r].row] = "running" /\ run[r].row \notin expired
          BY <1>7, <2>1, <4>1 DEF IInv, HeldRunning
        <4> QED BY <1>21, <4>1, <4>2
      <3> QED BY <3>1, <3>2
    <2> QED BY <1>22, <2>1 DEF HeldRunning
  <1>11. SoleHolder'
    <2>1. ASSUME NEW q \in Runs, NEW r \in Runs, New(q), run'[r] # NoRun, r # q,
                 run'[q].row = run'[r].row
          PROVE  run'[r].row \in unfenced
      <3>1. run'[q].row \in S /\ slot[run'[q].row] = q
        BY <1>5, <2>1
      <3>2. ~New(r)
        BY <1>5, <2>1, <3>1
      <3>3. run[r] # NoRun /\ run'[r].row = run[r].row
        BY <1>4, <2>1, <3>2
      <3>4. status[run[r].row] = "queued"
        BY <1>1, <2>1, <3>1, <3>3, ClaimedRows
      <3> QED BY <3>3, <3>4 DEF IInv, HeldRunning
    <2> SUFFICES ASSUME NEW q \in Runs, NEW r \in Runs, q # r, run'[q] # NoRun,
                        run'[q].row = run'[r].row
                 PROVE  run'[r].row \in unfenced
      BY <1>1, ClaimedRows DEF SoleHolder
    <2>2. run'[r] # NoRun
      BY <1>8, HandsNext
    <2>3. CASE New(q) \/ New(r)
      BY <2>1, <2>2, <2>3
    <2>4. CASE ~New(q) /\ ~New(r)
      BY <1>4, <2>4 DEF IInv, SoleHolder
    <2> QED BY <2>3, <2>4
  <1> QED BY <1>1, <1>8, <1>9, <1>10, <1>11, ClaimedRows DEF IInv

\* An outcome written by the only hand on a row, or over an unfenced one.
LEMMA OutcomeWritten ==
    ASSUME IInv, TypeOK', NEW r \in Runs, run[r] # NoRun,
           run'[r] = NoRun, \A q \in Runs \ {r} : run'[q] = run[q],
           UNCHANGED <<key, unfenced>>,
           \A i \in Rows : i # run[r].row =>
              /\ status'[i] = status[i] /\ attempts'[i] = attempts[i]
              /\ i \in expired' => i \in expired,
           status'[run[r].row] \in Finished \cup {"queued"},
           attempts'[run[r].row] <= MaxAttempts,
           status'[run[r].row] = "queued" =>
              attempts'[run[r].row] < MaxAttempts /\ ActiveRows(key[run[r].row]) \subseteq {run[r].row}
    PROVE  IInv'
  <1> DEFINE j == run[r].row
  <1>1. j \in Rows /\ status[j] # "none" /\ key[j] \in Keys
    BY Hands DEF IInv, KeysReal
  <1>2. \A q \in Runs : run'[q] # NoRun => q # r /\ run'[q] = run[q] /\ run[q].row \in Rows
    BY Hands DEF IInv
  <1> HIDE DEF j
  <1>3. /\ \A i \in Rows : i # j => /\ status'[i] = status[i] /\ attempts'[i] = attempts[i]
                                    /\ i \in expired' => i \in expired
        /\ status'[j] \in Finished \cup {"queued"} /\ attempts'[j] <= MaxAttempts
        /\ status'[j] = "queued" => attempts'[j] < MaxAttempts /\ ActiveRows(key[j]) \subseteq {j}
    BY DEF j
  <1>4. KeysReal'
    <2>1. \A i \in Rows : status'[i] # "none" => status[i] # "none"
      BY <1>1, <1>3
    <2>2. \A i \in Rows : status[i] # "none" => status'[i] # "none"
      BY <1>3 DEF Finished
    <2> QED BY <1>2, <2>1, <2>2 DEF IInv, KeysReal
  <1>5. PendingUnique'
    <2>1. \A i \in Rows : i # j /\ status'[i] \in Active => status[i] \in Active
      BY <1>3
    <2>2. ASSUME NEW i \in Rows, i # j, status'[i] \in Active, status'[j] \in Active PROVE key[i] # key[j]
      <3>1. status'[j] = "queued"
        BY <1>3, <2>2 DEF Active, Finished
      <3> QED BY <1>3, <2>1, <2>2, <3>1 DEF ActiveRows
    <2> QED BY <2>1, <2>2 DEF IInv, PendingUnique
  <1>6. AttemptsLeft'
    BY <1>1, <1>3 DEF IInv, AttemptsLeft
  <1>7. HeldRunning'
    <2> SUFFICES ASSUME NEW q \in Runs, run'[q] # NoRun, run'[q].row \notin unfenced
                 PROVE  status'[run'[q].row] = "running" /\ run'[q].row \notin expired'
      BY DEF HeldRunning
    <2>1. q # r /\ run'[q] = run[q] /\ run[q].row \in Rows /\ run[q] # NoRun
      BY <1>2
    <2>2. run[q].row # j
      BY <2>1 DEF IInv, SoleHolder, j
    <2>3. status[run[q].row] = "running" /\ run[q].row \notin expired
      BY <2>1 DEF IInv, HeldRunning
    <2> QED BY <1>3, <2>1, <2>2, <2>3
  <1>8. SoleHolder'
    <2> SUFFICES ASSUME NEW p \in Runs, NEW q \in Runs, p # q, run'[p] # NoRun,
                        run'[p].row = run'[q].row
                 PROVE  run'[q].row \in unfenced
      BY DEF SoleHolder
    <2>1. run'[q] # NoRun
      BY <1>2, HandsNext
    <2> QED BY <1>2, <2>1 DEF IInv, SoleHolder
  <1> QED BY <1>4, <1>5, <1>6, <1>7, <1>8 DEF IInv

\* Where a worker is when one of its executions ends.
LEMMA EndTypes ==
    ASSUME IInv, NEW r \in Runs, run[r] # NoRun, Finish(r), NEW w \in Workers, w = run[r].worker,
           TickEnds(w, r) \/ phase' = [phase EXCEPT ![w] = "loop"],
           stopping' = stopping
    PROVE  /\ phase' \in [Workers -> {"loop", "tick", "busy", "down"}]
           /\ stopping' \subseteq {v \in Workers : phase'[v] # "down"}
           /\ \A v \in Workers : phase'[v] = "down" => RunsOf(v)' = {}
  <1>1. phase[w] # "down"
    BY DEF IInv, TypeOK, RunsOf
  <1>2. /\ phase' \in [Workers -> {"loop", "tick", "busy", "down"}]
        /\ \A v \in Workers : phase'[v] = "down" => phase[v] = "down"
        /\ \A v \in Workers : phase[v] # "down" => phase'[v] # "down"
    BY <1>1, SMT DEF TickEnds, IInv, TypeOK
  <1>3. FewerHands
    BY FinishFrees DEF FewerHands, IInv
  <1> QED BY <1>2, <1>3, DownIsIdle DEF IInv, TypeOK

\* A success is written over whatever the row has become.
LEMMA StepComplete == ASSUME IInv, NEW r \in Runs, CompleteJob(r) PROVE IInv'
  <1>1. run[r] # NoRun /\ run[r].row \in Rows /\ run[r].worker \in Workers
    BY Hands DEF CompleteJob, NoRun, IInv
  <1>2. /\ run' \in [Runs -> Executions \cup {NoRun}]
        /\ run'[r] = NoRun /\ \A q \in Runs \ {r} : run'[q] = run[q]
    BY FinishFrees DEF CompleteJob, IInv
  <1>3. /\ status' = [status EXCEPT ![run[r].row] = "succeeded"]
        /\ expired' = expired \ {run[r].row} /\ UNCHANGED <<key, attempts>>
        /\ UNCHANGED <<stopping, aside, needed, unfenced, faults>>
    BY DEF CompleteJob, SetSucceeded
  <1>4. /\ status'[run[r].row] = "succeeded"
        /\ \A i \in Rows : i # run[r].row => status'[i] = status[i]
    BY <1>1, <1>3, SMT DEF IInv, TypeOK
  <1>5. TypeOK'
    <2>1. status' \in [Rows -> {"none"} \cup Active \cup Finished]
      BY <1>1, <1>3, SMT DEF IInv, TypeOK, Finished
    <2>2. expired' \subseteq {i \in Rows : status'[i] = "running"}
      BY <1>3, <1>4 DEF IInv, TypeOK
    <2> QED BY <1>1, <1>2, <1>3, <2>1, <2>2, EndTypes DEF CompleteJob, IInv, TypeOK
  <1>6. attempts'[run[r].row] <= MaxAttempts
    BY <1>1, <1>3 DEF IInv, AttemptsLeft
  <1> QED BY <1>1, <1>2, <1>3, <1>4, <1>5, <1>6, OutcomeWritten DEF Finished

\* A success whose answer is lost leaves its row unfenced.
LEMMA StepCompleteLost == ASSUME IInv, NEW r \in Runs, CompleteLost(r) PROVE IInv'
  <1> DEFINE j == run[r].row
  <1>1. run[r] # NoRun /\ j \in Rows
    BY Hands DEF CompleteLost, NoRun, IInv
  <1>2. FewerHands
    BY <1>1, StepKeepsHands DEF CompleteLost, IInv, SameHands, FewerHands, Phases
  <1>3. UNCHANGED <<phase, stopping, aside, needed>>
    BY DEF CompleteLost
  <1>4. faults' \in 0..MaxFaults
    BY SMT DEF CompleteLost, Fault, IInv, TypeOK
  <1>5. \A w \in Workers : phase'[w] = "down" => RunsOf(w)' = {}
    BY <1>2, <1>3, DownIsIdle DEF IInv
  <1>6. CASE UNCHANGED <<rowVars, unfenced>>
    <2>1. TypeOK'
      BY <1>2, <1>3, <1>4, <1>5, <1>6 DEF rowVars, FewerHands, IInv, TypeOK
    <2> QED BY <1>2, <1>6, <2>1, MaybeReclaim DEF rowVars
  <1>7. CASE SetSucceeded(j) /\ unfenced' = unfenced \cup {j}
    <2>1. /\ status' = [status EXCEPT ![j] = "succeeded"]
          /\ expired' = expired \ {j} /\ UNCHANGED <<key, attempts>>
      BY <1>7 DEF SetSucceeded
    <2>2. status'[j] = "succeeded" /\ \A i \in Rows : i # j => status'[i] = status[i]
      BY <1>1, <2>1, SMT DEF IInv, TypeOK
    <2> HIDE DEF j
    <2>3. TypeOK'
      <3>1. status' \in [Rows -> {"none"} \cup Active \cup Finished]
        BY <1>1, <2>1, SMT DEF IInv, TypeOK, Finished
      <3>2. expired' \subseteq {i \in Rows : status'[i] = "running"}
        BY <2>1, <2>2 DEF IInv, TypeOK
      <3> QED BY <1>1, <1>2, <1>3, <1>4, <1>5, <1>7, <2>1, <3>1, <3>2 DEF FewerHands, IInv, TypeOK
    <2>4. \A q \in Runs : run[q] # NoRun => run[q].row \in Rows
      BY Hands DEF IInv
    <2>5. KeysReal'
      <3>1. status[j] # "none"
        BY <1>1 DEF IInv, KeysReal, j
      <3>2. \A i \in Rows : (status'[i] # "none") <=> (status[i] # "none")
        BY <2>2, <3>1
      <3> QED BY <1>2, <2>1, <2>4, <3>2 DEF IInv, KeysReal, FewerHands
    <2>6. PendingUnique' /\ AttemptsLeft'
      BY <2>1, <2>2 DEF IInv, PendingUnique, AttemptsLeft, Active
    <2>7. HeldRunning'
      <3> SUFFICES ASSUME NEW q \in Runs, run'[q] # NoRun, run'[q].row \notin unfenced \cup {j}
                   PROVE  status'[run'[q].row] = "running" /\ run'[q].row \notin expired'
        BY <1>7 DEF HeldRunning
      <3>1. run[q] # NoRun /\ run'[q].row = run[q].row /\ run[q].row \in Rows
        BY <1>2, <2>4 DEF FewerHands
      <3> QED BY <2>1, <2>2, <3>1 DEF IInv, HeldRunning
    <2>8. SoleHolder'
      <3> SUFFICES ASSUME NEW p \in Runs, NEW q \in Runs, p # q, run'[p] # NoRun,
                          run'[p].row = run'[q].row
                   PROVE  run'[q].row \in unfenced
        BY <1>7 DEF SoleHolder
      <3>1. run'[p].row \in Rows /\ run'[q] # NoRun
        BY <2>3, HandsNext
      <3> QED BY <1>2, <3>1 DEF IInv, SoleHolder, FewerHands
    <2> QED BY <2>3, <2>5, <2>6, <2>7, <2>8 DEF IInv
  <1> QED BY <1>6, <1>7 DEF CompleteLost

\* A failure is written, unless the dedupe index or the database refuses it.
LEMMA StepFail == ASSUME IInv, NEW r \in Runs, FailJob(r) PROVE IInv'
  <1> DEFINE j == run[r].row
             w == run[r].worker
             tried == IF run[r].phase = "refused" THEN MaxAttempts ELSE attempts[j]
             next == IF tried >= MaxAttempts THEN "dead" ELSE "queued"
             written == /\ attempts' = [attempts EXCEPT ![j] = tried]
                        /\ status' = [status EXCEPT ![j] = next]
                        /\ expired' = expired \ {j}
  <1>1. run[r] # NoRun /\ j \in Rows /\ w \in Workers
    BY Hands DEF FailJob, NoRun, IInv
  <1>2. /\ run' \in [Runs -> Executions \cup {NoRun}]
        /\ run'[r] = NoRun /\ \A q \in Runs \ {r} : run'[q] = run[q]
    BY FinishFrees DEF FailJob, IInv
  <1>3. UNCHANGED <<key, stopping, aside, needed, unfenced>>
    BY DEF FailJob
  <1>4. TickEnds(w, r) \/ phase' = [phase EXCEPT ![w] = "loop"]
    BY DEF FailJob
  <1>5. faults' \in 0..MaxFaults
    BY SMT DEF FailJob, Fault, IInv, TypeOK
  <1>6. tried \in Nat /\ tried <= MaxAttempts
    BY <1>1, SMT DEF IInv, TypeOK, AttemptsLeft
  <1>7. CASE UNCHANGED <<status, attempts, expired>>
    <2>1. FewerHands
      BY <1>2 DEF FewerHands
    <2>2. TypeOK'
      BY <1>1, <1>2, <1>3, <1>4, <1>5, <1>7, EndTypes DEF FailJob, IInv, TypeOK
    <2> QED BY <1>3, <1>7, <2>1, <2>2, MaybeReclaim
  <1>8. CASE written /\ (next = "dead" \/ ActiveRows(key[j]) \subseteq {j})
    <2>1. /\ attempts' \in [Rows -> Nat] /\ attempts'[j] = tried
          /\ \A i \in Rows : i # j => attempts'[i] = attempts[i]
      BY <1>1, <1>6, <1>8, SMT DEF IInv, TypeOK
    <2>2. /\ status' \in [Rows -> {"none"} \cup Active \cup Finished] /\ status'[j] = next
          /\ \A i \in Rows : i # j => status'[i] = status[i]
      BY <1>1, <1>8, SMT DEF IInv, TypeOK, Active, Finished
    <2>3. expired' \subseteq {i \in Rows : status'[i] = "running"} /\ unfenced' \subseteq Rows
      BY <1>3, <1>8, <2>2 DEF IInv, TypeOK
    <2>4. TypeOK'
      BY <1>1, <1>2, <1>3, <1>4, <1>5, <2>1, <2>2, <2>3, EndTypes DEF FailJob, IInv, TypeOK
    <2>5. status'[j] = "queued" => attempts'[j] < MaxAttempts /\ ActiveRows(key[j]) \subseteq {j}
      BY <1>6, <1>8, <2>1, <2>2, SMT
    <2>6. status'[j] \in Finished \cup {"queued"} /\ attempts'[j] <= MaxAttempts
      BY <1>6, <2>1, <2>2 DEF Finished
    <2>7. \A i \in Rows : i # j => /\ status'[i] = status[i] /\ attempts'[i] = attempts[i]
                                   /\ i \in expired' => i \in expired
      BY <1>8, <2>1, <2>2
    <2> QED BY <1>1, <1>2, <1>3, <2>4, <2>5, <2>6, <2>7, OutcomeWritten
  <1> QED BY <1>7, <1>8 DEF FailJob

\* Every step keeps the inductive invariant.
LEMMA NextIInv == IInv /\ [Next]_vars => IInv'
  <1> SUFFICES ASSUME IInv, [Next]_vars PROVE IInv'
    OBVIOUS
  <1>1. ASSUME NEW k \in Keys, WorkArrives(k) PROVE IInv'
    BY <1>1, StepWorkArrives
  <1>2. ASSUME NEW w \in Workers, StartTick(w) \/ Shutdown(w) \/ Exit(w) \/ Restart(w) PROVE IInv'
    BY <1>2, StepStartTick, StepShutdown, StepExit, StepRestart
  <1>3. ASSUME NEW w \in Workers, NEW k \in Keys, EnqueueRecurring(w, k) \/ AsideEnds(w, k) PROVE IInv'
    BY <1>3, StepEnqueue, StepAsideEnds
  <1>4. ASSUME NEW w \in Workers, NEW S \in Batches, ClaimJobs(w, S) \/ ClaimLost(w, S) PROVE IInv'
    BY <1>4, StepClaimJobs, StepClaimLost
  <1>5. ASSUME NEW r \in Runs, RunStep(r) PROVE IInv'
    BY <1>5, StepReturns, StepComplete, StepFail DEF RunStep
  <1>6. ASSUME NEW r \in Runs, HandlerThrows(r) \/ TimesOut(r) \/ CompleteLost(r) PROVE IInv'
    BY <1>6, StepThrows, StepTimesOut, StepCompleteLost
  <1>7. ASSUME NEW j \in Rows, LeaseExpires(j) PROVE IInv'
    BY <1>7, StepLeaseExpires
  <1>8. CASE UNCHANGED vars
    BY <1>8 DEF vars, rowVars, IInv, TypeOK, RunsOf, KeysReal, PendingUnique, AttemptsLeft,
          HeldRunning, SoleHolder
  <1> QED BY <1>1, <1>2, <1>3, <1>4, <1>5, <1>6, <1>7, <1>8 DEF Next

\* The inductive invariant holds in every behaviour.
THEOREM Inductive == Spec => []IInv
  BY InitIInv, NextIInv, PTL DEF Spec

\* Every variable keeps its type, and a worker that is down executes nothing.
THEOREM TypeCorrect == Spec => []TypeOK
  <1>1. IInv => TypeOK
    BY DEF IInv
  <1> QED BY <1>1, Inductive, PTL

\* At most one job per dedupe key is pending, for any number of workers and
\* whatever late outcomes and reclaims do to its rows.
THEOREM OnePending == Spec => []OnePendingPerKey
  <1>1. ASSUME IInv, NEW k \in Keys PROVE Cardinality(ActiveRows(k)) <= 1
    <2>1. \A i, j \in ActiveRows(k) : i = j
      BY <1>1 DEF IInv, PendingUnique, ActiveRows
    <2>2. CASE ActiveRows(k) = {}
      BY <2>2, FS_EmptySet
    <2>3. CASE ActiveRows(k) # {}
      <3>1. PICK j : j \in ActiveRows(k)
        BY <2>3
      <3>2. ActiveRows(k) = {j}
        BY <2>1, <3>1
      <3> QED BY <3>2, FS_Singleton
    <2> QED BY <2>2, <2>3
  <1>2. IInv => OnePendingPerKey
    BY <1>1 DEF OnePendingPerKey
  <1> QED BY <1>2, Inductive, PTL

\* No job is started more than max_attempts times, however its workers die.
THEOREM PoisonRetires == Spec => []PoisonJobRetires
  <1>1. IInv => PoisonJobRetires
    BY DEF IInv, AttemptsLeft, PoisonJobRetires
  <1> QED BY <1>1, Inductive, PTL

\* Two executions of one dedupe key overlap only over an unfenced row.
THEOREM OneHandler == Spec => []OneHandlerPerKey
  <1>1. ASSUME IInv, NEW q \in Runs, NEW r \in Runs, q # r, run[q].phase = "running",
               run[r].phase = "running", KeyOf(q) = KeyOf(r),
               run[q].row \notin unfenced, run[r].row \notin unfenced
        PROVE  FALSE
    <2>1. run[q] # NoRun /\ run[r] # NoRun
      BY <1>1 DEF NoRun
    <2>2. run[q].row \in Rows /\ run[r].row \in Rows
      BY <1>1, <2>1, Hands DEF IInv
    <2>3. status[run[q].row] \in Active /\ status[run[r].row] \in Active
      BY <1>1, <2>1 DEF IInv, HeldRunning, Active
    <2>4. run[q].row = run[r].row
      BY <1>1, <2>2, <2>3 DEF IInv, PendingUnique, KeyOf
    <2> QED BY <1>1, <2>1, <2>4 DEF IInv, SoleHolder
  <1>2. IInv => OneHandlerPerKey
    BY <1>1 DEF OneHandlerPerKey
  <1> QED BY <1>2, Inductive, PTL

\* A row that leaves a final status is a new one, or unfenced.
StaysFinished ==
    \A j \in Rows : status[j] \in Finished /\ status'[j] \in Active
        => attempts'[j] = 0 \/ j \in unfenced

\* Reclaiming takes running rows only.
LEMMA ReclaimStays == ASSUME Reclaim \/ UNCHANGED <<status, expired>> PROVE StaysFinished
  <1>1. CASE UNCHANGED <<status, expired>>
    BY <1>1 DEF StaysFinished, Active, Finished
  <1>2. CASE Reclaim
    BY <1>2 DEF Reclaim, StaysFinished, Active, Finished
  <1> QED BY <1>1, <1>2

\* A failure that is written to a finished row is written over an unfenced one.
LEMMA FailStays == ASSUME IInv, NEW r \in Runs, FailJob(r) PROVE StaysFinished
  <1>1. run[r] # NoRun /\ run[r].row \in Rows
    BY Hands DEF FailJob, NoRun, IInv
  <1>2. status[run[r].row] \in Finished => run[r].row \in unfenced
    BY <1>1 DEF IInv, HeldRunning, Finished
  <1>3. \A j \in Rows : j # run[r].row => status'[j] = status[j]
    BY <1>1, SMT DEF FailJob, IInv, TypeOK
  <1> QED BY <1>2, <1>3 DEF StaysFinished, Active, Finished

\* Every step keeps what is finished finished.
LEMMA NextStays == IInv /\ [Next]_vars => [StaysFinished]_vars
  <1> SUFFICES ASSUME IInv, Next PROVE StaysFinished
    OBVIOUS
  <1>1. ASSUME UNCHANGED status PROVE StaysFinished
    BY <1>1 DEF StaysFinished, Active, Finished
  <1>2. ASSUME NEW w \in Workers, NEW k \in Keys, EnqueueRecurring(w, k) PROVE StaysFinished
    <2>1. PICK j \in Rows : /\ status' = [status EXCEPT ![j] = "queued"]
                            /\ attempts' = [attempts EXCEPT ![j] = 0]
      BY <1>2 DEF EnqueueRecurring, Insert, FreeRows
    <2>2. attempts'[j] = 0 /\ \A i \in Rows : i # j => status'[i] = status[i]
      BY <2>1, SMT DEF IInv, TypeOK
    <2> QED BY <2>2 DEF StaysFinished, Active, Finished
  <1>3. ASSUME NEW w \in Workers, NEW S \in Batches, ClaimRows(w, S) PROVE StaysFinished
    BY <1>3 DEF ClaimRows, Batches, StaysFinished, Active, Finished
  <1>4. ASSUME NEW r \in Runs, RunStep(r) PROVE StaysFinished
    <2>1. CASE HandlerReturns(r)
      BY <2>1, ReclaimStays DEF HandlerReturns
    <2>2. CASE CompleteJob(r)
      <3>1. \A j \in Rows : status'[j] = status[j] \/ status'[j] = "succeeded"
        BY <2>2, SMT DEF CompleteJob, SetSucceeded, IInv, TypeOK
      <3> QED BY <3>1 DEF StaysFinished, Active, Finished
    <2> QED BY <1>4, <2>1, <2>2, FailStays DEF RunStep
  <1>5. ASSUME NEW r \in Runs, CompleteLost(r) PROVE StaysFinished
    <2>1. \A j \in Rows : status'[j] = status[j] \/ status'[j] = "succeeded"
      BY <1>5, SMT DEF CompleteLost, SetSucceeded, rowVars, IInv, TypeOK
    <2> QED BY <2>1 DEF StaysFinished, Active, Finished
  <1>6. ASSUME NEW r \in Runs, HandlerThrows(r) PROVE StaysFinished
    BY <1>6, ReclaimStays DEF HandlerThrows
  <1>7. ASSUME NEW w \in Workers, NEW k \in Keys, AsideEnds(w, k) PROVE StaysFinished
    BY <1>7, ReclaimStays DEF AsideEnds
  <1>8. ASSUME NEW k \in Keys, WorkArrives(k) PROVE StaysFinished
    BY <1>1, <1>8 DEF WorkArrives, rowVars
  <1>9. ASSUME NEW w \in Workers, StartTick(w) \/ Shutdown(w) \/ Exit(w) \/ Restart(w) PROVE StaysFinished
    BY <1>1, <1>9 DEF StartTick, Shutdown, Exit, Restart, rowVars
  <1>10. ASSUME NEW r \in Runs, TimesOut(r) PROVE StaysFinished
    BY <1>1, <1>10 DEF TimesOut, rowVars
  <1>11. ASSUME NEW j \in Rows, LeaseExpires(j) PROVE StaysFinished
    BY <1>1, <1>11 DEF LeaseExpires
  <1>12. ASSUME NEW w \in Workers, NEW S \in Batches, ClaimJobs(w, S) \/ ClaimLost(w, S)
         PROVE  StaysFinished
    BY <1>3, <1>12 DEF ClaimJobs, ClaimLost
  <1> QED BY <1>2, <1>4, <1>5, <1>6, <1>7, <1>8, <1>9, <1>10, <1>11, <1>12 DEF Next

\* A job that finished is not run again, except over an unfenced row.
THEOREM FinishedForGood == Spec => FinishedStaysFinished
  <1>1. [StaysFinished]_vars =>
          [\A j \in Rows : status[j] \in Finished /\ status'[j] \in Active
              => attempts'[j] = 0 \/ j \in unfenced]_vars
    BY DEF StaysFinished
  <1> QED BY <1>1, Inductive, NextStays, PTL DEF Spec, FinishedStaysFinished
=============================================================================
