------------------------- MODULE NotificationsProofs -------------------------
(***************************************************************************)
(* Proofs about Notifications for every set of events and dispatch runs,   *)
(* every limit of attempts and every choice of faults.                     *)
(*                                                                         *)
(* The argument: nothing fences a row, so a row and the runs that hold it  *)
(* come apart as soon as a second run claims it while the first still has  *)
(* it.  That is when the event becomes doubted and spent.  Up to there a   *)
(* row in hand is queued (HeldQueued) and in one hand only (SoleHolder),   *)
(* so that the run that sends it is the one that records the outcome.      *)
(*                                                                         *)
(* Of the reminders (module Reminders) it is shown for every history that  *)
(* what the queries let through and what the dedupe keys swallow agree.    *)
(*                                                                         *)
(* Of the messages (module Messages): a text grows by one character, its   *)
(* escaped form by the block that stands for it, and no block completes an *)
(* entity with what is before it; a start parameter is taken apart as it   *)
(* was put together; and each payload suits the template of its type.  The *)
(* run's formula (module MCNotifications) is an instance of these.         *)
(***************************************************************************)
EXTENDS MCNotifications, WellFoundedInduction, TLAPS

AtHand == {"accepted", "transient", "permanent"}

\* A run has a row at hand exactly while it deals with its delivery, that row is no
\* longer in its batch, and a run that is idle holds none.
HandsFull ==
    \A r \in Runs :
        /\ hand[r] \in Events <=> pc[r] \in AtHand
        /\ hand[r] \notin batch[r]
        /\ pc[r] = "idle" => batch[r] = {}

Overtaken == doubted \cap spent

\* A row in hand is queued and is in one hand only, unless it was overtaken.
HeldQueued == \A r \in Runs : \A e \in Held(r) \ Overtaken : status[e] = "queued"
SoleHolder ==
    \A q, r \in Runs : \A e \in (Held(q) \cap Held(r)) \ Overtaken : q = r

\* A message that went out is on record, or its run is about to record it.
Accounted ==
    \A e \in Events \ doubted :
        /\ delivered[e] <= 1
        /\ delivered[e] = 1 =>
              \/ status[e] \notin {"none", "queued"}
              \/ \E r \in Runs : hand[r] = e /\ pc[r] = "accepted"

\* A row in hand counts the attempt in hand, as its run saw it; a row that waits has
\* an attempt left before the last.
AttemptsCounted ==
    \A e \in Events \ spent :
        /\ attempts[e] < MAX_ATTEMPTS
        /\ \A r \in Runs : e \in Held(r) =>
              seen[r][e].attempts = attempts[e] /\ attempts[e] > 0
        /\ status[e] = "queued" =>
              attempts[e] + 1 < MAX_ATTEMPTS \/ \E r \in Runs : e \in Held(r)

IInv ==
    TypeOK /\ HandsFull /\ HeldQueued /\ SoleHolder /\ Accounted /\ AttemptsCounted

USE EventsAssumption, RunsAssumption, AttemptsAssumption

\* What a claim shows of a row it did not return is of the type of the ones it did.
LEMMA NotSeenTyped == NotSeen \in [attempts : 0..AttemptsCheck, muted : BOOLEAN]
  BY SMT DEF NotSeen

\* There are two attempts at least before a row is given up on.
LEMMA LimitsPositive ==
    /\ MAX_ATTEMPTS \in Nat /\ AttemptsCheck \in Nat /\ MaxFaults \in Nat
    /\ MAX_ATTEMPTS >= 2 /\ MAX_ATTEMPTS <= AttemptsCheck
  BY SMT

\* The initial state satisfies the inductive invariant: no row exists.
LEMMA InitIInv == Init => IInv
  <1> SUFFICES ASSUME Init PROVE IInv
    OBVIOUS
  <1> USE DEF Init
  <1>1. TypeOK
    <2>1. attempts \in [Events -> 0..AttemptsCheck] /\ delivered \in [Events -> 0..2]
      BY LimitsPositive
    <2>2. seen \in [Runs -> [Events -> [attempts : 0..AttemptsCheck, muted : BOOLEAN]]]
      BY NotSeenTyped
    <2>3. faults \in 0..MaxFaults
      BY LimitsPositive
    <2>4. status \in [Events -> Statuses] /\ hand \in [Runs -> Events \cup {None}]
      BY DEF Statuses
    <2>5. /\ pc \in [Runs -> {"idle", "rows", "accepted", "transient", "permanent"}]
          /\ batch \in [Runs -> SUBSET Events]
      OBVIOUS
    <2> QED BY <2>1, <2>2, <2>3, <2>4, <2>5 DEF TypeOK
  <1>2. \A r \in Runs : Held(r) = {}
    BY SMT DEF Held
  <1>3. HandsFull /\ HeldQueued /\ SoleHolder
    BY <1>2, SMT DEF HandsFull, HeldQueued, SoleHolder, AtHand
  <1>4. Accounted /\ AttemptsCounted
    BY <1>2, SMT DEF Accounted, AttemptsCounted
  <1> QED BY <1>1, <1>3, <1>4 DEF IInv

\* The invariant says nothing of what the user prefers.
LEMMA PrefsFree ==
    ASSUME IInv, UNCHANGED <<rows, runs, history>>,
           muted' \subseteq Events, quiet' \in BOOLEAN, faults' \in 0..MaxFaults
    PROVE  IInv'
  BY SMT DEF rows, runs, history, IInv, TypeOK, HandsFull, HeldQueued, SoleHolder,
     Accounted, AttemptsCounted, Held, AtHand, Overtaken, Statuses

\* A fault is counted within the bound.
LEMMA FaultCounted ==
    ASSUME TypeOK, NEW kind, Fault(kind) PROVE faults' \in 0..MaxFaults
  BY SMT DEF Fault, TypeOK

\* A type is switched off or on; quiet hours begin and end.
LEMMA StepPrefs ==
    ASSUME IInv, NEW e \in Events, TypePreference(e) \/ QuietStart \/ QuietEnd PROVE IInv'
  <1>1. UNCHANGED <<rows, runs, history>> /\ faults' \in 0..MaxFaults
    BY FaultCounted DEF IInv, TypeOK, TypePreference, QuietStart, QuietEnd
  <1>2. muted' \subseteq Events /\ quiet' \in BOOLEAN
    BY DEF IInv, TypeOK, TypePreference, QuietStart, QuietEnd
  <1> QED BY <1>1, <1>2, PrefsFree

\* A row is written with the change it announces: it is in no hand, has no message and
\* has all its attempts.
LEMMA StepEnqueue ==
    ASSUME IInv, NEW e \in Events, EnqueueNotification(e) PROVE IInv'
  <1> USE DEF IInv
  <1>0. CASE UNCHANGED rows
    BY <1>0, PrefsFree DEF EnqueueNotification, prefs, runs, history, TypeOK
  <1> SUFFICES ASSUME status[e] = "none", status' = [status EXCEPT ![e] = "queued"],
                      attempts' = [attempts EXCEPT ![e] = 0], due' = due \cup {e},
                      UNCHANGED <<prefs, runs, faults, history>>
               PROVE  IInv'
    BY <1>0 DEF EnqueueNotification, Fresh
  <1> USE DEF prefs, runs, history
  <1>1. TypeOK'
    BY SMT DEF TypeOK, Statuses
  <1>2. HandsFull' /\ HeldQueued' /\ SoleHolder'
    BY SMT DEF TypeOK, HandsFull, HeldQueued, SoleHolder, Held, AtHand, Overtaken
  <1>3. Accounted'
    <2>1. ASSUME NEW f \in Events \ doubted, f # e
          PROVE  status'[f] = status[f]
      BY <2>1, SMT DEF TypeOK
    <2>2. e \notin doubted => delivered[e] # 1
      <3>1. \A r \in Runs : hand[r] = e /\ e \notin doubted => status[e] = "queued"
        BY DEF HeldQueued, Held, Overtaken
      <3> QED BY <3>1, SMT DEF Accounted
    <2> QED BY <2>1, <2>2, SMT DEF Accounted, TypeOK
  <1>4. AttemptsCounted'
    <2>1. 0 + 1 < MAX_ATTEMPTS
      BY LimitsPositive, SMT
    <2>2. \A f \in Events : f # e => status'[f] = status[f] /\ attempts'[f] = attempts[f]
      BY SMT DEF TypeOK
    <2>3. attempts'[e] = 0
      BY SMT DEF TypeOK
    <2>4. \A r \in Runs : e \in Held(r) => e \in Overtaken
      BY DEF HeldQueued
    <2>5. \A r \in Runs : Held(r)' = Held(r)
      BY DEF Held
    <2> QED BY <2>1, <2>2, <2>3, <2>4, <2>5, SMT DEF AttemptsCounted, Overtaken
  <1> QED BY <1>1, <1>2, <1>3, <1>4

\* A backoff passes, or the end of the quiet hours.
LEMMA StepDue == ASSUME IInv, NEW e \in Events, ComesDue(e) PROVE IInv'
  BY SMT DEF ComesDue, prefs, runs, history, IInv, TypeOK, HandsFull, HeldQueued, SoleHolder, Accounted, AttemptsCounted,
     Held, AtHand, Overtaken, NotSeen, Statuses

\* A claim: of the rows it returns, those that are in a hand are overtaken, the others
\* were waiting with an attempt left.
LEMMA StepClaim == ASSUME IInv, NEW r \in Runs, ClaimNotifications(r) PROVE IInv'
  BY SMT DEF ClaimNotifications, Claimable, Pending, prefs, IInv, TypeOK, HandsFull, HeldQueued, SoleHolder, Accounted, AttemptsCounted,
     Held, AtHand, Overtaken, NotSeen, Statuses

\* A row of a type switched off is suppressed by the run that holds it.
LEMMA StepSuppress ==
    ASSUME IInv, NEW r \in Runs, NEW e \in Events, Suppress(r, e) PROVE IInv'
  BY SMT DEF Suppress, SuppressNotification, Rest, prefs, history, IInv, TypeOK, HandsFull, HeldQueued, SoleHolder, Accounted, AttemptsCounted,
     Held, AtHand, Overtaken, NotSeen, Statuses

\* A row put off goes back with the attempt its claim had counted.
LEMMA StepDefer == ASSUME IInv, NEW r \in Runs, NEW e \in Events, Defer(r, e) PROVE IInv'
  <1> USE DEF IInv, Defer, DeferNotification, Rest, prefs, history
  <1>1. TypeOK'
    <2>1. attempts' \in [Events -> 0..AttemptsCheck]
      <3>1. attempts[e] \in 0..AttemptsCheck
        BY DEF TypeOK
      <3>2. (IF attempts[e] = 0 THEN 0 ELSE attempts[e] - 1) \in 0..AttemptsCheck
        BY <3>1, LimitsPositive, SMT
      <3> QED BY <3>2 DEF TypeOK
    <2>2. seen' \in [Runs -> [Events -> [attempts : 0..AttemptsCheck, muted : BOOLEAN]]]
      BY NotSeenTyped, SMT DEF TypeOK
    <2> QED BY <2>1, <2>2, SMT DEF TypeOK
  <1>2. HandsFull' /\ HeldQueued' /\ SoleHolder'
    BY SMT DEF TypeOK, HandsFull, HeldQueued, SoleHolder, Held, AtHand, Overtaken
  <1>3. Accounted'
    BY SMT DEF TypeOK, Accounted, HandsFull, AtHand
  <1>4. AttemptsCounted'
    BY SMT DEF TypeOK, HandsFull, HeldQueued, SoleHolder, AttemptsCounted, Held, AtHand,
       Overtaken, NotSeen
  <1> QED BY <1>1, <1>2, <1>3, <1>4

\* A message goes out for a row that its run took out of its batch: nobody else holds
\* it and nothing was sent for it, or it is doubted.
LEMMA StepSend ==
    ASSUME IInv, NEW r \in Runs, NEW e \in Events, NEW a \in Answers, Send(r, e, a)
    PROVE  IInv'
  <1> USE DEF IInv
  <1>0. /\ e \in batch[r] /\ pc[r] = "rows" /\ hand[r] \notin Events
        /\ faults' \in 0..MaxFaults
    BY FaultCounted, SMT DEF Send, HandsFull, AtHand, TypeOK
  <1>1. /\ batch' = [batch EXCEPT ![r] = @ \ {e}] /\ hand' = [hand EXCEPT ![r] = e]
        /\ \E at \in AtHand : pc' = [pc EXCEPT ![r] = at]
        /\ doubted' = IF a = "lost" THEN doubted \cup {e} ELSE doubted
        /\ UNCHANGED <<rows, prefs, seen, spent>>
    BY DEF Send, Answers, AtHand
  <1>2. a \in {"accepted", "lost"} =>
          delivered' = IF delivered[e] < 2 THEN [delivered EXCEPT ![e] = @ + 1] ELSE delivered
    BY DEF Send
  <1>3. a = "accepted" => pc' = [pc EXCEPT ![r] = "accepted"]
    BY DEF Send
  <1>4. a \notin {"accepted", "lost"} => UNCHANGED delivered
    BY DEF Send
  <1>5. \A q \in Runs : Held(q)' = Held(q)
    BY <1>0, <1>1, SMT DEF Held, TypeOK
  <1>6. e \in Held(r)
    BY <1>0 DEF Held
  <1>7. TypeOK'
    <2>1. delivered' \in [Events -> 0..2]
      <3>1. delivered[e] \in 0..2 /\ (delivered[e] < 2 => delivered[e] + 1 \in 0..2)
        BY SMT DEF TypeOK
      <3> QED BY <1>2, <1>4, <3>1 DEF TypeOK
    <2> QED BY <1>0, <1>1, <2>1, SMT DEF TypeOK, AtHand, rows, prefs
  <1>8. HandsFull'
    BY <1>0, <1>1, SMT DEF HandsFull, TypeOK, AtHand
  <1>9. HeldQueued' /\ SoleHolder'
    BY <1>1, <1>5, SMT DEF HeldQueued, SoleHolder, Overtaken, rows
  <1>10. Accounted'
    <2>1. ASSUME NEW f \in Events \ doubted', f # e
          PROVE  /\ delivered'[f] <= 1
                 /\ delivered'[f] = 1 => \/ status'[f] \notin {"none", "queued"}
                                         \/ \E q \in Runs : hand'[q] = f /\ pc'[q] = "accepted"
      <3>1. delivered'[f] = delivered[f] /\ status'[f] = status[f] /\ f \notin doubted
        BY <1>1, <1>2, <1>4, <2>1, SMT DEF TypeOK, rows
      <3>2. \A q \in Runs : hand[q] = f /\ pc[q] = "accepted"
                            => hand'[q] = f /\ pc'[q] = "accepted"
        BY <1>0, <1>1, SMT DEF TypeOK
      <3> QED BY <3>1, <3>2 DEF Accounted
    <2>2. ASSUME e \notin doubted'
          PROVE  /\ delivered'[e] <= 1
                 /\ delivered'[e] = 1 => \E q \in Runs : hand'[q] = e /\ pc'[q] = "accepted"
      <3>1. e \notin doubted /\ a # "lost"
        BY <1>1, <2>2
      <3>2. \A q \in Runs : hand[q] = e => q = r
        BY <1>6, <3>1 DEF SoleHolder, Held, Overtaken
      <3>3. delivered[e] = 0
        <4>1. delivered[e] \in 0..2 /\ delivered[e] <= 1
          BY <3>1 DEF Accounted, TypeOK
        <4>2. status[e] = "queued"
          BY <1>6, <3>1 DEF HeldQueued, Overtaken
        <4>3. delivered[e] # 1
          BY <1>0, <3>1, <3>2, <4>2 DEF Accounted
        <4> QED BY <4>1, <4>3, SMT
      <3> QED BY <1>1, <1>2, <1>3, <1>4, <3>1, <3>3, SMTT(30) DEF TypeOK
    <2> QED BY <2>1, <2>2 DEF Accounted
  <1>11. AttemptsCounted'
    BY <1>1, <1>5, SMT DEF AttemptsCounted, rows
  <1> QED BY <1>7, <1>8, <1>9, <1>10, <1>11

\* The outcome of a message that arrived is written.
LEMMA StepSent == ASSUME IInv, NEW r \in Runs, Sent(r) PROVE IInv'
  BY SMT DEF Sent, MarkNotificationSent, Next_row, prefs, history,
     IInv, TypeOK, HandsFull, HeldQueued, SoleHolder, Accounted, AttemptsCounted,
     Held, AtHand, Overtaken, NotSeen, Statuses

\* That write fails: the event is doubted, and its run goes on to a retry.
LEMMA StepUnwritten == ASSUME IInv, NEW r \in Runs, SentUnwritten(r) PROVE IInv'
  BY SMT DEF SentUnwritten, Fault, rows, prefs, IInv, TypeOK, HandsFull, HeldQueued, SoleHolder, Accounted, AttemptsCounted,
     Held, AtHand, Overtaken, NotSeen, Statuses

\* A row that was not delivered is queued again with an attempt left, or given up on.
LEMMA StepFailed == ASSUME IInv, NEW r \in Runs, Failed(r) PROVE IInv'
  BY SMT DEF Failed, MarkNotificationFailed, GiveUp, Next_row, prefs, history,
     IInv, TypeOK, HandsFull, HeldQueued, SoleHolder, Accounted, AttemptsCounted,
     Held, AtHand, Overtaken, NotSeen, Statuses

\* A run that ends in the middle leaves its rows to the next claim, their attempts spent.
LEMMA StepDrop ==
    ASSUME IInv, NEW r \in Runs, Drop(r), faults' \in 0..MaxFaults PROVE IInv'
  BY SMT DEF Drop, rows, prefs, IInv, TypeOK, HandsFull, HeldQueued, SoleHolder, Accounted, AttemptsCounted,
     Held, AtHand, Overtaken, NotSeen, Statuses

\* Every step keeps the inductive invariant.
LEMMA Inductive == IInv /\ [Next]_vars => IInv'
  <1> SUFFICES ASSUME IInv, [Next]_vars PROVE IInv'
    OBVIOUS
  <1>1. CASE UNCHANGED vars
    BY <1>1, PrefsFree DEF vars, prefs, IInv, TypeOK
  <1>2. ASSUME NEW e \in Events,
               EnqueueNotification(e) \/ ComesDue(e) \/ TypePreference(e)
        PROVE  IInv'
    BY <1>2, StepEnqueue, StepDue, StepPrefs
  <1>3. ASSUME NEW r \in Runs, ClaimNotifications(r) \/ Deliver(r) PROVE IInv'
    <2>1. CASE \E e \in Events, a \in Answers \ {"lost"} : Send(r, e, a)
      BY <2>1, StepSend
    <2> QED BY <1>3, <2>1, StepClaim, StepSuppress, StepDefer, StepSent, StepFailed
            DEF Deliver
  <1>4. ASSUME NEW r \in Runs, SentUnwritten(r) \/ Crash(r) \/ Abort(r) PROVE IInv'
    <2>1. TypeOK
      BY DEF IInv
    <2> QED BY <1>4, <2>1, StepUnwritten, StepDrop, FaultCounted DEF Crash, Abort
  <1>5. ASSUME NEW r \in Runs, NEW e \in Events, Send(r, e, "lost") PROVE IInv'
    BY <1>5, StepSend DEF Answers
  <1>6. CASE QuietStart \/ QuietEnd
    <2>1. UNCHANGED <<rows, runs, history>> /\ faults' \in 0..MaxFaults
      BY <1>6, FaultCounted DEF IInv, TypeOK, QuietStart, QuietEnd
    <2>2. muted' \subseteq Events /\ quiet' \in BOOLEAN
      BY <1>6 DEF IInv, TypeOK, QuietStart, QuietEnd
    <2> QED BY <2>1, <2>2, PrefsFree
  <1> QED BY <1>1, <1>2, <1>3, <1>4, <1>5, <1>6 DEF Next

\* Every reachable state satisfies the inductive invariant.
LEMMA Invariant == Spec => []IInv
  BY InitIInv, Inductive, PTL DEF Spec

\* Every variable keeps its type.  It says that no claim takes a row's attempts past
\* the table's CHECK, and that no fault beyond the bound happens.
THEOREM TypeCorrect == Spec => []TypeOK
  <1>1. IInv => TypeOK
    BY DEF IInv
  <1> QED BY <1>1, Invariant, PTL

\* An event makes one message at most, whatever is retried, put off, dropped or run at
\* the same time, unless two runs held its row at once, Telegram's answer was lost or
\* the outcome was not written.
THEOREM DeliveredOnce == Spec => []DeliveredOnceUnlessInDoubt
  <1>1. IInv => DeliveredOnceUnlessInDoubt
    BY DEF IInv, Accounted, DeliveredOnceUnlessInDoubt
  <1> QED BY <1>1, Invariant, PTL

\* A row whose every attempt had an outcome is abandoned before its attempts reach the
\* limit: neither quiet hours nor retries take it to the table's CHECK.
THEOREM Abandoned == Spec => []AbandonedInTime
  <1>1. IInv => AbandonedInTime
    BY DEF IInv, AttemptsCounted, AbandonedInTime
  <1> QED BY <1>1, Invariant, PTL

-----------------------------------------------------------------------------
\* Quiet hours that begin before midnight end after it, for a day of any length: a minute is
\* quiet exactly when it is less far from the beginning than the end is (scheduler.ts).
THEOREM QuietHoursAlwaysWrap ==
  ASSUME NEW day \in Nat \ {0} PROVE QuietHoursWrap(day)
<1> SUFFICES ASSUME NEW from \in 0..(day - 1), NEW to \in 0..(day - 1), NEW now \in 0..(day - 1)
             PROVE  IsWithinQuietHours(now, from, to) <=> Within(now, from, to, day)
  BY DEF QuietHoursWrap
<1>1. ASSUME NEW x \in 0..(day - 1)
      PROVE  (x - from) % day = IF x >= from THEN x - from ELSE x - from + day
  <2>1. CASE x >= from
    <3>1. x - from \in 0..(day - 1)
      BY <2>1
    <3> QED BY <2>1, <3>1
  <2>2. CASE x < from
    <3>1. x - from + day \in 0..(day - 1)
      BY <2>2
    <3>2. (x - from) % day = (x - from + day) % day
      OBVIOUS
    <3> QED BY <2>2, <3>1, <3>2
  <2> QED BY <2>1, <2>2
<1>2. /\ (now - from) % day = IF now >= from THEN now - from ELSE now - from + day
      /\ (to - from) % day = IF to >= from THEN to - from ELSE to - from + day
  BY <1>1
<1> DEFINE a == (now - from) % day
           b == (to - from) % day
<1>3. Within(now, from, to, day) <=> a < b
  BY DEF Within
<1> HIDE DEF a, b
<1>4. /\ a = IF now >= from THEN now - from ELSE now - from + day
      /\ b = IF to >= from THEN to - from ELSE to - from + day
  BY <1>2 DEF a, b
<1> QED BY <1>3, <1>4 DEF IsWithinQuietHours

-----------------------------------------------------------------------------
(* An expected payment *)

\* A set of numbers has a least one.
LEMMA LeastNumber ==
    ASSUME NEW S, S \subseteq Nat, S # {}
    PROVE  \E i \in S : \A j \in S : i <= j
<1>1. PICK i \in S : \A j \in S : <<j, i>> \notin OpToRel(<, Nat)
  BY WFMin, NatLessThanWellFounded
<1>2. ASSUME NEW j \in S PROVE i <= j
  <2>1. <<j, i>> \notin {ss \in Nat \X Nat : ss[1] < ss[2]}
    BY <1>1 DEF OpToRel
  <2>2. i \in Nat /\ j \in Nat
    OBVIOUS
  <2> QED BY <2>1, <2>2
<1> QED BY <1>2

\* Half days at which the worker may sweep and the user move the date, either way.
IncomeDays == [swept : BOOLEAN, moved : Int]

\* The rows an expected payment goes through.
IncomeAlong(date, days, f) ==
    f = [t \in 0..Len(days) |->
            IF t = 0 THEN NewIncome(date) ELSE HalfDay(f[t - 1], days[t], t)]

\* Every history can be followed to its end.
LEMMA IncomeAlongExists ==
  ASSUME NEW date, NEW days \in Seq(IncomeDays)
  PROVE  \E f : IncomeAlong(date, days, f)
<1> DEFINE Upon(f, t) == IF t = 0 THEN NewIncome(date) ELSE HalfDay(f[t - 1], days[t], t)
           Starts(k) == \E f : f = [t \in 0..k |-> Upon(f, t)]
           Bad == {k \in Nat : ~Starts(k)}
<1>1. ASSUME Bad # {} PROVE FALSE
  <2>1. PICK k \in Bad : \A j \in Bad : k <= j
    <3> HIDE DEF Bad
    <3>1. Bad \subseteq Nat
      BY DEF Bad
    <3> QED BY <1>1, <3>1, LeastNumber
  <2>2. CASE k = 0
    <3> DEFINE f == [t \in 0..0 |-> NewIncome(date)]
    <3>1. f = [t \in 0..0 |-> Upon(f, t)]
      OBVIOUS
    <3>2. Starts(0)
      BY <3>1
    <3> QED BY <2>2, <3>2
  <2>3. CASE k # 0
    <3>1. k \in Nat /\ k - 1 \in Nat /\ ~ (k <= k - 1)
      BY <2>3
    <3>2. Starts(k - 1)
      BY <2>1, <3>1
    <3>3. PICK g : g = [t \in 0..(k - 1) |-> Upon(g, t)]
      BY <3>2
    <3> DEFINE last == Upon(g, k)
               f == [t \in 0..k |-> IF t = k THEN last ELSE g[t]]
    <3> HIDE DEF last
    <3>4. f[k] = Upon(g, k) /\ \A t \in 0..(k - 1) : f[t] = g[t] /\ g[t] = Upon(g, t)
      <4>1. \A t \in 0..(k - 1) : t \in 0..k /\ t # k
        BY <3>1
      <4>2. f[k] = last /\ \A t \in 0..(k - 1) : f[t] = g[t]
        BY <3>1, <4>1
      <4>3. \A t \in 0..(k - 1) : g[t] = Upon(g, t)
        BY <3>3
      <4> QED BY <4>2, <4>3 DEF last
    <3>5. ASSUME NEW t \in 0..k PROVE f[t] = Upon(f, t)
      <4>1. t # 0 => t - 1 \in 0..(k - 1)
        BY <3>1
      <4>2. t # 0 => f[t - 1] = g[t - 1]
        BY <3>4, <4>1
      <4>3. f[t] = Upon(g, t)
        <5>1. t = k \/ t \in 0..(k - 1)
          BY <3>1
        <5> HIDE DEF f
        <5> QED BY <3>4, <5>1
      <4>4. Upon(f, t) = Upon(g, t)
        <5> HIDE DEF f
        <5> QED BY <4>2
      <4> QED BY <4>3, <4>4
    <3>6. f = [t \in 0..k |-> Upon(f, t)]
      BY <3>5
    <3> HIDE DEF f
    <3>7. Starts(k)
      BY <3>6
    <3> QED BY <3>7
  <2> QED BY <2>2, <2>3
<1>2. Starts(Len(days))
  <2>1. Len(days) \in Nat
    OBVIOUS
  <2>2. \A k \in Nat : Starts(k)
    BY <1>1
  <2> HIDE DEF Starts
  <2> QED BY <2>1, <2>2
<1> QED BY <1>2 DEF IncomeAlong

\* What is queued for a payment after t half days: nothing later than the mark, and
\* nothing too soon.
Incomes(t) ==
    [date : Int, reminded : {Never} \cup 1..t, overdueAt : {Never} \cup 1..t,
     keys : SUBSET ({"due", "overdue"} \X Int), due : Seq(Nat), overdue : Seq(Nat)]
Marked(row) == \A i \in DOMAIN row.overdue : row.overdue[i] <= row.overdueAt

\* The stretch of three days after a date that a half day falls in.
Slot(t, date) == (DayOf(t) - date) \div 3

\* Of one that is never moved, the keys tell what was queued up to when, and every
\* sweep while it is overdue has left a message that is not old.
DueHeard(row, date, days, t) ==
    /\ row.reminded # Never <=> \E u \in 1..t : days[u].swept /\ DayOf(u) >= date
    /\ Len(row.due) = IF row.reminded = Never THEN 0 ELSE 1
KeysTell(row, date) ==
    \A key \in row.keys :
        \/ key[1] = "due" /\ row.reminded # Never
        \/ key[1] = "overdue" /\ row.overdueAt # Never /\ key[2] <= Slot(row.overdueAt, date)
OverdueHeard(row, date, days, t) ==
    /\ row.overdueAt # Never => \E i \in DOMAIN row.overdue : row.overdue[i] = row.overdueAt
    /\ \A u \in 1..t : days[u].swept /\ DayOf(u) > date =>
         \E i \in DOMAIN row.overdue : row.overdue[i] \in (u - Period * HalfDays)..u

Unmoved(days, t) == \A u \in 1..t : days[u].moved = 0

Heard(row, date, days, t) ==
    /\ row \in Incomes(t) /\ Marked(row) /\ Spaced(row.overdue)
    /\ Unmoved(days, t) =>
         /\ row.date = date
         /\ DueHeard(row, date, days, t)
         /\ KeysTell(row, date)
         /\ OverdueHeard(row, date, days, t)

\* A message more than three days after all the others keeps them apart.
LEMMA AppendSpaced ==
  ASSUME NEW times \in Seq(Nat), NEW last \in Int, NEW t \in Nat,
         \A i \in DOMAIN times : times[i] <= last, Spaced(times), times = <<>> \/ t - last > 6
  PROVE  /\ Append(times, t) \in Seq(Nat) /\ Spaced(Append(times, t))
         /\ last <= t => \A i \in DOMAIN Append(times, t) : Append(times, t)[i] <= t
<1> DEFINE new == Append(times, t)
           n == Len(times)
<1>1. /\ n \in Nat /\ DOMAIN new = 1..(n + 1) /\ DOMAIN times = 1..n /\ Len(new) = n + 1
      /\ new[n + 1] = t /\ \A i \in 1..n : new[i] = times[i] /\ times[i] \in Nat
      /\ new \in Seq(Nat)
  OBVIOUS
<1> HIDE DEF new, n
<1>2. ASSUME NEW i \in 1..(Len(new) - 1) PROVE new[i + 1] - new[i] > Period * HalfDays
  <2>1. CASE i = n
    <3>1. n \in 1..n
      BY <1>1, <2>1
    <3>2. times # <<>> /\ times[n] <= last /\ t - last > 6
      <4>1. times # <<>>
        BY <3>1 DEF n
      <4> QED BY <1>1, <3>1, <4>1
    <3>3. new[i + 1] = t /\ new[i] = times[n] /\ times[n] \in Nat
      BY <1>1, <2>1, <3>1
    <3>4. Period * HalfDays = 6
      BY DEF Period, HalfDays
    <3> QED BY <3>2, <3>3, <3>4
  <2>2. CASE i # n
    <3>1. i \in 1..(n - 1) /\ i \in 1..n /\ i + 1 \in 1..n
      BY <1>1, <2>2
    <3>2. times[i + 1] - times[i] > Period * HalfDays
      BY <3>1 DEF Spaced, n
    <3> QED BY <1>1, <3>1, <3>2
  <2> QED BY <2>1, <2>2
<1>3. last <= t => \A i \in DOMAIN new : new[i] <= t
  BY <1>1
<1> QED BY <1>1, <1>2, <1>3 DEF Spaced, new

\* Later half days are of no earlier days, and after three days of a later stretch.
LEMMA Days ==
  ASSUME NEW t \in Int, NEW u \in Int, NEW date \in Int
  PROVE  /\ DayOf(t) \in Int
         /\ t <= u => DayOf(t) <= DayOf(u)
         /\ u < t - 6 => Slot(u, date) < Slot(t, date)
         /\ Slot(t, date) \in Int /\ Slot(u, date) \in Int
BY DEF DayOf, HalfDays, Slot

\* What moving the date does.
LEMMA MoveKeeps ==
  ASSUME NEW date \in Int, NEW days \in Seq(IncomeDays), NEW t \in 1..Len(days), NEW row,
         Heard(row, date, days, t - 1)
  PROVE  LET moved == Postpone(row, days[t].moved)
         IN  /\ moved \in Incomes(t - 1) /\ Marked(moved) /\ Spaced(moved.overdue)
             /\ Unmoved(days, t) =>
                  /\ moved.date = date
                  /\ DueHeard(moved, date, days, t - 1)
                  /\ KeysTell(moved, date)
                  /\ OverdueHeard(moved, date, days, t - 1)
<1> DEFINE moved == Postpone(row, days[t].moved)
<1>1. t \in Nat /\ t - 1 \in Nat /\ days[t].moved \in Int
  <2>1. days[t] \in IncomeDays
    OBVIOUS
  <2> QED BY <2>1 DEF IncomeDays
<1>2. row \in Incomes(t - 1)
  BY DEF Heard
<1>3. /\ moved \in Incomes(t - 1) /\ moved.date = row.date + days[t].moved
      /\ moved.reminded = row.reminded /\ moved.overdueAt = row.overdueAt
      /\ moved.keys = row.keys /\ moved.due = row.due /\ moved.overdue = row.overdue
  <2> DEFINE by == days[t].moved
  <2>1. by \in Int
    BY <1>1
  <2> HIDE DEF by
  <2>2. LET new == [row EXCEPT !.date = @ + by]
        IN  /\ new \in Incomes(t - 1) /\ new.date = row.date + by
            /\ new.reminded = row.reminded /\ new.overdueAt = row.overdueAt
            /\ new.keys = row.keys /\ new.due = row.due /\ new.overdue = row.overdue
    <3>1. row \in [date : Int, reminded : {Never} \cup 1..(t - 1), overdueAt : {Never} \cup 1..(t - 1),
                   keys : SUBSET ({"due", "overdue"} \X Int), due : Seq(Nat), overdue : Seq(Nat)]
      BY <1>2 DEF Incomes
    <3>2. [row EXCEPT !.date = @ + by] =
            [date |-> row.date + by, reminded |-> row.reminded, overdueAt |-> row.overdueAt,
             keys |-> row.keys, due |-> row.due, overdue |-> row.overdue]
      <4> DEFINE A == {Never} \cup 1..(t - 1)
                 B == SUBSET ({"due", "overdue"} \X Int)
                 C == Seq(Nat)
      <4>1. row \in [date : Int, reminded : A, overdueAt : A, keys : B, due : C, overdue : C]
        BY <3>1
      <4> DEFINE d == row.date + by
      <4> HIDE DEF A, B, C, d
      <4>2. [row EXCEPT !.date = d] =
              [date |-> d, reminded |-> row.reminded, overdueAt |-> row.overdueAt,
               keys |-> row.keys, due |-> row.due, overdue |-> row.overdue]
        BY <4>1
      <4> QED BY <4>2 DEF d
    <3>3. row.date + by \in Int
      BY <2>1, <3>1
    <3> QED BY <3>1, <3>2, <3>3 DEF Incomes
  <2> QED BY <2>2 DEF Postpone, by
<1> HIDE DEF moved
<1>4. Unmoved(days, t) => Unmoved(days, t - 1) /\ days[t].moved = 0
  BY <1>1 DEF Unmoved
<1>5. row.date \in Int
  BY <1>2 DEF Incomes
<1>6. Unmoved(days, t) => moved.date = date
  BY <1>3, <1>4, <1>5 DEF Heard
<1> QED BY <1>3, <1>4, <1>6 DEF Heard, Marked, DueHeard, KeysTell, OverdueHeard, moved

\* What the sweep of what is due does.
LEMMA DueKeeps ==
  ASSUME NEW date \in Int, NEW t \in Nat \ {0}, NEW row \in Incomes(t - 1), NEW next,
         next = RemindExpectedIncome(row, t)
  PROVE  /\ next \in Incomes(t) /\ next.date = row.date /\ next.overdue = row.overdue
         /\ next.overdueAt = row.overdueAt
         /\ next.reminded # Never <=> row.reminded # Never \/ DayOf(t) >= row.date
         /\ KeysTell(row, row.date) /\ Len(row.due) = (IF row.reminded = Never THEN 0 ELSE 1) =>
              /\ KeysTell(next, row.date)
              /\ Len(next.due) = IF next.reminded = Never THEN 0 ELSE 1
<1> DEFINE key == <<"due", row.date>>
<1>1. /\ row.date \in Int /\ row.reminded \in {Never} \cup 1..(t - 1) /\ row.due \in Seq(Nat)
      /\ row.overdueAt \in {Never} \cup 1..(t - 1) /\ row.overdue \in Seq(Nat)
      /\ row.keys \in SUBSET ({"due", "overdue"} \X Int)
  BY DEF Incomes
<1>2. /\ {Never} \cup 1..(t - 1) \subseteq {Never} \cup 1..t /\ t \in {Never} \cup 1..t /\ t # Never
      /\ t \in Nat
  BY DEF Never
<1>3. CASE ~DueListed(row, t)
  <2>1. next = row
    BY <1>3 DEF RemindExpectedIncome
  <2>2. row \in Incomes(t)
    BY <1>2 DEF Incomes
  <2> QED BY <1>3, <2>1, <2>2 DEF DueListed
<1>4. CASE DueListed(row, t)
  <2>1. next = [date |-> row.date, reminded |-> t, overdueAt |-> row.overdueAt,
                keys |-> row.keys \cup {key}, due |-> Queue(row, key, row.due, t),
                overdue |-> row.overdue]
    BY <1>4 DEF RemindExpectedIncome
  <2>2. Queue(row, key, row.due, t) \in Seq(Nat) /\ row.keys \cup {key} \in SUBSET ({"due", "overdue"} \X Int)
    BY <1>1, <1>2 DEF Queue
  <2>3. next \in Incomes(t)
    BY <1>1, <1>2, <2>1, <2>2 DEF Incomes
  <2>4. /\ next.date = row.date /\ next.overdue = row.overdue /\ next.overdueAt = row.overdueAt
        /\ next.reminded = t /\ next.keys = row.keys \cup {key} /\ next.due = Queue(row, key, row.due, t)
    BY <2>1
  <2>5. DayOf(t) >= row.date /\ row.reminded = Never
    BY <1>4 DEF DueListed
  <2>6. ASSUME KeysTell(row, row.date), Len(row.due) = 0
        PROVE  KeysTell(next, row.date) /\ Len(next.due) = 1
    <3>1. key \notin row.keys
      BY <2>5, <2>6 DEF KeysTell
    <3>2. Len(next.due) = 1
      BY <1>1, <1>2, <2>4, <2>6, <3>1 DEF Queue
    <3>3. KeysTell(next, row.date)
      BY <1>2, <2>4, <2>6 DEF KeysTell
    <3> QED BY <3>2, <3>3
  <2> QED BY <1>2, <2>3, <2>4, <2>5, <2>6
<1> QED BY <1>3, <1>4

\* What the sweep of what is overdue does.
LEMMA OverdueKeeps ==
  ASSUME NEW t \in Nat \ {0}, NEW row \in Incomes(t), row.overdueAt \in {Never} \cup 1..(t - 1),
         Marked(row), Spaced(row.overdue), NEW next, next = RemindOverdueIncome(row, t)
  PROVE  /\ next \in Incomes(t) /\ next.date = row.date /\ next.due = row.due
         /\ next.reminded = row.reminded /\ Marked(next) /\ Spaced(next.overdue)
         /\ \A i \in DOMAIN row.overdue : i \in DOMAIN next.overdue /\ next.overdue[i] = row.overdue[i]
         /\ KeysTell(row, row.date)
            /\ (row.overdueAt # Never => \E i \in DOMAIN row.overdue : row.overdue[i] = row.overdueAt) =>
              /\ KeysTell(next, row.date)
              /\ next.overdueAt # Never => \E i \in DOMAIN next.overdue : next.overdue[i] = next.overdueAt
              /\ DayOf(t) > row.date => next.overdueAt # Never /\ next.overdueAt \in (t - 6)..t
<1> DEFINE b == Bucket(row, t)
           key == <<"overdue", b>>
<1>1. /\ row.date \in Int /\ row.reminded \in {Never} \cup 1..t /\ row.due \in Seq(Nat)
      /\ row.overdue \in Seq(Nat) /\ row.keys \in SUBSET ({"due", "overdue"} \X Int)
      /\ row.overdueAt \in Int /\ (row.overdueAt # Never => row.overdueAt <= t)
  BY DEF Incomes, Never
<1>2. b = Slot(t, row.date) /\ b \in Int /\ DayOf(t) \in Int
  <2>1. t \in Int
    OBVIOUS
  <2> QED BY <1>1, <2>1, Days DEF Bucket, Slot
<1>3. CASE ~OverdueListed(row, t)
  <2>1. next = row
    BY <1>3 DEF RemindOverdueIncome
  <2>2. DayOf(t) > row.date => row.overdueAt # Never /\ ~ (row.overdueAt < t - 6)
    BY <1>1, <1>2, <1>3 DEF OverdueListed, Period, HalfDays
  <2>3. DayOf(t) > row.date => row.overdueAt \in (t - 6)..t
    BY <1>1, <2>2
  <2> QED BY <2>1, <2>2, <2>3
<1>4. CASE OverdueListed(row, t)
  <2>1. next = [date |-> row.date, reminded |-> row.reminded, overdueAt |-> t,
                keys |-> row.keys \cup {key}, due |-> row.due,
                overdue |-> Queue(row, key, row.overdue, t)]
    BY <1>4 DEF RemindOverdueIncome
  <2>2. /\ next.date = row.date /\ next.due = row.due /\ next.reminded = row.reminded
        /\ next.overdueAt = t /\ next.keys = row.keys \cup {key}
        /\ next.overdue = Queue(row, key, row.overdue, t)
    BY <2>1
  <2>3. row.overdueAt = Never \/ row.overdueAt < t - 6
    BY <1>4 DEF OverdueListed, Period, HalfDays
  <2>4. row.overdue = <<>> \/ t - row.overdueAt > 6
    <3>1. ASSUME row.overdueAt = Never PROVE row.overdue = <<>>
      <4>1. ASSUME row.overdue # <<>> PROVE FALSE
        <5>1. 1 \in DOMAIN row.overdue /\ row.overdue[1] \in Nat
          BY <1>1, <4>1
        <5>2. row.overdue[1] <= -1
          BY <3>1, <5>1 DEF Marked, Never
        <5> QED BY <5>1, <5>2
      <4> QED BY <4>1
    <3> QED BY <1>1, <2>3, <3>1
  <2>5. \A i \in DOMAIN row.overdue : row.overdue[i] <= row.overdueAt
    BY DEF Marked
  <2>6. /\ Append(row.overdue, t) \in Seq(Nat) /\ Spaced(Append(row.overdue, t))
        /\ \A i \in DOMAIN Append(row.overdue, t) : Append(row.overdue, t)[i] <= t
    <3>1. row.overdueAt <= t /\ t \in Nat
      BY <1>1 DEF Never
    <3> QED BY <1>1, <2>4, <2>5, <3>1, AppendSpaced
  <2>7. \A i \in DOMAIN row.overdue : row.overdue[i] <= t
    BY <1>1, <2>5 DEF Never
  <2>8. next.overdue = row.overdue \/ next.overdue = Append(row.overdue, t)
    BY <2>2 DEF Queue
  <2>9. /\ next.overdue \in Seq(Nat) /\ Spaced(next.overdue)
        /\ \A i \in DOMAIN next.overdue : next.overdue[i] <= next.overdueAt
        /\ \A i \in DOMAIN row.overdue : i \in DOMAIN next.overdue /\ next.overdue[i] = row.overdue[i]
    <3>1. \A i \in DOMAIN row.overdue : i \in DOMAIN Append(row.overdue, t)
                                        /\ Append(row.overdue, t)[i] = row.overdue[i]
      BY <1>1
    <3> QED BY <1>1, <2>2, <2>6, <2>7, <2>8, <3>1
  <2>10. next \in Incomes(t)
    <3>1. row.keys \cup {key} \in SUBSET ({"due", "overdue"} \X Int) /\ t \in {Never} \cup 1..t
      BY <1>1, <1>2
    <3> DEFINE keys == row.keys \cup {key}
               overdue == Queue(row, key, row.overdue, t)
    <3>2. overdue \in Seq(Nat)
      BY <2>2, <2>9
    <3> HIDE DEF keys, overdue
    <3>3. next = [date |-> row.date, reminded |-> row.reminded, overdueAt |-> t,
                  keys |-> keys, due |-> row.due, overdue |-> overdue]
      BY <2>1 DEF keys, overdue
    <3> QED BY <1>1, <3>1, <3>2, <3>3 DEF Incomes, keys
  <2>11. ASSUME KeysTell(row, row.date) PROVE key \notin row.keys
    <3>1. SUFFICES ASSUME key \in row.keys PROVE FALSE
      OBVIOUS
    <3>2. row.overdueAt # Never /\ b <= Slot(row.overdueAt, row.date)
      <4>1. key[1] = "overdue" /\ key[2] = b
        OBVIOUS
      <4> QED BY <2>11, <3>1, <4>1 DEF KeysTell
    <3>3. row.overdueAt < t - 6
      BY <2>3, <3>2
    <3>4. Slot(row.overdueAt, row.date) < b /\ Slot(row.overdueAt, row.date) \in Int
      <4>1. t \in Int
        OBVIOUS
      <4>2. row.overdueAt \in Int /\ row.date \in Int
        BY <1>1
      <4>3. Slot(row.overdueAt, row.date) < Slot(t, row.date) /\ Slot(row.overdueAt, row.date) \in Int
        BY <3>3, <4>1, <4>2, Days
      <4> QED BY <1>2, <4>3
    <3> QED BY <1>2, <3>2, <3>4
  <2>12. ASSUME KeysTell(row, row.date) PROVE KeysTell(next, row.date)
    <3>1. ASSUME NEW k \in row.keys
          PROVE  \/ k[1] = "due" /\ next.reminded # Never
                 \/ k[1] = "overdue" /\ next.overdueAt # Never /\ k[2] <= Slot(next.overdueAt, row.date)
      <4>1. CASE k[1] = "due" /\ row.reminded # Never
        BY <2>2, <4>1
      <4>2. CASE /\ k[1] = "overdue" /\ row.overdueAt # Never
                 /\ k[2] <= Slot(row.overdueAt, row.date)
        <5>1. row.overdueAt < t - 6 /\ k[2] \in Int
          BY <1>1, <2>3, <4>2
        <5>2. Slot(row.overdueAt, row.date) < b /\ Slot(row.overdueAt, row.date) \in Int
          <6>1. t \in Int
            OBVIOUS
          <6>2. row.overdueAt \in Int /\ row.date \in Int
            BY <1>1
          <6>3. Slot(row.overdueAt, row.date) < Slot(t, row.date) /\ Slot(row.overdueAt, row.date) \in Int
            BY <5>1, <6>1, <6>2, Days
          <6> QED BY <1>2, <6>3
        <5>3. k[2] <= b
          BY <1>2, <4>2, <5>1, <5>2
        <5> QED BY <1>2, <2>2, <4>2, <5>3 DEF Never
      <4> QED BY <2>12, <4>1, <4>2 DEF KeysTell
    <3>2. key[1] = "overdue" /\ key[2] = b
      OBVIOUS
    <3>3. next.overdueAt = t /\ t # Never /\ b <= b
      BY <1>2, <2>2 DEF Never
    <3>4. b <= Slot(t, row.date)
      BY <1>2, <3>3
    <3> HIDE DEF key, b
    <3> QED BY <2>2, <3>1, <3>2, <3>3, <3>4 DEF KeysTell
  <2>13. ASSUME KeysTell(row, row.date)
         PROVE  \E i \in DOMAIN next.overdue : next.overdue[i] = next.overdueAt
    <3>1. next.overdue = Append(row.overdue, t)
      BY <2>2, <2>11, <2>13 DEF Queue
    <3>2. Len(row.overdue) + 1 \in DOMAIN Append(row.overdue, t)
          /\ Append(row.overdue, t)[Len(row.overdue) + 1] = t
      BY <1>1
    <3> QED BY <2>2, <3>1, <3>2
  <2>14. next.overdueAt # Never /\ next.overdueAt \in (t - 6)..t
    BY <2>2 DEF Never
  <2> HIDE DEF key, b
  <2> QED BY <2>2, <2>9, <2>10, <2>12, <2>13, <2>14 DEF Marked
<1> QED BY <1>3, <1>4

\* A half day keeps what is known.
LEMMA HalfDayKeeps ==
  ASSUME NEW date \in Int, NEW days \in Seq(IncomeDays), NEW t \in 1..Len(days), NEW row,
         Heard(row, date, days, t - 1)
  PROVE  Heard(HalfDay(row, days[t], t), date, days, t)
<1> DEFINE moved == Postpone(row, days[t].moved)
           told   == RemindExpectedIncome(moved, t)
           next  == RemindOverdueIncome(told, t)
<1>1. /\ moved \in Incomes(t - 1) /\ Marked(moved) /\ Spaced(moved.overdue)
      /\ Unmoved(days, t) =>
           /\ moved.date = date
           /\ DueHeard(moved, date, days, t - 1)
           /\ KeysTell(moved, date)
           /\ OverdueHeard(moved, date, days, t - 1)
  BY MoveKeeps
<1> HIDE DEF moved
<1>2. t \in Nat \ {0} /\ 1..t = 1..(t - 1) \cup {t} /\ t \in Int
  OBVIOUS
<1>3. CASE ~days[t].swept
  <2>1. HalfDay(row, days[t], t) = moved
    BY <1>3 DEF HalfDay, moved
  <2>2. moved \in Incomes(t)
    BY <1>1, <1>2 DEF Incomes
  <2>3. /\ DueHeard(moved, date, days, t - 1) => DueHeard(moved, date, days, t)
        /\ OverdueHeard(moved, date, days, t - 1) => OverdueHeard(moved, date, days, t)
    BY <1>2, <1>3 DEF DueHeard, OverdueHeard
  <2> QED BY <1>1, <2>1, <2>2, <2>3 DEF Heard
<1>4. CASE days[t].swept
  <2>1. HalfDay(row, days[t], t) = next
    BY <1>4 DEF HalfDay, Sweep, moved
  <2>2. moved.date \in Int /\ moved.overdueAt \in {Never} \cup 1..(t - 1)
    BY <1>1 DEF Incomes
  <2>3. /\ told \in Incomes(t) /\ told.date = moved.date /\ told.overdue = moved.overdue
        /\ told.overdueAt = moved.overdueAt
        /\ told.reminded # Never <=> moved.reminded # Never \/ DayOf(t) >= moved.date
        /\ KeysTell(moved, moved.date) /\ Len(moved.due) = (IF moved.reminded = Never THEN 0 ELSE 1) =>
             /\ KeysTell(told, moved.date)
             /\ Len(told.due) = IF told.reminded = Never THEN 0 ELSE 1
    BY <1>1, <1>2, DueKeeps
  <2> HIDE DEF told
  <2>4. Marked(told) /\ Spaced(told.overdue) /\ told.overdueAt \in {Never} \cup 1..(t - 1)
    BY <1>1, <2>2, <2>3 DEF Marked
  <2>5. /\ next \in Incomes(t) /\ next.date = told.date /\ next.due = told.due
        /\ next.reminded = told.reminded /\ Marked(next) /\ Spaced(next.overdue)
        /\ \A i \in DOMAIN told.overdue : i \in DOMAIN next.overdue /\ next.overdue[i] = told.overdue[i]
        /\ KeysTell(told, told.date)
           /\ (told.overdueAt # Never => \E i \in DOMAIN told.overdue : told.overdue[i] = told.overdueAt) =>
             /\ KeysTell(next, told.date)
             /\ next.overdueAt # Never => \E i \in DOMAIN next.overdue : next.overdue[i] = next.overdueAt
             /\ DayOf(t) > told.date => next.overdueAt # Never /\ next.overdueAt \in (t - 6)..t
    BY <1>2, <2>3, <2>4, OverdueKeeps
  <2> HIDE DEF next
  <2>6. ASSUME Unmoved(days, t)
        PROVE  /\ next.date = date
               /\ DueHeard(next, date, days, t)
               /\ KeysTell(next, date)
               /\ OverdueHeard(next, date, days, t)
    <3>1. /\ moved.date = date /\ KeysTell(moved, date)
          /\ DueHeard(moved, date, days, t - 1) /\ OverdueHeard(moved, date, days, t - 1)
      BY <1>1, <2>6
    <3>2. KeysTell(told, date) /\ Len(told.due) = IF told.reminded = Never THEN 0 ELSE 1
      BY <2>3, <3>1 DEF DueHeard
    <3>3. told.overdueAt # Never => \E i \in DOMAIN told.overdue : told.overdue[i] = told.overdueAt
      BY <2>3, <3>1 DEF OverdueHeard
    <3>4. /\ next.date = date /\ KeysTell(next, date)
          /\ next.overdueAt # Never => \E i \in DOMAIN next.overdue : next.overdue[i] = next.overdueAt
          /\ DayOf(t) > date => next.overdueAt # Never /\ next.overdueAt \in (t - 6)..t
      BY <2>3, <2>5, <3>1, <3>2, <3>3
    <3>5. DueHeard(next, date, days, t)
      <4>1. told.reminded # Never <=> \E u \in 1..t : days[u].swept /\ DayOf(u) >= date
        BY <1>2, <1>4, <2>3, <3>1 DEF DueHeard
      <4> QED BY <2>5, <3>2, <4>1 DEF DueHeard
    <3>6. ASSUME NEW u \in 1..t, days[u].swept, DayOf(u) > date
          PROVE  \E i \in DOMAIN next.overdue : next.overdue[i] \in (u - Period * HalfDays)..u
      <4>1. CASE u = t
        <5>1. Period * HalfDays = 6
          BY DEF Period, HalfDays
        <5> QED BY <3>4, <3>6, <4>1, <5>1
      <4>2. CASE u # t
        <5>1. u \in 1..(t - 1)
          BY <1>2, <4>2
        <5>2. PICK i \in DOMAIN moved.overdue : moved.overdue[i] \in (u - Period * HalfDays)..u
          BY <3>1, <3>6, <5>1 DEF OverdueHeard
        <5> QED BY <2>3, <2>5, <5>2
      <4> QED BY <4>1, <4>2
    <3> QED BY <3>4, <3>5, <3>6 DEF OverdueHeard
  <2> QED BY <2>1, <2>5, <2>6 DEF Heard
<1> QED BY <1>3, <1>4

\* However the sweeps fall and however often, and which way, the user moves the date: two
\* overdue messages are more than three days apart.  If it is never moved, it is announced
\* once when due, and while it is overdue no sweep leaves the user more than three days
\* without a word (services/reminders.ts, planning.ts).
THEOREM RemindersAlwaysRegular ==
  ASSUME NEW dates \in SUBSET Int, NEW histories \in SUBSET Seq(IncomeDays)
  PROVE  RemindersRegular(dates, histories)
<1> SUFFICES ASSUME NEW date \in dates, NEW days \in histories
             PROVE  LET row   == AfterHistory(date, days)
                        swept == {t \in DOMAIN days : days[t].swept}
                    IN  /\ Spaced(row.overdue)
                        /\ (\A t \in DOMAIN days : days[t].moved = 0) =>
                             /\ Len(row.due) = IF \E t \in swept : DayOf(t) >= date THEN 1 ELSE 0
                             /\ Silences(row, date, days) = {}
  BY DEF RemindersRegular
<1> DEFINE f == CHOOSE g : IncomeAlong(date, days, g)
           N == Len(days)
           Bad == {t \in Nat : t <= N /\ ~Heard(f[t], date, days, t)}
<1>1. date \in Int /\ days \in Seq(IncomeDays) /\ N \in Nat /\ DOMAIN days = 1..N
  OBVIOUS
<1>2. IncomeAlong(date, days, f)
  BY <1>1, IncomeAlongExists
<1>3. AfterHistory(date, days) = f[N]
  BY DEF AfterHistory, IncomeAlong
<1> HIDE DEF f
<1>4. f[0] = NewIncome(date) /\ \A t \in 1..N : f[t] = HalfDay(f[t - 1], days[t], t)
  <2>1. 0 \in 0..N /\ \A t \in 1..N : t \in 0..N /\ t # 0
    BY <1>1
  <2>2. f = [t \in 0..N |-> IF t = 0 THEN NewIncome(date) ELSE HalfDay(f[t - 1], days[t], t)]
    BY <1>2 DEF IncomeAlong
  <2> QED BY <2>1, <2>2
<1>5. Heard(f[0], date, days, 0)
  <2> DEFINE row == NewIncome(date)
  <2>1. /\ row.date = date /\ row.reminded = Never /\ row.overdueAt = Never
        /\ row.keys = {} /\ row.due = <<>> /\ row.overdue = <<>>
    BY DEF NewIncome
  <2>2. row \in Incomes(0)
    <3>1. <<>> \in Seq(Nat) /\ {} \in SUBSET ({"due", "overdue"} \X Int) /\ Never \in {Never} \cup 1..0
      OBVIOUS
    <3> QED BY <1>1, <3>1 DEF Incomes, NewIncome
  <2> HIDE DEF row
  <2>3. DOMAIN <<>> = {} /\ Len(<<>>) = 0 /\ 1..0 = {} /\ 1..(0 - 1) = {}
    OBVIOUS
  <2>4. Marked(row) /\ Spaced(row.overdue)
    BY <2>1, <2>3 DEF Marked, Spaced
  <2>5. DueHeard(row, date, days, 0) /\ KeysTell(row, date) /\ OverdueHeard(row, date, days, 0)
    BY <2>1, <2>3 DEF DueHeard, KeysTell, OverdueHeard
  <2> QED BY <1>4, <2>1, <2>2, <2>4, <2>5 DEF Heard, row
<1>6. ASSUME Bad # {} PROVE FALSE
  <2>1. PICK t \in Bad : \A j \in Bad : t <= j
    <3> HIDE DEF Bad
    <3>1. Bad \subseteq Nat
      BY DEF Bad
    <3> QED BY <1>6, <3>1, LeastNumber
  <2>2. t # 0 /\ t \in 1..N
    BY <1>1, <1>5
  <2>3. t - 1 \in Nat /\ t - 1 <= N /\ ~ (t <= t - 1)
    BY <1>1, <2>2
  <2>4. Heard(f[t - 1], date, days, t - 1)
    BY <2>1, <2>3
  <2>5. Heard(HalfDay(f[t - 1], days[t], t), date, days, t)
    BY <1>1, <2>2, <2>4, HalfDayKeeps
  <2> QED BY <1>4, <2>1, <2>2, <2>5
<1>7. Heard(f[N], date, days, N)
  BY <1>1, <1>6
<1> DEFINE row == f[N]
<1> HIDE DEF row
<1>8. Heard(row, date, days, N)
  BY <1>7 DEF row
<1>9. ASSUME \A t \in DOMAIN days : days[t].moved = 0
      PROVE  /\ Len(row.due) = IF \E t \in {t \in DOMAIN days : days[t].swept} : DayOf(t) >= date
                               THEN 1 ELSE 0
             /\ Silences(row, date, days) = {}
  <2>1. DueHeard(row, date, days, N) /\ OverdueHeard(row, date, days, N)
    BY <1>1, <1>8, <1>9 DEF Heard, Unmoved
  <2>2. Silences(row, date, days) = {}
    BY <1>1, <2>1 DEF Silences, OverdueHeard
  <2>3. row.reminded # Never <=> \E t \in {t \in DOMAIN days : days[t].swept} : DayOf(t) >= date
    BY <1>1, <2>1 DEF DueHeard
  <2> QED BY <2>1, <2>2, <2>3 DEF DueHeard
<1>10. Spaced(row.overdue)
  BY <1>8 DEF Heard
<1> QED BY <1>3, <1>9, <1>10 DEF row

-----------------------------------------------------------------------------
(* A payment ahead *)

\* Quarters of an hour in which the worker may sweep, the user move the payment either
\* way, and a failed attempt be put back.
Quarters == [swept : BOOLEAN, moved : Int, back : BOOLEAN]

\* The rows a scheduled payment goes through.
PaymentAlong(at, quarters, f) ==
    f = [t \in 0..Len(quarters) |->
            IF t = 0 THEN NewPayment(at) ELSE Quarter(f[t - 1], quarters[t], t)]

\* Every history can be followed to its end.
LEMMA PaymentAlongExists ==
  ASSUME NEW at, NEW quarters \in Seq(Quarters)
  PROVE  \E f : PaymentAlong(at, quarters, f)
<1> DEFINE Upon(f, t) == IF t = 0 THEN NewPayment(at) ELSE Quarter(f[t - 1], quarters[t], t)
           Starts(k) == \E f : f = [t \in 0..k |-> Upon(f, t)]
           Bad == {k \in Nat : ~Starts(k)}
<1>1. ASSUME Bad # {} PROVE FALSE
  <2>1. PICK k \in Bad : \A j \in Bad : k <= j
    <3> HIDE DEF Bad
    <3>1. Bad \subseteq Nat
      BY DEF Bad
    <3> QED BY <1>1, <3>1, LeastNumber
  <2>2. CASE k = 0
    <3> DEFINE f == [t \in 0..0 |-> NewPayment(at)]
    <3>1. f = [t \in 0..0 |-> Upon(f, t)]
      OBVIOUS
    <3>2. Starts(0)
      BY <3>1
    <3> QED BY <2>2, <3>2
  <2>3. CASE k # 0
    <3>1. k \in Nat /\ k - 1 \in Nat /\ ~ (k <= k - 1)
      BY <2>3
    <3>2. Starts(k - 1)
      BY <2>1, <3>1
    <3>3. PICK g : g = [t \in 0..(k - 1) |-> Upon(g, t)]
      BY <3>2
    <3> DEFINE last == Upon(g, k)
               f == [t \in 0..k |-> IF t = k THEN last ELSE g[t]]
    <3> HIDE DEF last
    <3>4. f[k] = Upon(g, k) /\ \A t \in 0..(k - 1) : f[t] = g[t] /\ g[t] = Upon(g, t)
      <4>1. \A t \in 0..(k - 1) : t \in 0..k /\ t # k
        BY <3>1
      <4>2. f[k] = last /\ \A t \in 0..(k - 1) : f[t] = g[t]
        BY <3>1, <4>1
      <4>3. \A t \in 0..(k - 1) : g[t] = Upon(g, t)
        BY <3>3
      <4> QED BY <4>2, <4>3 DEF last
    <3>5. ASSUME NEW t \in 0..k PROVE f[t] = Upon(f, t)
      <4>1. t # 0 => t - 1 \in 0..(k - 1)
        BY <3>1
      <4>2. t # 0 => f[t - 1] = g[t - 1]
        BY <3>4, <4>1
      <4>3. f[t] = Upon(g, t)
        <5>1. t = k \/ t \in 0..(k - 1)
          BY <3>1
        <5> HIDE DEF f
        <5> QED BY <3>4, <5>1
      <4>4. Upon(f, t) = Upon(g, t)
        <5> HIDE DEF f
        <5> QED BY <4>2
      <4> QED BY <4>3, <4>4
    <3>6. f = [t \in 0..k |-> Upon(f, t)]
      BY <3>5
    <3> HIDE DEF f
    <3>7. Starts(k)
      BY <3>6
    <3> QED BY <3>7
  <2> QED BY <2>2, <2>3
<1>2. Starts(Len(quarters))
  <2>1. Len(quarters) \in Nat
    OBVIOUS
  <2>2. \A k \in Nat : Starts(k)
    BY <1>1
  <2> HIDE DEF Starts
  <2> QED BY <2>1, <2>2
<1> QED BY <1>2 DEF PaymentAlong

Told == Seq([at : Nat, ahead : 0..Horizon])
Payments == [at : Int, waits : BOOLEAN, marked : BOOLEAN, told : Told]

Still(quarters, t) == \A u \in 1..t : quarters[u].moved = 0

\* What is known of a payment after t quarters: the mark says whether it was announced;
\* and one that is never moved waits until its time is past.
Announced(row, at, quarters, t) ==
    /\ row \in Payments /\ Len(row.told) = IF row.marked THEN 1 ELSE 0
    /\ Still(quarters, t) =>
         /\ row.at = at /\ (row.waits \/ at <= t)
         /\ row.marked <=> \E u \in 1..t : quarters[u].swept /\ at \in u..(u + Horizon)

\* A row put back and moved.
MovedRow(row, h, t) == Reschedule(IF h.back THEN PutBack(row, t) ELSE row, h.moved)

\* What putting back and moving a payment does.
LEMMA MovedPayment ==
  ASSUME NEW h \in Quarters, NEW t \in Nat, NEW row \in Payments
  PROVE  LET moved == MovedRow(row, h, t) IN
         /\ moved \in Payments /\ moved.marked = row.marked /\ moved.told = row.told
         /\ h.moved = 0 => moved.at = row.at /\ (row.waits => moved.waits)
<1> DEFINE by    == h.moved
           back  == IF h.back THEN PutBack(row, t) ELSE row
           moved == MovedRow(row, h, t)
<1>1. by \in Int /\ h.back \in BOOLEAN
  BY DEF Quarters
<1> DEFINE T == Told
<1>2. row \in [at : Int, waits : BOOLEAN, marked : BOOLEAN, told : T]
  BY DEF Payments
<1> HIDE DEF T
<1>3. /\ back \in [at : Int, waits : BOOLEAN, marked : BOOLEAN, told : T]
      /\ back.marked = row.marked /\ back.told = row.told /\ back.at = row.at
      /\ row.waits => back.waits
  <2> DEFINE w == row.waits \/ row.at < t
  <2>1. w \in BOOLEAN /\ PutBack(row, t) = [row EXCEPT !.waits = w]
    BY <1>2 DEF PutBack
  <2>2. row.waits => w
    OBVIOUS
  <2> HIDE DEF w
  <2> QED BY <1>1, <1>2, <2>1, <2>2
<1>5. moved = Reschedule(back, by)
  BY DEF MovedRow
<1> HIDE DEF back, moved
<1>4. /\ moved \in [at : Int, waits : BOOLEAN, marked : BOOLEAN, told : T]
      /\ moved.marked = back.marked /\ moved.told = back.told /\ moved.waits = back.waits
      /\ by = 0 => moved.at = back.at
  <2> DEFINE d == back.at + by
  <2>1. d \in Int /\ (by = 0 => d = back.at)
    BY <1>1, <1>3
  <2>2. moved = IF back.waits THEN [back EXCEPT !.at = d] ELSE back
    BY <1>3, <1>5 DEF Reschedule
  <2> HIDE DEF d, by
  <2> QED BY <1>3, <2>1, <2>2
<1> QED BY <1>3, <1>4 DEF Payments, T, moved

\* A row after the sweep.
LEMMA NotifiedPayment ==
  ASSUME NEW t \in Nat, NEW row \in Payments, Len(row.told) = IF row.marked THEN 1 ELSE 0,
         NEW next, next = NotifyUpcoming(row, t)
  PROVE  /\ next \in Payments /\ next.at = row.at /\ next.waits = row.waits
         /\ next.marked <=> row.marked \/ (row.waits /\ row.at \in t..(t + Horizon))
         /\ Len(next.told) = IF next.marked THEN 1 ELSE 0
<1>1. /\ row.at \in Int /\ row.waits \in BOOLEAN /\ row.marked \in BOOLEAN
      /\ row.told \in Seq([at : Nat, ahead : 0..Horizon])
  BY DEF Payments, Told
<1>2. CASE ~UpcomingListed(row, t)
  <2>1. next = row
    BY <1>2 DEF NotifyUpcoming
  <2>2. row.marked \/ ~ (row.waits /\ row.at \in t..(t + Horizon))
    BY <1>2 DEF UpcomingListed
  <2> QED BY <2>1, <2>2
<1>3. CASE UpcomingListed(row, t)
  <2> DEFINE told == Append(row.told, [at |-> t, ahead |-> row.at - t])
  <2>1. row.waits /\ ~row.marked /\ row.at \in t..(t + Horizon)
    BY <1>3 DEF UpcomingListed
  <2>2. row.at - t \in 0..Horizon
    BY <1>1, <2>1 DEF Horizon
  <2>3. [at |-> t, ahead |-> row.at - t] \in [at : Nat, ahead : 0..Horizon]
    BY <2>2
  <2>4. told \in Told /\ Len(told) = Len(row.told) + 1
    BY <1>1, <2>3 DEF Told
  <2>5. Len(told) = 1
    BY <2>1, <2>4
  <2> HIDE DEF told
  <2>6. next = [at |-> row.at, waits |-> row.waits, marked |-> TRUE, told |-> told]
    BY <1>3 DEF NotifyUpcoming, told
  <2> QED BY <1>1, <2>1, <2>4, <2>5, <2>6 DEF Payments
<1> QED BY <1>2, <1>3

\* What claiming a payment that is due does.
LEMMA ClaimedPayment ==
  ASSUME NEW t \in Nat, NEW row \in Payments, NEW next, next = ClaimDue(row, t)
  PROVE  /\ next \in Payments /\ next.at = row.at /\ next.marked = row.marked /\ next.told = row.told
         /\ row.waits => next.waits \/ row.at <= t
<1> DEFINE T == Told
           w == row.waits /\ row.at > t
<1>1. row \in [at : Int, waits : BOOLEAN, marked : BOOLEAN, told : T]
  BY DEF Payments
<1>2. w \in BOOLEAN /\ next = [row EXCEPT !.waits = w] /\ (row.waits => w \/ row.at <= t)
  BY <1>1 DEF ClaimDue
<1> HIDE DEF T, w
<1>3. /\ next \in [at : Int, waits : BOOLEAN, marked : BOOLEAN, told : T]
      /\ next.at = row.at /\ next.marked = row.marked /\ next.told = row.told /\ next.waits = w
  BY <1>1, <1>2
<1> QED BY <1>2, <1>3 DEF Payments, T

\* A quarter of an hour keeps what is known.
LEMMA QuarterKeeps ==
  ASSUME NEW at \in Int, NEW quarters \in Seq(Quarters), NEW t \in 1..Len(quarters), NEW row,
         Announced(row, at, quarters, t - 1)
  PROVE  Announced(Quarter(row, quarters[t], t), at, quarters, t)
<1> DEFINE h     == quarters[t]
           moved == MovedRow(row, h, t)
           told  == IF h.swept THEN NotifyUpcoming(moved, t) ELSE moved
           next  == ClaimDue(told, t)
<1>1. h \in Quarters /\ t \in Nat /\ t - 1 \in Nat /\ 1..t = 1..(t - 1) \cup {t}
  OBVIOUS
<1>2. row \in Payments /\ Len(row.told) = IF row.marked THEN 1 ELSE 0
  BY DEF Announced
<1>4. Quarter(row, quarters[t], t) = next
  BY DEF Quarter, MovedRow
<1>9. /\ moved = MovedRow(row, h, t)
      /\ told = IF h.swept THEN NotifyUpcoming(moved, t) ELSE moved
      /\ h.swept \in BOOLEAN
  BY <1>1 DEF Quarters
<1> HIDE DEF h, moved, told
<1>3. /\ moved \in Payments /\ moved.marked = row.marked /\ moved.told = row.told
      /\ h.moved = 0 => moved.at = row.at /\ (row.waits => moved.waits)
  BY <1>1, <1>2, <1>9, MovedPayment
<1>5. /\ told \in Payments /\ told.at = moved.at /\ told.waits = moved.waits
      /\ told.marked <=> moved.marked \/ (h.swept /\ moved.waits /\ moved.at \in t..(t + Horizon))
      /\ Len(told.told) = IF told.marked THEN 1 ELSE 0
  <2>1. Len(moved.told) = IF moved.marked THEN 1 ELSE 0
    BY <1>2, <1>3
  <2>2. CASE h.swept
    BY <1>1, <1>3, <1>9, <2>1, <2>2, NotifiedPayment
  <2>3. CASE ~h.swept
    BY <1>3, <1>9, <2>1, <2>3
  <2> QED BY <2>2, <2>3
<1>6. /\ next \in Payments /\ next.at = told.at /\ next.marked = told.marked /\ next.told = told.told
      /\ told.waits => next.waits \/ told.at <= t
  BY <1>1, <1>5, ClaimedPayment
<1> HIDE DEF next
<1>7. ASSUME Still(quarters, t)
      PROVE  /\ next.at = at /\ (next.waits \/ at <= t)
             /\ next.marked <=> \E u \in 1..t : quarters[u].swept /\ at \in u..(u + Horizon)
  <2>1. Still(quarters, t - 1) /\ h.moved = 0
    BY <1>1, <1>7 DEF Still, h
  <2>2. /\ row.at = at /\ (row.waits \/ at <= t - 1)
        /\ row.marked <=> \E u \in 1..(t - 1) : quarters[u].swept /\ at \in u..(u + Horizon)
    BY <2>1 DEF Announced
  <2>3. moved.at = at /\ (moved.waits \/ at <= t - 1)
    BY <1>3, <2>1, <2>2
  <2>4. next.at = at /\ (next.waits \/ at <= t)
    BY <1>1, <1>5, <1>6, <2>3
  <2>5. next.marked <=> row.marked \/ (h.swept /\ at \in t..(t + Horizon))
    <3>1. at \in t..(t + Horizon) => moved.waits
      BY <1>1, <2>3 DEF Horizon
    <3>2. next.marked \in BOOLEAN /\ told.marked \in BOOLEAN /\ moved.marked \in BOOLEAN
      BY <1>3, <1>5, <1>6 DEF Payments
    <3> QED BY <1>3, <1>5, <1>6, <2>3, <3>1, <3>2
  <2>6. (\E u \in 1..t : quarters[u].swept /\ at \in u..(u + Horizon))
          <=> (\E u \in 1..(t - 1) : quarters[u].swept /\ at \in u..(u + Horizon))
              \/ (h.swept /\ at \in t..(t + Horizon))
    BY <1>1 DEF h
  <2> QED BY <2>2, <2>4, <2>5, <2>6
<1>8. Len(next.told) = IF next.marked THEN 1 ELSE 0
  BY <1>5, <1>6
<1> QED BY <1>4, <1>6, <1>7, <1>8 DEF Announced

\* However the sweeps fall, whichever way the user moves a scheduled payment and whatever
\* failed attempts are put back: it is announced at most once, while it is still ahead by
\* no more than the hour; and one that is never moved is announced exactly if a sweep ran
\* in that hour (services/scheduler.ts notifyUpcoming).
THEOREM UpcomingAlwaysRegular ==
  ASSUME NEW dates \in SUBSET Int, NEW histories \in SUBSET Seq(Quarters)
  PROVE  UpcomingRegular(dates, histories)
<1> SUFFICES ASSUME NEW at \in dates, NEW quarters \in histories
             PROVE  LET row == PaymentHistory(at, quarters)
                    IN  /\ Len(row.told) <= 1
                        /\ \A i \in DOMAIN row.told : row.told[i].ahead \in 0..Horizon
                        /\ (\A t \in DOMAIN quarters : quarters[t].moved = 0) =>
                             (row.told # <<>> <=>
                                \E t \in DOMAIN quarters : quarters[t].swept /\ at \in t..(t + Horizon))
  BY DEF UpcomingRegular
<1> DEFINE f == CHOOSE g : PaymentAlong(at, quarters, g)
           N == Len(quarters)
           Bad == {t \in Nat : t <= N /\ ~Announced(f[t], at, quarters, t)}
<1>1. at \in Int /\ quarters \in Seq(Quarters) /\ N \in Nat /\ DOMAIN quarters = 1..N
  OBVIOUS
<1>2. PaymentAlong(at, quarters, f)
  BY <1>1, PaymentAlongExists
<1>3. PaymentHistory(at, quarters) = f[N]
  BY DEF PaymentHistory, PaymentAlong
<1> HIDE DEF f
<1>4. f[0] = NewPayment(at) /\ \A t \in 1..N : f[t] = Quarter(f[t - 1], quarters[t], t)
  <2>1. 0 \in 0..N /\ \A t \in 1..N : t \in 0..N /\ t # 0
    BY <1>1
  <2>2. f = [t \in 0..N |-> IF t = 0 THEN NewPayment(at) ELSE Quarter(f[t - 1], quarters[t], t)]
    BY <1>2 DEF PaymentAlong
  <2> QED BY <2>1, <2>2
<1>5. Announced(f[0], at, quarters, 0)
  <2> DEFINE row == NewPayment(at)
  <2>1. <<>> \in Told /\ Len(<<>>) = 0 /\ 1..0 = {}
    BY DEF Told
  <2>2. row \in Payments /\ row.at = at /\ row.waits = TRUE /\ row.marked = FALSE /\ row.told = <<>>
    BY <1>1, <2>1 DEF NewPayment, Payments
  <2> HIDE DEF row
  <2> QED BY <1>4, <2>1, <2>2 DEF Announced, row
<1>6. ASSUME Bad # {} PROVE FALSE
  <2>1. PICK t \in Bad : \A j \in Bad : t <= j
    <3> HIDE DEF Bad
    <3>1. Bad \subseteq Nat
      BY DEF Bad
    <3> QED BY <1>6, <3>1, LeastNumber
  <2>2. t # 0 /\ t \in 1..N
    BY <1>1, <1>5
  <2>3. t - 1 \in Nat /\ t - 1 <= N /\ ~ (t <= t - 1)
    BY <1>1, <2>2
  <2>4. Announced(f[t - 1], at, quarters, t - 1)
    BY <2>1, <2>3
  <2>5. Announced(Quarter(f[t - 1], quarters[t], t), at, quarters, t)
    BY <1>1, <2>2, <2>4, QuarterKeeps
  <2> QED BY <1>4, <2>1, <2>2, <2>5
<1> DEFINE row == f[N]
<1>7. Announced(row, at, quarters, N)
  BY <1>1, <1>6
<1> HIDE DEF row
<1>8. row.told \in Seq([at : Nat, ahead : 0..Horizon]) /\ row.marked \in BOOLEAN
      /\ Len(row.told) = IF row.marked THEN 1 ELSE 0
  BY <1>7 DEF Announced, Payments, Told
<1>9. /\ Len(row.told) <= 1 /\ \A i \in DOMAIN row.told : row.told[i].ahead \in 0..Horizon
      /\ row.told # <<>> <=> row.marked
  <2>1. \A i \in DOMAIN row.told : row.told[i].ahead \in 0..Horizon
    <3> DEFINE H == 0..Horizon
               S == [at : Nat, ahead : H]
    <3>1. row.told \in Seq(S)
      BY <1>8
    <3>2. \A e \in S : e.ahead \in H
      OBVIOUS
    <3> HIDE DEF H, S
    <3>3. \A i \in DOMAIN row.told : row.told[i] \in S
      BY <3>1
    <3>4. \A i \in DOMAIN row.told : row.told[i].ahead \in H
      BY <3>2, <3>3
    <3> QED BY <3>4 DEF H
  <2>2. row.told = <<>> <=> Len(row.told) = 0
    BY <1>8
  <2> QED BY <1>8, <2>1, <2>2
<1>10. ASSUME \A t \in DOMAIN quarters : quarters[t].moved = 0
       PROVE  row.marked <=> \E t \in DOMAIN quarters : quarters[t].swept /\ at \in t..(t + Horizon)
  BY <1>1, <1>7, <1>10 DEF Announced, Still
<1> QED BY <1>3, <1>9, <1>10 DEF row

-----------------------------------------------------------------------------
(* Messages.  What is rendered is put together block by block: FlattenSeq follows a *)
(* sequence of blocks, and one more block is appended to what there is.             *)

\* The texts put together of the first blocks.
Joined(blocks, f) ==
    f = [i \in 1..Len(blocks) |-> IF i = 1 THEN blocks[i] ELSE f[i - 1] \o blocks[i]]

\* Every sequence of blocks can be followed to its end.
LEMMA JoinedExists ==
  ASSUME NEW blocks, Len(blocks) \in Nat
  PROVE  \E f : Joined(blocks, f)
<1> DEFINE Upon(f, i) == IF i = 1 THEN blocks[i] ELSE f[i - 1] \o blocks[i]
           Starts(k) == \E f : f = [i \in 1..k |-> Upon(f, i)]
           Bad == {k \in Nat : ~Starts(k)}
<1>1. ASSUME Bad # {} PROVE FALSE
  <2>1. PICK k \in Bad : \A j \in Bad : k <= j
    <3> HIDE DEF Bad
    <3>1. Bad \subseteq Nat
      BY DEF Bad
    <3> QED BY <1>1, <3>1, LeastNumber
  <2>2. CASE k = 0
    <3> DEFINE f == [i \in 1..0 |-> Upon(<<>>, i)]
    <3>1. f = [i \in 1..0 |-> Upon(f, i)]
      OBVIOUS
    <3>2. Starts(0)
      BY <3>1
    <3> QED BY <2>2, <3>2
  <2>3. CASE k # 0
    <3>1. k \in Nat /\ k - 1 \in Nat /\ ~ (k <= k - 1)
      BY <2>3
    <3>2. Starts(k - 1)
      BY <2>1, <3>1
    <3>3. PICK g : g = [i \in 1..(k - 1) |-> Upon(g, i)]
      BY <3>2
    <3> DEFINE last == Upon(g, k)
               f == [i \in 1..k |-> IF i = k THEN last ELSE g[i]]
    <3> HIDE DEF last
    <3>4. f[k] = last /\ \A i \in 1..(k - 1) : f[i] = g[i] /\ g[i] = Upon(g, i)
      <4>1. k \in 1..k /\ \A i \in 1..(k - 1) : i \in 1..k /\ i # k
        BY <3>1, <2>3
      <4>2. f[k] = last /\ \A i \in 1..(k - 1) : f[i] = g[i]
        BY <3>1, <4>1
      <4>3. \A i \in 1..(k - 1) : g[i] = Upon(g, i)
        BY <3>3
      <4> QED BY <4>2, <4>3
    <3>5. ASSUME NEW i \in 1..k PROVE f[i] = Upon(f, i)
      <4>1. i # 1 => i - 1 \in 1..(k - 1)
        BY <3>1
      <4>2. i # 1 => f[i - 1] = g[i - 1]
        BY <3>4, <4>1
      <4>3. f[i] = Upon(g, i)
        <5>1. i = k \/ i \in 1..(k - 1)
          BY <3>1
        <5> HIDE DEF f
        <5> QED BY <3>4, <5>1 DEF last
      <4>4. Upon(f, i) = Upon(g, i)
        <5> HIDE DEF f
        <5> QED BY <4>2
      <4> QED BY <4>3, <4>4
    <3>6. f = [i \in 1..k |-> Upon(f, i)]
      BY <3>5
    <3>7. Starts(k)
      BY <3>6
    <3> QED BY <3>7
  <2> QED BY <2>2, <2>3
<1>2. Len(blocks) \notin Bad
  BY <1>1
<1>3. Starts(Len(blocks))
  BY <1>2
<1> QED BY <1>3 DEF Joined

\* What was put together of blocks does not depend on blocks to come.
LEMMA JoinedAgree ==
  ASSUME NEW T, NEW blocks \in Seq(Seq(T)), NEW more, Len(more) \in Nat, Len(blocks) <= Len(more),
         \A i \in 1..Len(blocks) : more[i] = blocks[i],
         NEW f, Joined(blocks, f), NEW g, Joined(more, g)
  PROVE  \A i \in 1..Len(blocks) : f[i] = g[i] /\ f[i] \in Seq(T)
<1> DEFINE n == Len(blocks)
           Bad == {i \in Nat : i \in 1..n /\ ~ (f[i] = g[i] /\ f[i] \in Seq(T))}
<1>1. n \in Nat /\ \A i \in 1..n : blocks[i] \in Seq(T) /\ i \in 1..Len(more)
  OBVIOUS
<1>2. \A i \in 1..n : f[i] = IF i = 1 THEN blocks[i] ELSE f[i - 1] \o blocks[i]
  BY <1>1 DEF Joined
<1>3. \A i \in 1..n : g[i] = IF i = 1 THEN blocks[i] ELSE g[i - 1] \o blocks[i]
  BY <1>1 DEF Joined
<1>4. ASSUME Bad # {} PROVE FALSE
  <2>1. PICK i \in Bad : \A j \in Bad : i <= j
    <3> HIDE DEF Bad
    <3>1. Bad \subseteq Nat
      BY DEF Bad
    <3> QED BY <1>4, <3>1, LeastNumber
  <2>2. i \in 1..n /\ i \in Nat
    OBVIOUS
  <2>3. CASE i = 1
    BY <1>1, <1>2, <1>3, <2>2, <2>3, <2>1
  <2>4. CASE i # 1
    <3>1. i - 1 \in Nat /\ i - 1 \in 1..n /\ ~ (i <= i - 1)
      BY <1>1, <2>2, <2>4
    <3>2. f[i - 1] = g[i - 1] /\ f[i - 1] \in Seq(T)
      BY <2>1, <3>1
    <3>3. f[i - 1] \o blocks[i] \in Seq(T)
      BY <1>1, <2>2, <3>2
    <3>4. f[i] = f[i - 1] \o blocks[i] /\ g[i] = g[i - 1] \o blocks[i]
      BY <1>2, <1>3, <2>2, <2>4
    <3>5. f[i] = g[i] /\ f[i] \in Seq(T)
      BY <3>2, <3>3, <3>4
    <3>6. ~ (f[i] = g[i] /\ f[i] \in Seq(T))
      BY <2>1
    <3> QED BY <3>5, <3>6
  <2> QED BY <2>3, <2>4
<1> QED BY <1>1, <1>4

\* A block more.
LEMMA FlattenAppend ==
  ASSUME NEW T, NEW blocks \in Seq(Seq(T)), NEW block \in Seq(T)
  PROVE  /\ M!FlattenSeq(blocks) \in Seq(T)
         /\ M!FlattenSeq(Append(blocks, block)) = M!FlattenSeq(blocks) \o block
<1> DEFINE more == Append(blocks, block)
           n == Len(blocks)
<1>1. n \in Nat /\ Len(more) = n + 1 /\ more[n + 1] = block /\ \A i \in 1..n : more[i] = blocks[i]
  OBVIOUS
<1> DEFINE f == CHOOSE h : Joined(blocks, h)
           g == CHOOSE h : Joined(more, h)
<1> HIDE DEF more
<1>2. Joined(blocks, f) /\ Joined(more, g)
  BY <1>1, JoinedExists
<1>3. M!FlattenSeq(blocks) = IF n = 0 THEN blocks ELSE f[n]
  BY DEF M!FlattenSeq, Joined
<1>4. M!FlattenSeq(more) = g[n + 1]
  <2>1. Len(more) # 0
    BY <1>1
  <2>2. M!FlattenSeq(more) = g[Len(more)]
    BY <2>1 DEF M!FlattenSeq, Joined
  <2> QED BY <1>1, <2>2
<1> HIDE DEF f, g
<1>5. \A i \in 1..n : f[i] = g[i] /\ f[i] \in Seq(T)
  <2>1. Len(more) \in Nat /\ Len(blocks) <= Len(more)
    BY <1>1
  <2>2. \A i \in 1..Len(blocks) : more[i] = blocks[i]
    BY <1>1
  <2>3. \A i \in 1..Len(blocks) : f[i] = g[i] /\ f[i] \in Seq(T)
    BY <1>2, <2>1, <2>2, JoinedAgree
  <2> QED BY <2>3
<1>6. g[n + 1] = IF n = 0 THEN block ELSE g[n] \o block
  <2>1. n + 1 \in 1..Len(more) /\ (n + 1) - 1 = n /\ (n + 1 = 1 <=> n = 0)
    BY <1>1
  <2>2. g[n + 1] = IF n + 1 = 1 THEN more[n + 1] ELSE g[(n + 1) - 1] \o more[n + 1]
    BY <1>2, <2>1 DEF Joined
  <2> QED BY <1>1, <2>1, <2>2
<1>7. CASE n = 0
  <2>1. blocks = <<>> /\ <<>> \in Seq(T) /\ <<>> \o block = block
    BY <1>7
  <2> QED BY <1>3, <1>4, <1>6, <1>7, <2>1 DEF more
<1>8. CASE n # 0
  <2>1. n \in 1..n
    BY <1>1, <1>8
  <2> QED BY <1>3, <1>4, <1>5, <1>6, <1>8, <2>1 DEF more
<1> QED BY <1>7, <1>8

\* The characters that mean something in HTML, and what a text may hold.
Markup == {"&", "<", ">", "quote"}
Tokens(T) == Markup \cup {"amp", "lt", "gt", "quot"} \subseteq T

\* A character more.
LEMMA SubstituteAppend ==
  ASSUME NEW T, NEW text \in Seq(T), NEW c \in T, NEW d, NEW by \in Seq(T)
  PROVE  /\ M!Substitute(text, d, by) \in Seq(T)
         /\ c # d => M!Substitute(Append(text, c), d, by) = Append(M!Substitute(text, d, by), c)
         /\ c = d => M!Substitute(Append(text, c), d, by) = M!Substitute(text, d, by) \o by
<1> DEFINE Put(x) == IF x = d THEN by ELSE <<x>>
           blocks == [i \in DOMAIN text |-> Put(text[i])]
           longer == Append(text, c)
           more   == [i \in DOMAIN longer |-> Put(longer[i])]
           n == Len(text)
<1>1. n \in Nat /\ DOMAIN text = 1..n /\ \A i \in 1..n : text[i] \in T /\ longer[i] = text[i]
  OBVIOUS
<1>2. Len(longer) = n + 1 /\ DOMAIN longer = 1..(n + 1) /\ longer[n + 1] = c
  OBVIOUS
<1> HIDE DEF longer
<1>3. \A x \in T : Put(x) \in Seq(T)
  OBVIOUS
<1>4. blocks \in Seq(Seq(T)) /\ Len(blocks) = n
  <2> HIDE DEF Put
  <2>1. blocks \in [1..n -> Seq(T)]
    BY <1>1, <1>3
  <2> QED BY <1>1, <2>1
<1>5. more = Append(blocks, Put(c))
  <2> HIDE DEF Put
  <2>1. \A i \in 1..n : i \in 1..(n + 1) /\ i # n + 1
    BY <1>1
  <2>2. Append(blocks, Put(c)) = [i \in 1..(n + 1) |-> IF i = n + 1 THEN Put(c) ELSE blocks[i]]
    BY <1>1, <1>4
  <2>3. ASSUME NEW i \in 1..(n + 1) PROVE Put(longer[i]) = IF i = n + 1 THEN Put(c) ELSE blocks[i]
    <3>1. i = n + 1 \/ i \in 1..n
      BY <1>1
    <3> QED BY <1>1, <1>2, <2>1, <3>1
  <2> QED BY <1>2, <2>2, <2>3
<1>6. M!Substitute(text, d, by) = M!FlattenSeq(blocks) /\ M!Substitute(longer, d, by) = M!FlattenSeq(more)
  BY DEF M!Substitute
<1> HIDE DEF blocks, more
<1>7. /\ M!FlattenSeq(blocks) \in Seq(T)
      /\ M!FlattenSeq(Append(blocks, Put(c))) = M!FlattenSeq(blocks) \o Put(c)
  <2>1. Put(c) \in Seq(T)
    BY <1>3
  <2> HIDE DEF Put
  <2> QED BY <1>4, <2>1, FlattenAppend
<1> DEFINE s == M!FlattenSeq(blocks)
<1> HIDE DEF s
<1>8. s \in Seq(T) => s \o <<c>> = Append(s, c)
  OBVIOUS
<1> QED BY <1>5, <1>6, <1>7, <1>8 DEF longer, s

LEMMA SubstituteNothing == ASSUME NEW d, NEW by PROVE M!Substitute(<<>>, d, by) = <<>>
<1>1. DOMAIN <<>> = {} /\ [i \in {} |-> IF <<>>[i] = d THEN by ELSE <<<<>>[i]>>] = <<>> /\ Len(<<>>) = 0
  OBVIOUS
<1>2. M!FlattenSeq(<<>>) = <<>>
  BY <1>1 DEF M!FlattenSeq
<1> QED BY <1>1, <1>2 DEF M!Substitute

LEMMA SubstituteOther ==
  ASSUME NEW T, NEW text \in Seq(T), NEW c \in T, NEW d, c # d, NEW by \in Seq(T)
  PROVE  /\ M!Substitute(text, d, by) \in Seq(T)
         /\ M!Substitute(Append(text, c), d, by) = Append(M!Substitute(text, d, by), c)
BY SubstituteAppend

LEMMA SubstituteIt ==
  ASSUME NEW T, NEW text \in Seq(T), NEW d \in T, NEW by \in Seq(T)
  PROVE  M!Substitute(Append(text, d), d, by) = M!Substitute(text, d, by) \o by
BY SubstituteAppend

\* Two characters more.
Pair(s, a, b) == s \o <<a, b>>

LEMMA PairAppends ==
  ASSUME NEW T, NEW s \in Seq(T), NEW a \in T, NEW b \in T
  PROVE  Append(Append(s, a), b) = Pair(s, a, b)
BY DEF Pair

\* What has no character to replace is appended as it is.
LEMMA SubstituteKeeps ==
  ASSUME NEW T, NEW d, NEW by \in Seq(T), NEW text \in Seq(T), NEW a \in T \ {d}, NEW b \in T \ {d}
  PROVE  M!Substitute(Pair(text, a, b), d, by) = Pair(M!Substitute(text, d, by), a, b)
<1> DEFINE s == M!Substitute(text, d, by)
           t == Append(text, a)
<1>1. t \in Seq(T) /\ Pair(text, a, b) = Append(t, b)
  BY PairAppends
<1>2. s \in Seq(T) /\ M!Substitute(t, d, by) = Append(s, a)
  BY SubstituteOther
<1> HIDE DEF t
<1>3. M!Substitute(Append(t, b), d, by) = Append(M!Substitute(t, d, by), b)
  BY <1>1, SubstituteOther
<1> HIDE DEF s
<1>4. Append(Append(s, a), b) = Pair(s, a, b)
  BY <1>2, PairAppends
<1> QED BY <1>1, <1>2, <1>3, <1>4 DEF s

\* One replacement of escapeHtml.
Escaping(T, d, e) ==
  \A s \in Seq(T) :
     /\ M!Substitute(s, d, <<"&", e>>) \in Seq(T)
     /\ M!Substitute(Append(s, d), d, <<"&", e>>) = Pair(M!Substitute(s, d, <<"&", e>>), "&", e)
     /\ \A x \in T \ {d} : M!Substitute(Append(s, x), d, <<"&", e>>) = Append(M!Substitute(s, d, <<"&", e>>), x)
     /\ \A a, b \in T \ {d} :
           M!Substitute(Pair(s, a, b), d, <<"&", e>>) = Pair(M!Substitute(s, d, <<"&", e>>), a, b)

LEMMA EscapingHolds ==
  ASSUME NEW T, NEW d \in T, NEW e \in T, "&" \in T
  PROVE  Escaping(T, d, e)
<1> DEFINE by == <<"&", e>>
<1>1. by \in Seq(T)
  OBVIOUS
<1> HIDE DEF by
<1> SUFFICES ASSUME NEW s \in Seq(T)
             PROVE  /\ M!Substitute(s, d, by) \in Seq(T)
                    /\ M!Substitute(Append(s, d), d, by) = M!Substitute(s, d, by) \o by
                    /\ \A x \in T \ {d} : M!Substitute(Append(s, x), d, by) = Append(M!Substitute(s, d, by), x)
                    /\ \A a, b \in T \ {d} :
                          M!Substitute(Pair(s, a, b), d, by) = Pair(M!Substitute(s, d, by), a, b)
  BY DEF Escaping, by, Pair
<1>2. M!Substitute(s, d, by) \in Seq(T) /\ M!Substitute(Append(s, d), d, by) = M!Substitute(s, d, by) \o by
  <2>1. M!Substitute(s, d, by) \in Seq(T)
    BY <1>1, SubstituteAppend
  <2>2. M!Substitute(Append(s, d), d, by) = M!Substitute(s, d, by) \o by
    BY <1>1, SubstituteIt
  <2> QED BY <2>1, <2>2
<1>3. ASSUME NEW x \in T \ {d} PROVE M!Substitute(Append(s, x), d, by) = Append(M!Substitute(s, d, by), x)
  <2>1. x \in T /\ x # d
    OBVIOUS
  <2> QED BY <1>1, <2>1, SubstituteOther
<1>4. ASSUME NEW a \in T \ {d}, NEW b \in T \ {d}
      PROVE  M!Substitute(Pair(s, a, b), d, by) = Pair(M!Substitute(s, d, by), a, b)
  <2> HIDE DEF by
  <2> QED BY <1>1, SubstituteKeeps
<1> QED BY <1>2, <1>3, <1>4

\* The text of a message, character by character.
LEMMA EscapeAppend ==
  ASSUME NEW T, Tokens(T), NEW text \in Seq(T), NEW c \in T
  PROVE  /\ M!EscapeHtml(text) \in Seq(T)
         /\ c \notin Markup => M!EscapeHtml(Append(text, c)) = Append(M!EscapeHtml(text), c)
         /\ \A e \in DOMAIN M!Named : c = M!Named[e] =>
               M!EscapeHtml(Append(text, c)) = Pair(M!EscapeHtml(text), "&", e)
<1> DEFINE A(s) == M!Substitute(s, "&", <<"&", "amp">>)
           L(s) == M!Substitute(s, "<", <<"&", "lt">>)
           G(s) == M!Substitute(s, ">", <<"&", "gt">>)
           Q(s) == M!Substitute(s, "quote", <<"&", "quot">>)
           amp == "&"
           lt == "<"
           gt == ">"
           quot == "quote"
           E == {"amp", "lt", "gt", "quot"}
<1>1. /\ amp \in T /\ "amp" \in T /\ "lt" \in T /\ "gt" \in T /\ "quot" \in T
      /\ lt \in T /\ gt \in T /\ quot \in T
  BY DEF Tokens, Markup
<1>2. \A s : M!EscapeHtml(s) = Q(G(L(A(s))))
  BY DEF M!EscapeHtml
<1>3. Escaping(T, "&", "amp") /\ Escaping(T, "<", "lt") /\ Escaping(T, ">", "gt") /\ Escaping(T, "quote", "quot")
  BY <1>1, EscapingHolds
<1>4. ASSUME NEW s \in Seq(T)
      PROVE  /\ A(s) \in Seq(T) /\ L(s) \in Seq(T) /\ G(s) \in Seq(T) /\ Q(s) \in Seq(T)
             /\ \A x \in T \ {amp} : A(Append(s, x)) = Append(A(s), x)
             /\ A(Append(s, amp)) = Pair(A(s), amp, "amp")
             /\ \A x \in T \ {lt} : L(Append(s, x)) = Append(L(s), x)
             /\ L(Append(s, lt)) = Pair(L(s), amp, "lt")
             /\ \A x \in T \ {gt} : G(Append(s, x)) = Append(G(s), x)
             /\ G(Append(s, gt)) = Pair(G(s), amp, "gt")
             /\ \A x \in T \ {quot} : Q(Append(s, x)) = Append(Q(s), x)
             /\ Q(Append(s, quot)) = Pair(Q(s), amp, "quot")
  BY <1>3 DEF Escaping
<1>5. ASSUME NEW s \in Seq(T), NEW e \in E
      PROVE  /\ L(Pair(s, amp, e)) = Pair(L(s), amp, e)
             /\ G(Pair(s, amp, e)) = Pair(G(s), amp, e)
             /\ Q(Pair(s, amp, e)) = Pair(Q(s), amp, e)
  <2>1. e \in T \ {lt} /\ e \in T \ {gt} /\ e \in T \ {quot}
    BY <1>1
  <2>2. amp \in T \ {lt} /\ amp \in T \ {gt} /\ amp \in T \ {quot}
    BY <1>1
  <2> HIDE DEF amp, lt, gt, quot, E
  <2>3. L(Pair(s, amp, e)) = Pair(L(s), amp, e)
    BY <1>3, <2>1, <2>2, ZenonT(40) DEF Escaping, amp, lt
  <2>4. G(Pair(s, amp, e)) = Pair(G(s), amp, e)
    BY <1>3, <2>1, <2>2, ZenonT(40) DEF Escaping, amp, gt
  <2>5. Q(Pair(s, amp, e)) = Pair(Q(s), amp, e)
    BY <1>3, <2>1, <2>2, ZenonT(40) DEF Escaping, amp, quot
  <2> QED BY <2>3, <2>4, <2>5
<1>6. E = DOMAIN M!Named /\ M!Named["amp"] = amp /\ M!Named["lt"] = lt /\ M!Named["gt"] = gt /\ M!Named["quot"] = quot
  BY DEF M!Named
<1>7. amp # lt /\ amp # gt /\ amp # quot /\ lt # gt /\ lt # quot /\ gt # quot /\ Markup = {amp, lt, gt, quot}
  BY DEF Markup
<1>8. "amp" \in E /\ "lt" \in E /\ "gt" \in E /\ "quot" \in E
  OBVIOUS
<1> HIDE DEF A, L, G, Q, amp, lt, gt, quot
<1> DEFINE a == A(text)
           l == L(a)
           g == G(l)
           q == Q(g)
<1>9. a \in Seq(T) /\ l \in Seq(T) /\ g \in Seq(T) /\ q \in Seq(T)
  BY <1>4
<1> HIDE DEF a, l, g, q
<1>10. ASSUME c \notin Markup PROVE Q(G(L(A(Append(text, c))))) = Append(q, c)
  <2>1. c \in T \ {amp} /\ c \in T \ {lt} /\ c \in T \ {gt} /\ c \in T \ {quot}
    BY <1>7, <1>10
  <2>2. A(Append(text, c)) = Append(a, c)
    BY <1>4, <2>1 DEF a
  <2>3. L(Append(a, c)) = Append(l, c)
    BY <1>4, <1>9, <2>1 DEF l
  <2>4. G(Append(l, c)) = Append(g, c)
    BY <1>4, <1>9, <2>1 DEF g
  <2>5. Q(Append(g, c)) = Append(q, c)
    BY <1>4, <1>9, <2>1 DEF q
  <2> QED BY <2>2, <2>3, <2>4, <2>5
<1>11. Q(G(L(A(Append(text, amp))))) = Pair(q, amp, "amp")
  <2>2. A(Append(text, amp)) = Pair(a, amp, "amp")
    BY <1>4 DEF a
  <2>3. L(Pair(a, amp, "amp")) = Pair(l, amp, "amp")
    BY <1>5, <1>8, <1>9 DEF l
  <2>4. G(Pair(l, amp, "amp")) = Pair(g, amp, "amp")
    BY <1>5, <1>8, <1>9 DEF g
  <2>5. Q(Pair(g, amp, "amp")) = Pair(q, amp, "amp")
    BY <1>5, <1>8, <1>9 DEF q
  <2> QED BY <2>2, <2>3, <2>4, <2>5
<1>12. Q(G(L(A(Append(text, lt))))) = Pair(q, amp, "lt")
  <2>1. lt \in T \ {amp}
    BY <1>1, <1>7
  <2>2. A(Append(text, lt)) = Append(a, lt)
    BY <1>4, <2>1 DEF a
  <2>3. L(Append(a, lt)) = Pair(l, amp, "lt")
    BY <1>4, <1>9 DEF l
  <2>4. G(Pair(l, amp, "lt")) = Pair(g, amp, "lt")
    BY <1>5, <1>8, <1>9 DEF g
  <2>5. Q(Pair(g, amp, "lt")) = Pair(q, amp, "lt")
    BY <1>5, <1>8, <1>9 DEF q
  <2> QED BY <2>2, <2>3, <2>4, <2>5
<1>13. Q(G(L(A(Append(text, gt))))) = Pair(q, amp, "gt")
  <2>1. gt \in T \ {amp} /\ gt \in T \ {lt}
    BY <1>1, <1>7
  <2>2. A(Append(text, gt)) = Append(a, gt)
    BY <1>4, <2>1 DEF a
  <2>3. L(Append(a, gt)) = Append(l, gt)
    BY <1>4, <1>9, <2>1 DEF l
  <2>4. G(Append(l, gt)) = Pair(g, amp, "gt")
    BY <1>4, <1>9 DEF g
  <2>5. Q(Pair(g, amp, "gt")) = Pair(q, amp, "gt")
    BY <1>5, <1>8, <1>9 DEF q
  <2> QED BY <2>2, <2>3, <2>4, <2>5
<1>14. Q(G(L(A(Append(text, quot))))) = Pair(q, amp, "quot")
  <2>1. quot \in T \ {amp} /\ quot \in T \ {lt} /\ quot \in T \ {gt}
    BY <1>1, <1>7
  <2>2. A(Append(text, quot)) = Append(a, quot)
    BY <1>4, <2>1 DEF a
  <2>3. L(Append(a, quot)) = Append(l, quot)
    BY <1>4, <1>9, <2>1 DEF l
  <2>4. G(Append(l, quot)) = Append(g, quot)
    BY <1>4, <1>9, <2>1 DEF g
  <2>5. Q(Append(g, quot)) = Pair(q, amp, "quot")
    BY <1>4, <1>9 DEF q
  <2> QED BY <2>2, <2>3, <2>4, <2>5
<1>15. ASSUME NEW e \in E, c = M!Named[e]
       PROVE  Q(G(L(A(Append(text, c))))) = Pair(q, amp, e)
  <2>1. CASE e = "amp"
    BY <1>6, <1>11, <1>15, <2>1
  <2>2. CASE e = "lt"
    BY <1>6, <1>12, <1>15, <2>2
  <2>3. CASE e = "gt"
    BY <1>6, <1>13, <1>15, <2>3
  <2>4. CASE e = "quot"
    BY <1>6, <1>14, <1>15, <2>4
  <2> QED BY <2>1, <2>2, <2>3, <2>4
<1>16. M!EscapeHtml(text) = q
  BY <1>2 DEF q, g, l, a
<1> QED BY <1>2, <1>6, <1>9, <1>10, <1>15, <1>16 DEF amp

\* Whether the i-th token of a message is the name of an entity, and what a reader
\* sees of it.
Entity(html, i) ==
  i > 1 /\ i <= Len(html) /\ html[i] \in DOMAIN M!Named /\ html[i - 1] = "&"
ShownAt(html, i) ==
  IF Entity(html, i) THEN <<M!Named[html[i]]>> ELSE IF Entity(html, i + 1) THEN <<>> ELSE <<html[i]>>
Shown(html) == [i \in DOMAIN html |-> ShownAt(html, i)]

LEMMA ReadsShown == ASSUME NEW html PROVE M!Reads(html) = M!FlattenSeq(Shown(html))
BY DEF M!Reads, Shown, ShownAt, Entity

LEMMA NamedTyped ==
  ASSUME NEW T, Tokens(T)
  PROVE  /\ \A e \in DOMAIN M!Named : M!Named[e] \in Markup /\ M!Named[e] \in T /\ e \in T /\ e \notin Markup
         /\ "&" \in T /\ "&" \notin DOMAIN M!Named
<1>1. DOMAIN M!Named = {"amp", "lt", "gt", "quot"} /\ Markup \subseteq T /\ "&" \in T
  BY DEF M!Named, Tokens, Markup
<1>2. M!Named["amp"] = "&" /\ M!Named["lt"] = "<" /\ M!Named["gt"] = ">" /\ M!Named["quot"] = "quote"
  BY DEF M!Named
<1>3. \A e \in DOMAIN M!Named : M!Named[e] \in Markup
  BY <1>1, <1>2 DEF Markup
<1>4. "amp" \notin Markup /\ "lt" \notin Markup /\ "gt" \notin Markup /\ "quot" \notin Markup
  BY DEF Markup
<1>5. {"amp", "lt", "gt", "quot"} \subseteq T
  BY DEF Tokens
<1>6. "&" \notin {"amp", "lt", "gt", "quot"}
  OBVIOUS
<1> QED BY <1>1, <1>3, <1>4, <1>5, <1>6

\* What a reader sees of each token is a text.
LEMMA ShownTyped ==
  ASSUME NEW T, Tokens(T), NEW html \in Seq(T)
  PROVE  /\ Shown(html) \in Seq(Seq(T)) /\ Len(Shown(html)) = Len(html)
         /\ \A i \in 1..Len(html) : Shown(html)[i] = ShownAt(html, i)
<1>1. DOMAIN html = 1..Len(html) /\ Len(html) \in Nat /\ \A i \in 1..Len(html) : html[i] \in T
  OBVIOUS
<1>2. ASSUME NEW i \in 1..Len(html) PROVE ShownAt(html, i) \in Seq(T)
  <2>1. Entity(html, i) => <<M!Named[html[i]]>> \in Seq(T)
    <3> SUFFICES ASSUME Entity(html, i) PROVE <<M!Named[html[i]]>> \in Seq(T)
      OBVIOUS
    <3> DEFINE c == M!Named[html[i]]
    <3>1. c \in T
      BY NamedTyped DEF Entity
    <3> HIDE DEF c
    <3>2. <<c>> \in Seq(T)
      BY <3>1
    <3> QED BY <3>2 DEF c
  <2>2. <<>> \in Seq(T) /\ <<html[i]>> \in Seq(T)
    BY <1>1
  <2> QED BY <2>1, <2>2 DEF ShownAt
<1>3. Shown(html) \in [1..Len(html) -> Seq(T)]
  BY <1>1, <1>2 DEF Shown
<1> QED BY <1>1, <1>3 DEF Shown

LEMMA AppendIs ==
  ASSUME NEW S, NEW s \in Seq(S), NEW x \in S
  PROVE  Append(s, x) = [i \in 1..(Len(s) + 1) |-> IF i = Len(s) + 1 THEN x ELSE s[i]]
<1> DEFINE t == Append(s, x)
<1>1. t \in Seq(S) /\ Len(t) = Len(s) + 1 /\ Len(s) \in Nat
  OBVIOUS
<1>2. \A i \in 1..(Len(s) + 1) : t[i] = IF i = Len(s) + 1 THEN x ELSE s[i]
  OBVIOUS
<1> HIDE DEF t
<1>3. t = [i \in 1..(Len(s) + 1) |-> t[i]]
  BY <1>1
<1> QED BY <1>2, <1>3 DEF t

Ends(html, c) == Len(html) > 0 /\ html[Len(html)] = c

\* A reader sees what is appended to a text that is not about to name an entity.
LEMMA ReadsAppend ==
  ASSUME NEW T, Tokens(T), NEW html \in Seq(T), ~Ends(html, "&"), NEW c \in T
  PROVE  M!Reads(html) \in Seq(T) /\ M!Reads(Append(html, c)) = Append(M!Reads(html), c)
<1> DEFINE n == Len(html)
           more == Append(html, c)
<1>1. n \in Nat /\ Len(more) = n + 1 /\ more[n + 1] = c /\ (\A i \in 1..n : more[i] = html[i])
      /\ DOMAIN html = 1..n /\ more \in Seq(T)
  OBVIOUS
<1> HIDE DEF more
<1>2. ASSUME NEW i \in 1..n PROVE ShownAt(more, i) = ShownAt(html, i)
  <2>1. Entity(more, i) <=> Entity(html, i)
    <3>1. i > 1 => i - 1 \in 1..n
      BY <1>1
    <3>2. i <= Len(more) /\ i <= Len(html)
      BY <1>1
    <3> QED BY <1>1, <3>1, <3>2 DEF Entity
  <2>2. Entity(more, i + 1) <=> Entity(html, i + 1)
    <3>1. CASE i = n
      <4>1. ~Entity(html, i + 1)
        BY <1>1, <3>1 DEF Entity
      <4>2. more[n] # "&"
        BY <1>1, <3>1 DEF Ends
      <4>3. (i + 1) - 1 = n
        BY <3>1
      <4> QED BY <4>1, <4>2, <4>3 DEF Entity
    <3>2. CASE i # n
      <4>1. i + 1 \in 1..n /\ (i + 1) - 1 = i /\ i + 1 <= Len(more) /\ i + 1 <= Len(html)
        <5>1. n = Len(html)
          OBVIOUS
        <5> HIDE DEF n
        <5>2. n \in Nat /\ (Len(more) = n + 1 \/ Len(more) = n + 2)
          BY <1>1
        <5>3. i + 1 \in 1..n /\ (i + 1) - 1 = i /\ i + 1 <= n + 1 /\ i + 1 <= n + 2 /\ i + 1 <= n
          BY <3>2, <5>2
        <5> QED BY <5>1, <5>2, <5>3
      <4> QED BY <1>1, <4>1 DEF Entity
    <3> QED BY <3>1, <3>2
  <2> QED BY <1>1, <2>1, <2>2 DEF ShownAt
<1>3. ShownAt(more, n + 1) = <<c>>
  <2>1. ~Entity(more, n + 1)
    <3>1. n + 1 > 1 => n > 0 /\ more[(n + 1) - 1] = html[n]
      BY <1>1
    <3>2. n > 0 => html[n] # "&"
      BY <1>1 DEF Ends
    <3> QED BY <1>1, <3>1, <3>2 DEF Entity
  <2>2. ~Entity(more, (n + 1) + 1)
    BY <1>1 DEF Entity
  <2> QED BY <1>1, <2>1, <2>2 DEF ShownAt
<1>4. Shown(more) = Append(Shown(html), <<c>>)
  <2> DEFINE s == Shown(html)
             m == Shown(more)
  <2>1. s \in Seq(Seq(T)) /\ Len(s) = n /\ (\A i \in 1..n : s[i] = ShownAt(html, i))
    BY ShownTyped
  <2>2. m \in Seq(Seq(T)) /\ Len(m) = n + 1 /\ (\A i \in 1..(n + 1) : m[i] = ShownAt(more, i))
    BY <1>1, ShownTyped
  <2> HIDE DEF s, m
  <2>3. Append(s, <<c>>) = [i \in 1..(n + 1) |-> IF i = n + 1 THEN <<c>> ELSE s[i]]
    BY <1>1, <2>1
  <2>4. m = [i \in 1..(n + 1) |-> m[i]]
    BY <1>1, <2>2
  <2>5. ASSUME NEW i \in 1..(n + 1) PROVE m[i] = IF i = n + 1 THEN <<c>> ELSE s[i]
    <3>1. i = n + 1 \/ (i \in 1..n /\ i # n + 1)
      BY <1>1
    <3> QED BY <1>2, <1>3, <2>1, <2>2, <3>1
  <2> QED BY <2>3, <2>4, <2>5 DEF s, m
<1> DEFINE r == M!FlattenSeq(Shown(html))
<1>5. r \in Seq(T) /\ M!FlattenSeq(Append(Shown(html), <<c>>)) = r \o <<c>>
  <2>1. Shown(html) \in Seq(Seq(T)) /\ <<c>> \in Seq(T)
    BY ShownTyped
  <2> QED BY <2>1, FlattenAppend
<1> HIDE DEF r
<1>6. r \o <<c>> = Append(r, c)
  BY <1>5
<1> QED BY <1>4, <1>5, <1>6, ReadsShown DEF more, r

\* A reader sees the character an entity names.
LEMMA ReadsEntity ==
  ASSUME NEW T, Tokens(T), NEW html \in Seq(T), ~Ends(html, "&"), NEW e \in DOMAIN M!Named
  PROVE  M!Reads(Pair(html, "&", e)) = Append(M!Reads(html), M!Named[e])
<1> DEFINE n == Len(html)
           amp == "&"
           half == Append(html, amp)
           more == Append(half, e)
           c == M!Named[e]
           s == Shown(html)
<1>0. amp \in T /\ e \in T /\ c \in T /\ amp \notin DOMAIN M!Named
  BY NamedTyped
<1>1. /\ n \in Nat /\ Len(more) = n + 2 /\ more[n + 1] = amp /\ more[n + 2] = e
      /\ (\A i \in 1..n : more[i] = html[i]) /\ DOMAIN html = 1..n
      /\ more \in Seq(T) /\ half \in Seq(T)
  <2> HIDE DEF amp
  <2>1. half \in Seq(T) /\ Len(half) = n + 1 /\ half[n + 1] = amp /\ \A i \in 1..n : half[i] = html[i]
    BY <1>0
  <2>2. n \in Nat /\ DOMAIN html = 1..n
    OBVIOUS
  <2> HIDE DEF half
  <2>3. more \in Seq(T) /\ Len(more) = n + 2 /\ more[n + 2] = e /\ \A i \in 1..(n + 1) : more[i] = half[i]
    BY <1>0, <2>1, <2>2
  <2>4. n + 1 \in 1..(n + 1) /\ \A i \in 1..n : i \in 1..(n + 1)
    BY <2>2
  <2> HIDE DEF more
  <2> QED BY <2>1, <2>2, <2>3, <2>4
<1>2. Pair(html, amp, e) = more
  BY <1>0, PairAppends
<1> HIDE DEF more, half
<1>3. ASSUME NEW i \in 1..n PROVE ShownAt(more, i) = ShownAt(html, i)
  <2>1. Entity(more, i) <=> Entity(html, i)
    <3>1. i > 1 => i - 1 \in 1..n
      BY <1>1
    <3>2. i <= Len(more) /\ i <= Len(html)
      BY <1>1
    <3> QED BY <1>1, <3>1, <3>2 DEF Entity
  <2>2. Entity(more, i + 1) <=> Entity(html, i + 1)
    <3>1. CASE i = n
      <4>1. ~Entity(html, i + 1)
        BY <1>1, <3>1 DEF Entity
      <4>2. more[i + 1] = amp
        BY <1>1, <3>1
      <4> QED BY <1>0, <4>1, <4>2 DEF Entity
    <3>2. CASE i # n
      <4>1. i + 1 \in 1..n /\ (i + 1) - 1 = i /\ i + 1 <= Len(more) /\ i + 1 <= Len(html)
        <5>1. n = Len(html)
          OBVIOUS
        <5> HIDE DEF n
        <5>2. n \in Nat /\ (Len(more) = n + 1 \/ Len(more) = n + 2)
          BY <1>1
        <5>3. i + 1 \in 1..n /\ (i + 1) - 1 = i /\ i + 1 <= n + 1 /\ i + 1 <= n + 2 /\ i + 1 <= n
          BY <3>2, <5>2
        <5> QED BY <5>1, <5>2, <5>3
      <4> QED BY <1>1, <4>1 DEF Entity
    <3> QED BY <3>1, <3>2
  <2> QED BY <1>1, <2>1, <2>2 DEF ShownAt
<1>4. Entity(more, n + 2)
  <2>1. n + 2 > 1 /\ n + 2 <= Len(more) /\ (n + 2) - 1 = n + 1
    BY <1>1
  <2> QED BY <1>1, <2>1 DEF Entity, amp
<1>5. ShownAt(more, n + 1) = <<>> /\ ShownAt(more, n + 2) = <<c>>
  <2>1. ~Entity(more, n + 1)
    BY <1>0, <1>1 DEF Entity
  <2>2. (n + 1) + 1 = n + 2
    BY <1>1
  <2> QED BY <1>1, <1>4, <2>1, <2>2 DEF ShownAt
<1> HIDE DEF amp, c
<1>6. Shown(more) = Append(Append(s, <<>>), <<c>>)
  <2> DEFINE m == Shown(more)
             h == Append(s, <<>>)
  <2>1. s \in Seq(Seq(T)) /\ Len(s) = n /\ (\A i \in 1..n : s[i] = ShownAt(html, i))
    BY ShownTyped
  <2>2. m \in Seq(Seq(T)) /\ Len(m) = n + 2 /\ (\A i \in 1..(n + 2) : m[i] = ShownAt(more, i))
    BY <1>1, ShownTyped
  <2> HIDE DEF s, m
  <2>3. h = [i \in 1..(n + 1) |-> IF i = n + 1 THEN <<>> ELSE s[i]]
    <3> DEFINE empty == <<>>
               l == Append(s, empty)
    <3>1. empty \in Seq(T)
      OBVIOUS
    <3> HIDE DEF empty
    <3>2. l = [i \in 1..(Len(s) + 1) |-> IF i = Len(s) + 1 THEN empty ELSE s[i]]
      BY <2>1, <3>1, AppendIs
    <3> HIDE DEF l
    <3>3. l = [i \in 1..(n + 1) |-> IF i = n + 1 THEN empty ELSE s[i]]
      BY <2>1, <3>2
    <3> QED BY <3>3 DEF empty, h, l
  <2>31. h \in Seq(Seq(T)) /\ Len(h) = n + 1
    <3>1. <<>> \in Seq(T)
      OBVIOUS
    <3> QED BY <1>1, <2>1, <3>1
  <2>32. \A i \in 1..(n + 1) : h[i] = IF i = n + 1 THEN <<>> ELSE s[i]
    BY <2>3
  <2> HIDE DEF h
  <2>4. Append(h, <<c>>) = [i \in 1..(n + 2) |-> IF i = n + 2 THEN <<c>> ELSE h[i]]
    BY <1>1, <2>31
  <2>5. m = [i \in 1..(n + 2) |-> m[i]]
    BY <1>1, <2>2
  <2>6. ASSUME NEW i \in 1..(n + 2) PROVE m[i] = IF i = n + 2 THEN <<c>> ELSE h[i]
    <3>1. i = n + 2 \/ (i = n + 1 /\ i \in 1..(n + 1) /\ i # n + 2)
            \/ (i \in 1..n /\ i \in 1..(n + 1) /\ i # n + 1 /\ i # n + 2)
      BY <1>1, SMTT(30)
    <3> QED BY <1>3, <1>5, <2>1, <2>2, <2>32, <3>1
  <2>7. m = Append(h, <<c>>)
    BY <2>4, <2>5, <2>6
  <2> QED BY <2>7 DEF m, h
<1> DEFINE r == M!FlattenSeq(s)
<1>7. s \in Seq(Seq(T))
  BY ShownTyped
<1> HIDE DEF s
<1>8. r \in Seq(T) /\ M!FlattenSeq(Append(s, <<>>)) = r \o <<>> /\ r \o <<>> = r
  <2>1. <<>> \in Seq(T)
    OBVIOUS
  <2>2. r \in Seq(T) /\ M!FlattenSeq(Append(s, <<>>)) = r \o <<>>
    BY <1>7, <2>1, FlattenAppend
  <2> HIDE DEF r
  <2> QED BY <2>2
<1> DEFINE half2 == Append(s, <<>>)
<1>9. half2 \in Seq(Seq(T)) /\ <<c>> \in Seq(T)
  <2>1. <<>> \in Seq(T)
    OBVIOUS
  <2> QED BY <1>0, <1>7, <2>1
<1>10. M!FlattenSeq(Append(half2, <<c>>)) = M!FlattenSeq(half2) \o <<c>>
  <2> HIDE DEF half2
  <2> QED BY <1>9, FlattenAppend
<1> HIDE DEF r
<1>11. r \o <<c>> = Append(r, c)
  BY <1>0, <1>8
<1>12. M!Reads(more) = Append(r, c)
  BY <1>6, <1>8, <1>10, <1>11, ReadsShown
<1>13. M!Reads(html) = r
  BY ReadsShown DEF r, s
<1> QED BY <1>2, <1>12, <1>13 DEF amp, c

\* A text that is not empty has a last character.
Splits(T, text, n) == \E p \in Seq(T), c \in T : Len(p) = n /\ text = Append(p, c)

LEMMA LastCharacter ==
  ASSUME NEW T, NEW text \in Seq(T), NEW n \in Nat, Len(text) = n + 1
  PROVE  Splits(T, text, n)
<1> DEFINE p == [i \in 1..n |-> text[i]]
           c == text[n + 1]
<1>1. n + 1 \in 1..Len(text) /\ \A i \in 1..n : i \in 1..Len(text)
  OBVIOUS
<1>2. c \in T /\ p \in [1..n -> T]
  BY <1>1
<1>3. p \in Seq(T) /\ Len(p) = n /\ \A i \in 1..n : p[i] = text[i]
  BY <1>2
<1> HIDE DEF p, c
<1>4. Append(p, c) = [i \in 1..(Len(p) + 1) |-> IF i = Len(p) + 1 THEN c ELSE p[i]]
  BY <1>2, <1>3, AppendIs
<1>5. text = [i \in 1..(n + 1) |-> text[i]]
  OBVIOUS
<1>6. ASSUME NEW i \in 1..(n + 1) PROVE text[i] = IF i = n + 1 THEN c ELSE p[i]
  <2>1. CASE i = n + 1
    BY <2>1 DEF c
  <2>2. CASE i # n + 1
    <3>1. i \in 1..n
      BY <2>2
    <3> QED BY <1>3, <2>2, <3>1
  <2> QED BY <2>1, <2>2
<1>7. Append(p, c) = [i \in 1..(n + 1) |-> IF i = n + 1 THEN c ELSE p[i]]
  BY <1>3, <1>4
<1>8. text = Append(p, c)
  BY <1>5, <1>6, <1>7
<1> QED BY <1>2, <1>3, <1>8 DEF Splits

\* What a text is in a message.
Plain(html) == \A i \in 1..Len(html) : html[i] \notin {"<", ">", "quote"}
Escaped(T, text) ==
  LET html == M!EscapeHtml(text)
  IN  html \in Seq(T) /\ M!Reads(html) = text /\ ~Ends(html, "&") /\ Plain(html)

LEMMA EscapedMore ==
  ASSUME NEW T, Tokens(T), NEW text \in Seq(T), Escaped(T, text), NEW c \in T
  PROVE  Escaped(T, Append(text, c))
<1> DEFINE html == M!EscapeHtml(text)
           more == M!EscapeHtml(Append(text, c))
<1>1. html \in Seq(T) /\ M!Reads(html) = text /\ ~Ends(html, "&") /\ Plain(html)
  BY DEF Escaped
<1>2. /\ c \notin Markup => more = Append(html, c)
      /\ \A e \in DOMAIN M!Named : c = M!Named[e] => more = Pair(html, "&", e)
  BY EscapeAppend
<1> HIDE DEF html, more
<1>3. CASE c \notin Markup
  <2> DEFINE longer == Append(html, c)
  <2>1. M!Reads(longer) = Append(text, c)
    BY <1>1, ReadsAppend
  <2>2. longer \in Seq(T) /\ Len(longer) = Len(html) + 1 /\ longer[Len(html) + 1] = c /\ Len(html) \in Nat
        /\ \A i \in 1..Len(html) : longer[i] = html[i]
    BY <1>1
  <2> HIDE DEF longer
  <2>3. c # "&" /\ c \notin {"<", ">", "quote"}
    BY <1>3 DEF Markup
  <2>4. ~Ends(longer, "&")
    BY <2>2, <2>3 DEF Ends
  <2>5. Plain(longer)
    <3> SUFFICES ASSUME NEW i \in 1..Len(longer) PROVE longer[i] \notin {"<", ">", "quote"}
      BY DEF Plain
    <3>1. i = Len(html) + 1 \/ i \in 1..Len(html)
      BY <2>2
    <3> QED BY <1>1, <2>2, <2>3, <3>1 DEF Plain
  <2> QED BY <1>2, <1>3, <2>1, <2>2, <2>4, <2>5 DEF Escaped, longer, more
<1>4. CASE c \in Markup
  <2>1. PICK e \in DOMAIN M!Named : c = M!Named[e]
    <3>1. DOMAIN M!Named = {"amp", "lt", "gt", "quot"}
      BY DEF M!Named
    <3>2. M!Named["amp"] = "&" /\ M!Named["lt"] = "<" /\ M!Named["gt"] = ">" /\ M!Named["quot"] = "quote"
      BY DEF M!Named
    <3>3. c = "&" \/ c = "<" \/ c = ">" \/ c = "quote"
      BY <1>4 DEF Markup
    <3> QED BY <3>1, <3>2, <3>3
  <2> DEFINE half == Append(html, "&")
             longer == Append(half, e)
  <2>2. e \in T /\ e \notin Markup /\ "&" \in T
    BY NamedTyped
  <2>3. Pair(html, "&", e) = longer
    BY <1>1, <2>2, PairAppends
  <2>4. M!Reads(Pair(html, "&", e)) = Append(text, c)
    BY <1>1, <2>1, ReadsEntity
  <2>5. half \in Seq(T) /\ Len(half) = Len(html) + 1 /\ half[Len(html) + 1] = "&" /\ Len(html) \in Nat
        /\ \A i \in 1..Len(html) : half[i] = html[i]
    BY <1>1, <2>2
  <2> HIDE DEF half
  <2>6. longer \in Seq(T) /\ Len(longer) = Len(half) + 1 /\ longer[Len(half) + 1] = e
        /\ \A i \in 1..Len(half) : longer[i] = half[i]
    BY <2>2, <2>5
  <2> HIDE DEF longer
  <2>7. e # "&" /\ e \notin {"<", ">", "quote"} /\ "&" \notin {"<", ">", "quote"}
    BY <2>2 DEF Markup
  <2>8. ~Ends(longer, "&")
    BY <2>5, <2>6, <2>7 DEF Ends
  <2>9. Plain(longer)
    <3> SUFFICES ASSUME NEW i \in 1..Len(longer) PROVE longer[i] \notin {"<", ">", "quote"}
      BY DEF Plain
    <3>1. i = Len(half) + 1 \/ (i = Len(html) + 1 /\ i \in 1..Len(half))
             \/ (i \in 1..Len(html) /\ i \in 1..Len(half))
      BY <2>5, <2>6
    <3> QED BY <1>1, <2>5, <2>6, <2>7, <3>1 DEF Plain
  <2>10. more = longer
    BY <1>2, <2>1, <2>3
  <2> QED BY <2>3, <2>4, <2>6, <2>8, <2>9, <2>10 DEF Escaped, more
<1> QED BY <1>3, <1>4

LEMMA EscapedNothing == ASSUME NEW T PROVE Escaped(T, <<>>)
<1>1. M!EscapeHtml(<<>>) = <<>>
  BY SubstituteNothing DEF M!EscapeHtml
<1>2. Len(<<>>) = 0 /\ DOMAIN <<>> = {} /\ <<>> \in Seq(T)
  OBVIOUS
<1>3. M!Reads(<<>>) = <<>>
  <2>1. Shown(<<>>) = <<>>
    BY <1>2 DEF Shown
  <2>2. M!FlattenSeq(<<>>) = <<>>
    BY <1>2 DEF M!FlattenSeq
  <2> QED BY <2>1, <2>2, ReadsShown
<1>4. ~Ends(<<>>, "&") /\ Plain(<<>>)
  BY <1>2 DEF Ends, Plain
<1> QED BY <1>1, <1>2, <1>3, <1>4 DEF Escaped

LEMMA EscapedAll ==
  ASSUME NEW T, Tokens(T), NEW text \in Seq(T) PROVE Escaped(T, text)
<1> DEFINE Bad == {n \in Nat : \E s \in Seq(T) : Len(s) = n /\ ~Escaped(T, s)}
<1>1. ASSUME Bad # {} PROVE FALSE
  <2>1. PICK n \in Bad : \A j \in Bad : n <= j
    <3> HIDE DEF Bad
    <3>1. Bad \subseteq Nat
      BY DEF Bad
    <3> QED BY <1>1, <3>1, LeastNumber
  <2>2. PICK s \in Seq(T) : Len(s) = n /\ ~Escaped(T, s)
    BY <2>1
  <2>3. CASE n = 0
    <3>1. s = <<>>
      BY <2>2, <2>3
    <3> QED BY <2>2, <3>1, EscapedNothing
  <2>4. CASE n # 0
    <3>1. n - 1 \in Nat /\ (n - 1) + 1 = n /\ ~ (n <= n - 1)
      BY <2>1, <2>4
    <3> DEFINE m == n - 1
    <3> HIDE DEF m
    <3>2. PICK p \in Seq(T), c \in T : Len(p) = m /\ s = Append(p, c)
      <4>1. m \in Nat /\ Len(s) = m + 1
        BY <2>2, <3>1 DEF m
      <4>2. Splits(T, s, m)
        BY <4>1, LastCharacter
      <4> QED BY <4>2 DEF Splits
    <3>3. Escaped(T, p)
      BY <2>1, <3>1, <3>2 DEF m
    <3> QED BY <2>2, <3>2, <3>3, EscapedMore
  <2> QED BY <2>3, <2>4
<1>2. Len(text) \notin Bad /\ Len(text) \in Nat
  BY <1>1
<1> QED BY <1>2

\* Whatever a user called a wallet or a payment, a message shows it as it is, and no
\* character of it is markup (escapeHtml of packages/telegram/src/api.ts).
THEOREM TextsEscaped ==
  ASSUME NEW T, Tokens(T), NEW texts \in SUBSET Seq(T) PROVE M!EscapeSound(texts)
<1> SUFFICES ASSUME NEW text \in texts
             PROVE  /\ M!Reads(M!EscapeHtml(text)) = text
                    /\ M!ToSet(M!EscapeHtml(text)) \cap {"<", ">", "quote"} = {}
  BY DEF M!EscapeSound
<1> DEFINE html == M!EscapeHtml(text)
<1>1. html \in Seq(T) /\ M!Reads(html) = text /\ Plain(html)
  BY EscapedAll DEF Escaped
<1> HIDE DEF html
<1>2. DOMAIN html = 1..Len(html)
  BY <1>1
<1>3. M!ToSet(html) \cap {"<", ">", "quote"} = {}
  BY <1>1, <1>2 DEF M!ToSet, Plain
<1> QED BY <1>1, <1>3 DEF html

-----------------------------------------------------------------------------
(* Links *)

LEMMA AppendAt ==
  ASSUME NEW T, NEW x \in Seq(T), NEW c \in T, NEW n \in Nat, Len(x) = n
  PROVE  /\ Append(x, c) \in Seq(T) /\ Len(Append(x, c)) = n + 1 /\ Append(x, c)[n + 1] = c
         /\ \A i \in 1..n : Append(x, c)[i] = x[i]
OBVIOUS

LEMMA ConcatAt ==
  ASSUME NEW T, NEW x \in Seq(T), NEW y \in Seq(T), NEW m \in Nat, NEW n \in Nat, Len(x) = m, Len(y) = n
  PROVE  /\ x \o y \in Seq(T) /\ Len(x \o y) = m + n
         /\ \A i \in 1..m : (x \o y)[i] = x[i]
         /\ \A j \in 1..n : (x \o y)[m + j] = y[j]
OBVIOUS

LEMMA TwoTokens == ASSUME NEW a, NEW b PROVE Append(<<a>>, b) = <<a, b>>
<1> DEFINE T == {a, b}
           x == <<a>>
           q == Append(x, b)
<1>1. x \in Seq(T) /\ Len(x) = 1 /\ x[1] = a /\ b \in T
  OBVIOUS
<1> HIDE DEF x, T
<1>2. q \in Seq(T) /\ Len(q) = 2 /\ q[1] = a /\ q[2] = b
  <2> DEFINE m == 1
  <2>1. m \in Nat /\ m + 1 = 2 /\ 1 \in 1..m /\ Len(x) = m
    BY <1>1
  <2> HIDE DEF m
  <2>2. q \in Seq(T) /\ Len(q) = m + 1 /\ q[m + 1] = b /\ \A i \in 1..m : q[i] = x[i]
    BY <1>1, <2>1, AppendAt
  <2> HIDE DEF q
  <2> QED BY <1>1, <2>1, <2>2
<1> HIDE DEF q
<1>3. q = <<a, b>>
  BY <1>2
<1> QED BY <1>3 DEF q, x

LEMMA TwoAndTwo ==
  ASSUME NEW p, NEW u, NEW a, NEW b PROVE <<p, u>> \o <<a, b>> = <<p, u, a, b>>
<1> DEFINE T == {p, u, a, b}
           x == <<p, u>>
           y == <<a, b>>
           q == x \o y
<1>1. x \in Seq(T) /\ Len(x) = 2 /\ x[1] = p /\ x[2] = u
  OBVIOUS
<1>2. y \in Seq(T) /\ Len(y) = 2 /\ y[1] = a /\ y[2] = b
  OBVIOUS
<1> HIDE DEF x, y, T
<1>3. q \in Seq(T) /\ Len(q) = 4 /\ q[1] = p /\ q[2] = u /\ q[3] = a /\ q[4] = b
  <2> DEFINE m == 2
  <2>1. m \in Nat /\ m + m = 4 /\ 1 \in 1..m /\ 2 \in 1..m /\ m + 1 = 3 /\ m + 2 = 4
    OBVIOUS
  <2>2. Len(x) = m /\ Len(y) = m
    BY <1>1, <1>2
  <2> HIDE DEF m
  <2>3. /\ q \in Seq(T) /\ Len(q) = m + m
        /\ \A i \in 1..m : q[i] = x[i]
        /\ \A j \in 1..m : q[m + j] = y[j]
    <3>1. x \in Seq(T) /\ y \in Seq(T) /\ m \in Nat
      BY <1>1, <1>2, <2>1
    <3> QED BY <2>2, <3>1, ConcatAt
  <2> HIDE DEF q
  <2> QED BY <1>1, <1>2, <2>1, <2>3
<1> HIDE DEF q
<1>4. q = <<p, u, a, b>>
  BY <1>3
<1> QED BY <1>4 DEF x, y, q

LEMMA Compacted ==
  ASSUME NEW a, NEW b, a # "-", b # "-" PROVE M!CompactUuid(<<a, "-", b>>) = <<a, b>>
<1> DEFINE dash == "-"
           nothing == <<>>
           T == {a, b, dash}
           S(text) == M!Substitute(text, dash, nothing)
           t1 == Append(nothing, a)
           t2 == Append(t1, dash)
           t3 == Append(t2, b)
<1>1. /\ nothing \in Seq(T) /\ t1 \in Seq(T) /\ t2 \in Seq(T) /\ a \in T /\ b \in T /\ dash \in T
      /\ <<a, dash, b>> = t3 /\ a # dash /\ b # dash
  OBVIOUS
<1>2. S(nothing) = nothing
  BY SubstituteNothing
<1>3. S(t1) = Append(S(nothing), a)
  <2> HIDE DEF T, nothing, dash
  <2>1. nothing \in Seq(T) /\ a \in T /\ nothing \in Seq(T) /\ a # dash
    BY <1>1
  <2> QED BY <2>1, SubstituteAppend
<1>4. S(t2) = S(t1) \o nothing
  <2> HIDE DEF T, nothing, dash, t1
  <2>1. t1 \in Seq(T) /\ dash \in T /\ nothing \in Seq(T)
    BY <1>1
  <2> QED BY <2>1, SubstituteAppend
<1>5. S(t3) = Append(S(t2), b)
  <2> HIDE DEF T, nothing, dash, t1, t2
  <2>1. t2 \in Seq(T) /\ b \in T /\ nothing \in Seq(T) /\ b # dash
    BY <1>1
  <2> QED BY <2>1, SubstituteAppend
<1>6. S(t1) = <<a>>
  <2>1. Append(nothing, a) = <<a>>
    OBVIOUS
  <2> HIDE DEF S
  <2> QED BY <1>2, <1>3, <2>1
<1>7. S(t2) = <<a>>
  <2>1. <<a>> \o nothing = <<a>>
    OBVIOUS
  <2> HIDE DEF S
  <2> QED BY <1>4, <1>6, <2>1
<1>8. S(t3) = <<a, b>>
  <2>1. Append(<<a>>, b) = <<a, b>>
    BY TwoTokens
  <2> HIDE DEF S
  <2> QED BY <1>5, <1>7, <2>1
<1>9. M!CompactUuid(<<a, dash, b>>) = S(<<a, dash, b>>)
  BY DEF M!CompactUuid
<1> HIDE DEF S, t3
<1> QED BY <1>1, <1>8, <1>9

LEMMA FourTokens ==
  ASSUME NEW p, NEW u, NEW a, NEW b, NEW q, q = <<p, u, a, b>>
  PROVE  /\ Len(q) = 4 /\ q[1] = p /\ q[2] = u /\ q[3] = a /\ q[4] = b
         /\ SubSeq(q, 3, 4) = <<a, b>> /\ M!ToSet(q) = {p, u, a, b}
<1>1. Len(q) = 4 /\ q[1] = p /\ q[2] = u /\ q[3] = a /\ q[4] = b /\ DOMAIN q = 1..4
  OBVIOUS
<1>2. SubSeq(q, 3, 4) = <<a, b>>
  <2> DEFINE s == SubSeq(q, 3, 4)
             T == {p, u, a, b}
  <2>0. q \in Seq(T)
    OBVIOUS
  <2> HIDE DEF T
  <2>1. s \in Seq(T) /\ Len(s) = 2 /\ s[1] = q[3] /\ s[2] = q[4]
    BY <1>1, <2>0
  <2> HIDE DEF s
  <2>2. s = <<s[1], s[2]>>
    BY <2>1
  <2> QED BY <1>1, <2>1, <2>2 DEF s
<1>3. M!ToSet(q) = {p, u, a, b}
  <2>1. 1..4 = {1, 2, 3, 4}
    OBVIOUS
  <2> QED BY <1>1, <2>1 DEF M!ToSet
<1> QED BY <1>1, <1>2, <1>3

LEMMA PrefixTells ==
  ASSUME NEW kind \in DOMAIN M!RoutePrefix
  PROVE  /\ {k \in DOMAIN M!RoutePrefix : M!RoutePrefix[k] = M!RoutePrefix[kind]} = {kind}
         /\ M!RoutePrefix[kind] # "s" /\ M!RoutePrefix[kind] # "%" /\ kind # "screen"
<1> DEFINE P == [transaction |-> "tx", wallet |-> "w", scheduled |-> "sp", expectedIncome |-> "ei"]
<1>1. P = M!RoutePrefix
  BY DEF M!RoutePrefix
<1>2. kind \in DOMAIN P
  BY <1>1
<1>3. P[kind] # "s" /\ P[kind] # "%" /\ kind # "screen"
  BY <1>2
<1>4. \A j, k \in DOMAIN P : P[j] = P[k] => j = k
  OBVIOUS
<1>5. {k \in DOMAIN P : P[k] = P[kind]} = {kind}
  BY <1>2, <1>4
<1> HIDE DEF P
<1> QED BY <1>1, <1>3, <1>5

LEMMA IdLeads ==
  ASSUME NEW kind \in DOMAIN M!RoutePrefix, NEW id \in M!Ids
  PROVE  M!ParseStartParam(M!MiniAppLink(M!StartParam(kind, id))) = [kind |-> kind, value |-> id]
<1>1. PICK a \in M!Hex, b \in M!Hex : id = <<a, "-", b>>
  BY DEF M!Ids
<1>2. a # "-" /\ b # "-" /\ a # "%" /\ b # "%"
  BY DEF M!Hex
<1> DEFINE u == M!Bar
           p == M!RoutePrefix[kind]
           q == <<p, u, a, b>>
<1>3. u # "%"
  BY Zenon DEF M!Bar
<1> HIDE DEF u
<1>4. M!StartParam(kind, id) = q
  <2>1. M!CompactUuid(id) = <<a, b>>
    BY <1>1, <1>2, Compacted
  <2>2. <<p, u>> \o <<a, b>> = q
    BY TwoAndTwo
  <2> HIDE DEF p, q
  <2> QED BY <2>1, <2>2 DEF M!StartParam, u, p
<1>5. /\ Len(q) = 4 /\ q[1] = p /\ q[2] = u /\ SubSeq(q, 3, 4) = <<a, b>>
      /\ M!ToSet(q) = {p, u, a, b}
  <2> HIDE DEF p, u
  <2>1. q = <<p, u, a, b>>
    OBVIOUS
  <2> HIDE DEF q
  <2> QED BY <2>1, FourTokens
<1>6. p # "s" /\ p # "%" /\ {k \in DOMAIN M!RoutePrefix : M!RoutePrefix[k] = p} = {kind}
  BY PrefixTells
<1> HIDE DEF p, q
<1>7. M!SafeParam(q)
  BY <1>2, <1>3, <1>5, <1>6 DEF M!SafeParam, M!MaxParam
<1>8. M!ExpandUuid(<<a, b>>) = id /\ id # <<>>
  <2> DEFINE v == <<a, b>>
  <2>1. Len(v) = 2 /\ v[1] = a /\ v[2] = b /\ M!ToSet(v) \subseteq M!HexOfAnyCase
    <3>1. Len(v) = 2 /\ v[1] = a /\ v[2] = b /\ DOMAIN v = {1, 2}
      OBVIOUS
    <3> HIDE DEF v
    <3> QED BY <1>1, <3>1 DEF M!ToSet, M!HexOfAnyCase
  <2>2. id # <<>>
    BY <1>1
  <2> HIDE DEF v
  <2> QED BY <1>1, <2>1, <2>2 DEF M!ExpandUuid, v
<1>9. M!MiniAppLink(q) = q
  BY <1>7 DEF M!MiniAppLink
<1>10. M!ParseStartParam(q) = [kind |-> kind, value |-> id]
  <2> DEFINE kinds == {k \in DOMAIN M!RoutePrefix : M!RoutePrefix[k] = q[1]}
  <2>1. kinds = {kind} /\ kinds # {} /\ (CHOOSE k \in kinds : TRUE) = kind
    BY <1>5, <1>6
  <2> HIDE DEF kinds
  <2>2. Len(q) = 4 /\ ~ (4 < 3) /\ q[2] = M!Bar /\ SubSeq(q, 3, Len(q)) = <<a, b>>
    BY <1>5 DEF u
  <2>3. q[1] # "s"
    BY <1>5, <1>6
  <2> DEFINE value == SubSeq(q, 3, Len(q))
  <2>4. M!ParseStartParam(q) = IF kinds # {} /\ M!ExpandUuid(value) # <<>>
                               THEN [kind |-> CHOOSE k \in kinds : TRUE, value |-> M!ExpandUuid(value)]
                               ELSE M!Nowhere
    BY <1>7, <2>2, <2>3 DEF M!ParseStartParam, kinds
  <2>5. M!ExpandUuid(value) = id /\ id # <<>>
    BY <1>8, <2>2
  <2> HIDE DEF value
  <2> QED BY <2>1, <2>4, <2>5
<1> QED BY <1>4, <1>9, <1>10

LEMMA ThreeTokens ==
  ASSUME NEW p, NEW u, NEW a, NEW q, q = <<p, u, a>>
  PROVE  /\ Len(q) = 3 /\ q[1] = p /\ q[2] = u /\ SubSeq(q, 3, 3) = <<a>>
         /\ M!ToSet(q) = {p, u, a}
<1>1. Len(q) = 3 /\ q[1] = p /\ q[2] = u /\ q[3] = a /\ DOMAIN q = 1..3
  OBVIOUS
<1>2. SubSeq(q, 3, 3) = <<a>>
  <2> DEFINE s == SubSeq(q, 3, 3)
             T == {p, u, a}
  <2>0. q \in Seq(T)
    OBVIOUS
  <2> HIDE DEF T
  <2>1. s \in Seq(T) /\ Len(s) = 1 /\ s[1] = q[3]
    BY <1>1, <2>0
  <2> HIDE DEF s
  <2>2. s = <<s[1]>>
    BY <2>1
  <2> QED BY <1>1, <2>1, <2>2 DEF s
<1>3. M!ToSet(q) = {p, u, a}
  <2>1. 1..3 = {1, 2, 3}
    OBVIOUS
  <2> QED BY <1>1, <2>1 DEF M!ToSet
<1> QED BY <1>1, <1>2, <1>3

LEMMA ScreenLeads ==
  ASSUME NEW name \in M!Screens
  PROVE  M!ParseStartParam(M!MiniAppLink(M!ScreenParam(name))).value = <<name>>
<1> DEFINE u == M!Bar
           q == <<"s", u, name>>
           v == SubSeq(q, 3, 3)
<1>1. u # "%"
  BY Zenon DEF M!Bar
<1>2. /\ Len(q) = 3 /\ q[1] = "s" /\ q[2] = u /\ v = <<name>>
      /\ M!ToSet(q) = {"s", u, name}
  <2> HIDE DEF u
  <2>1. q = <<"s", u, name>>
    OBVIOUS
  <2> HIDE DEF q
  <2> QED BY <2>1, ThreeTokens
<1>3. M!ScreenParam(name) = q
  BY DEF M!ScreenParam
<1> HIDE DEF q
<1>4. M!SafeParam(q) /\ M!MiniAppLink(q) = q
  <2>1. M!SafeParam(q)
    <3> HIDE DEF u
    <3> QED BY <1>1, <1>2 DEF M!SafeParam, M!MaxParam, M!Screens
  <2> QED BY <2>1 DEF M!MiniAppLink
<1>5. Len(v) = 1 /\ v[1] \in M!SmallWords
  <2>1. Len(<<name>>) = 1 /\ <<name>>[1] = name
    OBVIOUS
  <2> HIDE DEF v
  <2> QED BY <1>2, <2>1 DEF M!SmallWords
<1>6. M!ParseStartParam(q) = [kind |-> "screen", value |-> v]
  <2> HIDE DEF v
  <2>1. ~ (~ M!SafeParam(q) \/ Len(q) < 3 \/ q[2] # M!Bar) /\ Len(q) = 3
    BY <1>2, <1>4
  <2>2. SubSeq(q, 3, Len(q)) = v
    BY <1>2 DEF v
  <2> QED BY <1>2, <1>5, <2>1, <2>2 DEF M!ParseStartParam
<1>7. M!ParseStartParam(q).value = v
  BY <1>6
<1> QED BY <1>2, <1>3, <1>4, <1>7

LEMMA Parts ==
  ASSUME NEW S, NEW q \in Seq(S), Len(q) >= 3, NEW v, v = SubSeq(q, 3, Len(q))
  PROVE  v \in Seq(S) /\ Len(v) = Len(q) - 2 /\ \A i \in 1..Len(v) : v[i] = q[i + 2]
  OBVIOUS

\* Whatever start parameter opens something was made for it.
LEMMA OpensWhatItWasMadeFor ==
  ASSUME NEW S, NEW q \in Seq(S), NEW route, route = M!ParseStartParam(q), route # M!Nowhere
  PROVE  q = IF route.kind = "screen" THEN M!ScreenParam(route.value[1])
             ELSE M!StartParam(route.kind, route.value)
<1> DEFINE v == SubSeq(q, 3, Len(q))
           kinds == {k \in DOMAIN M!RoutePrefix : M!RoutePrefix[k] = q[1]}
           u == M!Bar
<1>1. Len(q) >= 3 /\ q[2] = u
  BY DEF M!ParseStartParam
<1>2. v \in Seq(S) /\ Len(v) = Len(q) - 2 /\ \A i \in 1..Len(v) : v[i] = q[i + 2]
  BY <1>1
<1>3. route = IF q[1] = "s" /\ Len(v) = 1 /\ v[1] \in M!SmallWords
              THEN [kind |-> "screen", value |-> v]
              ELSE IF kinds # {} /\ M!ExpandUuid(v) # <<>>
              THEN [kind |-> CHOOSE k \in kinds : TRUE, value |-> M!ExpandUuid(v)]
              ELSE M!Nowhere
  BY <1>1 DEF M!ParseStartParam
<1> HIDE DEF v, kinds, u
<1>4. CASE q[1] = "s" /\ Len(v) = 1 /\ v[1] \in M!SmallWords
  <2>1. route.kind = "screen" /\ route.value = v
    BY <1>3, <1>4
  <2>2. Len(q) = 3 /\ q[3] = v[1]
    <3>1. Len(q) \in Nat /\ 1 \in 1..1 /\ 1 + 2 = 3
      OBVIOUS
    <3>2. v[1] = q[1 + 2]
      BY <1>2, <1>4, <3>1
    <3>3. \A n \in Nat : 1 = n - 2 => n = 3
      OBVIOUS
    <3>4. Len(q) = 3
      BY <1>2, <1>4, <3>1, <3>3
    <3> QED BY <3>1, <3>2, <3>4
  <2>3. q = <<q[1], q[2], q[3]>>
    BY <2>2
  <2>4. q = M!ScreenParam(v[1])
    BY <1>1, <1>4, <2>2, <2>3 DEF M!ScreenParam, u
  <2> QED BY <2>1, <2>4
<1>5. CASE ~ (q[1] = "s" /\ Len(v) = 1 /\ v[1] \in M!SmallWords)
  <2>1. kinds # {} /\ M!ExpandUuid(v) # <<>>
    BY <1>3, <1>5
  <2>2. PICK kind \in kinds : route = [kind |-> kind, value |-> M!ExpandUuid(v)]
    <3> DEFINE e == M!ExpandUuid(v)
    <3> HIDE DEF e
    <3> QED BY <1>3, <1>5, <2>1 DEF e
  <2>3. kind \in DOMAIN M!RoutePrefix /\ M!RoutePrefix[kind] = q[1] /\ kind # "screen"
    <3>1. kind \in DOMAIN M!RoutePrefix /\ M!RoutePrefix[kind] = q[1]
      BY DEF kinds
    <3> QED BY <3>1, PrefixTells
  <2>4. Len(v) = 2 /\ M!ToSet(v) \subseteq M!HexOfAnyCase /\ M!ExpandUuid(v) = <<v[1], "-", v[2]>>
    BY <2>1 DEF M!ExpandUuid
  <2>5. Len(q) = 4 /\ q[3] = v[1] /\ q[4] = v[2]
    <3>1. Len(q) \in Nat /\ 1 \in 1..2 /\ 2 \in 1..2 /\ 1 + 2 = 3 /\ 2 + 2 = 4
      OBVIOUS
    <3>2. v[1] = q[1 + 2] /\ v[2] = q[2 + 2]
      BY <1>2, <2>4, <3>1
    <3>3. \A n \in Nat : 2 = n - 2 => n = 4
      OBVIOUS
    <3>4. Len(q) = 4
      BY <1>2, <2>4, <3>1, <3>3
    <3> QED BY <3>1, <3>2, <3>4
  <2>6. v[1] # "-" /\ v[2] # "-"
    <3>1. v[1] \in M!ToSet(v) /\ v[2] \in M!ToSet(v)
      BY <1>2, <2>4 DEF M!ToSet
    <3> QED BY <2>4, <3>1 DEF M!HexOfAnyCase, M!Hex
  <2> DEFINE a == v[1]
             b == v[2]
             p == q[1]
  <2>7. M!CompactUuid(M!ExpandUuid(v)) = <<a, b>>
    <3>1. M!CompactUuid(<<a, "-", b>>) = <<a, b>>
      <4> a # "-" /\ b # "-"
        BY <2>6
      <4> HIDE DEF a, b
      <4> QED BY Compacted
    <3> QED BY <2>4, <3>1
  <2>8. <<p, u>> \o <<a, b>> = <<p, u, a, b>>
    BY TwoAndTwo
  <2>9. q = <<p, u, a, b>>
    BY <1>1, <2>5
  <2>10. route.kind = kind /\ route.value = M!ExpandUuid(v)
    <3> DEFINE e == M!ExpandUuid(v)
    <3> HIDE DEF e
    <3>1. route = [kind |-> kind, value |-> e]
      BY <2>2 DEF e
    <3> QED BY <3>1 DEF e
  <2>11. M!StartParam(kind, M!ExpandUuid(v)) = q
    <3> HIDE DEF a, b, p
    <3>1. M!RoutePrefix[kind] = p
      BY <2>3 DEF p
    <3> QED BY <2>7, <2>8, <2>9, <3>1 DEF M!StartParam, u
  <2> QED BY <2>3, <2>10, <2>11
<1> QED BY <1>4, <1>5

\* Every link opens what it was made for, and whatever start parameter opens something is
\* the one made for it (packages/telegram/src/links.ts).
THEOREM LinksAlwaysLeadBack ==
  ASSUME NEW S, NEW params \in SUBSET Seq(S)
  PROVE  M!LinksLeadBack(params)
<1>1. ASSUME NEW kind \in DOMAIN M!RoutePrefix, NEW id \in M!Ids
      PROVE  M!ParseStartParam(M!MiniAppLink(M!StartParam(kind, id))) = [kind |-> kind, value |-> id]
  BY IdLeads
<1>2. ASSUME NEW name \in M!Screens
      PROVE  M!ParseStartParam(M!MiniAppLink(M!ScreenParam(name))).value = <<name>>
  BY ScreenLeads
<1>3. ASSUME NEW param \in params, NEW route, route = M!ParseStartParam(param), route # M!Nowhere
      PROVE  param = IF route.kind = "screen" THEN M!ScreenParam(route.value[1])
                     ELSE M!StartParam(route.kind, route.value)
  BY <1>3, OpensWhatItWasMadeFor
<1> QED BY <1>1, <1>2, <1>3 DEF M!LinksLeadBack

-----------------------------------------------------------------------------
(* What is queued is said *)

\* A field that is there, and an id beside it.
LEMMA WithWord ==
  ASSUME NEW keys, NEW word, NEW ids, NEW key \in keys
  PROVE  M!Str(M!With(keys, word, ids), key) = word
BY DEF M!Str, M!With

LEMMA WithId ==
  ASSUME NEW keys, NEW word, NEW ids, NEW key \in DOMAIN ids \ keys
  PROVE  M!Str(M!With(keys, word, ids), key) = ids[key]
BY DEF M!Str, M!With

\* What a type's template needs of a payload made of a word and an id.
Suits(type, payload, word, id) ==
    LET t == M!Templates[type]
    IN  /\ \A key \in t.params : M!Str(payload, key) = word
        /\ \/ t.kind = "transaction" /\ t.key = "transactionId" /\ M!Str(payload, t.key) \in {id, M!Null}
           \/ t.kind = "app" /\ M!Str(payload, t.key) = M!Null
           \/ t.kind \in {"scheduled", "expectedIncome"} /\ M!Str(payload, t.key) = id

Complete(type, payload, word) ==
    LET message == M!RenderNotification(type, payload)
        about   == M!Str(payload, M!Templates[type].key)
    IN  /\ \A key \in DOMAIN message.says : M!Reads(message.says[key]) = word
        /\ message.buttons # {}
        /\ about # <<>> => \E b \in message.buttons : M!ParseStartParam(b.opens).value = about

LEMMA IdLinks ==
  ASSUME NEW kind \in {"transaction", "scheduled", "expectedIncome"}, NEW id \in M!Ids
  PROVE  M!ParseStartParam([opens |-> M!MiniAppLink(M!StartParam(kind, id))].opens).value = id
<1> DEFINE link == M!MiniAppLink(M!StartParam(kind, id))
           parsed == M!ParseStartParam(link)
<1>1. kind \in DOMAIN M!RoutePrefix
  BY DEF M!RoutePrefix
<1>2. parsed = [kind |-> kind, value |-> id]
  BY <1>1, IdLeads
<1>3. [opens |-> link].opens = link
  OBVIOUS
<1> HIDE DEF link
<1>4. parsed.value = id
  <2> HIDE DEF parsed
  <2> QED BY <1>2
<1> QED BY <1>3, <1>4 DEF link

LEMMA SuitedIsComplete ==
  ASSUME NEW T, Tokens(T), NEW word \in Seq(T), NEW id \in M!Ids,
         NEW type \in DOMAIN M!Templates, NEW payload, Suits(type, payload, word, id)
  PROVE  Complete(type, payload, word)
<1> DEFINE t == M!Templates[type]
           says == M!EscapedParams(payload, t.params)
           about == M!Str(payload, t.key)
           buttons == IF t.kind = "transaction" THEN M!TransactionButtons(payload)
                      ELSE IF t.kind = "app" \/ about = <<>> THEN {M!OpenApp}
                      ELSE {[opens |-> M!MiniAppLink(M!StartParam(t.kind, about))]}
           message == M!RenderNotification(type, payload)
<1>1. message = [says |-> says, buttons |-> buttons]
  BY DEF M!RenderNotification
<1>2. M!Reads(M!EscapeHtml(word)) = word
  BY EscapedAll DEF Escaped
<1>3. /\ \A key \in t.params : M!Str(payload, key) = word
      /\ \/ t.kind = "transaction" /\ t.key = "transactionId" /\ about \in {id, M!Null}
         \/ t.kind = "app" /\ about = M!Null
         \/ t.kind \in {"scheduled", "expectedIncome"} /\ about = id
  BY DEF Suits
<1> HIDE DEF t
<1>4. \A key \in DOMAIN says : M!Reads(says[key]) = word
  BY <1>2, <1>3 DEF M!EscapedParams
<1>5. buttons # {} /\ (about # <<>> => \E b \in buttons : M!ParseStartParam(b.opens).value = about)
  <2>1. CASE t.kind = "transaction" /\ t.key = "transactionId" /\ about \in {id, M!Null}
    <3>1. buttons = M!TransactionButtons(payload)
      BY <2>1
    <3>2. about # <<>> => [opens |-> M!MiniAppLink(M!StartParam("transaction", about))] \in buttons
      BY <2>1, <3>1 DEF M!TransactionButtons
    <3>3. buttons # {}
      BY <3>1 DEF M!TransactionButtons
    <3>4. about # <<>> => M!ParseStartParam([opens |-> M!MiniAppLink(M!StartParam("transaction", about))].opens).value = about
      <4> SUFFICES ASSUME about # <<>>
                   PROVE  M!ParseStartParam([opens |-> M!MiniAppLink(M!StartParam("transaction", about))].opens).value = about
        OBVIOUS
      <4>1. about \in M!Ids
        BY <2>1 DEF M!Null
      <4> HIDE DEF about
      <4> QED BY <4>1, IdLinks
    <3> HIDE DEF buttons, about
    <3> QED BY <3>2, <3>3, <3>4
  <2>2. CASE t.kind = "app" /\ about = M!Null
    <3>1. buttons = {M!OpenApp} /\ about = <<>>
      BY <2>2 DEF M!Null
    <3> HIDE DEF buttons, about
    <3> QED BY <3>1
  <2>3. CASE t.kind \in {"scheduled", "expectedIncome"} /\ about = id
    <3>1. about # <<>>
      <4>1. PICK a \in M!Hex, b \in M!Hex : id = <<a, "-", b>>
        BY DEF M!Ids
      <4>2. id # <<>>
        BY <4>1
      <4> QED BY <2>3, <4>2
    <3> DEFINE b == [opens |-> M!MiniAppLink(M!StartParam(t.kind, about))]
    <3>2. buttons = {b}
      BY <2>3, <3>1
    <3>3. M!ParseStartParam(b.opens).value = about
      <4> DEFINE kind == t.kind
      <4>1. kind \in {"transaction", "scheduled", "expectedIncome"} /\ about \in M!Ids
        BY <2>3
      <4> HIDE DEF about, kind
      <4>2. M!ParseStartParam([opens |-> M!MiniAppLink(M!StartParam(kind, about))].opens).value = about
        BY <4>1, IdLinks
      <4> QED BY <4>2 DEF kind
    <3> HIDE DEF buttons, about, b
    <3> QED BY <3>2, <3>3
  <2> QED BY <1>3, <2>1, <2>2, <2>3
<1>6. message.says = says /\ message.buttons = buttons
  <2> HIDE DEF message, says, buttons
  <2> QED BY <1>1
<1> HIDE DEF message, says, buttons, about
<1>7. /\ \A key \in DOMAIN message.says : M!Reads(message.says[key]) = word
      /\ message.buttons # {}
      /\ about # <<>> => \E b \in message.buttons : M!ParseStartParam(b.opens).value = about
  BY <1>4, <1>5, <1>6
<1> QED BY <1>7 DEF Complete, message, about, t

LEMMA TemplatesSay ==
  ASSUME NEW t, t = M!Templates
  PROVE  /\ t["crypto_received"] =
              M!Says({"amount", "wallet", "value", "network"}, "transaction", "transactionId")
         /\ t["crypto_sent"] =
              M!Says({"amount", "address", "wallet", "network"}, "transaction", "transactionId")
         /\ t["crypto_confirmed"] = M!Says({"amount", "network"}, "transaction", "transactionId")
         /\ t["crypto_failed"] = M!Says({"amount", "network"}, "transaction", "transactionId")
         /\ t["expected_income_due"] = M!Says({"name", "amount"}, "expectedIncome", "expectedIncomeId")
         /\ t["expected_income_overdue"] =
              M!Says({"name", "amount", "date"}, "expectedIncome", "expectedIncomeId")
         /\ t["scheduled_payment_upcoming"] =
              M!Says({"amount", "address", "network", "time"}, "scheduled", "scheduledPaymentId")
         /\ t["scheduled_payment_executed"] =
              M!Says({"amount", "address"}, "transaction", "transactionId")
         /\ t["scheduled_payment_failed"] =
              M!Says({"amount", "address", "reasonCode"}, "scheduled", "scheduledPaymentId")
         /\ t["fx_rate_alert"] = M!Says({"percent", "rate"}, "app", "")
         /\ DOMAIN t = {"crypto_received", "crypto_sent", "crypto_confirmed", "crypto_failed",
                        "expected_income_due", "expected_income_overdue",
                        "scheduled_payment_upcoming", "scheduled_payment_executed",
                        "scheduled_payment_failed", "fx_rate_alert"}
  BY DEF M!Templates

LEMMA SaysWhat ==
  ASSUME NEW params, NEW kind, NEW key
  PROVE  /\ M!Says(params, kind, key).params = params /\ M!Says(params, kind, key).kind = kind
         /\ M!Says(params, kind, key).key = key
  BY DEF M!Says

\* A payload of words, with the id its template asks for.
LEMMA WordsSuit ==
  ASSUME NEW type \in DOMAIN M!Templates, NEW keys, NEW word, NEW ids, NEW id, NEW kind, NEW key,
         NEW params \in SUBSET keys, M!Templates[type] = M!Says(params, kind, key),
         key \in DOMAIN ids \ keys,
         \/ kind = "transaction" /\ key = "transactionId" /\ ids[key] \in {id, M!Null}
         \/ kind \in {"scheduled", "expectedIncome"} /\ ids[key] = id
  PROVE  Suits(type, M!With(keys, word, ids), word, id)
<1> DEFINE payload == M!With(keys, word, ids)
           t == M!Templates[type]
<1>1. t.params = params /\ t.kind = kind /\ t.key = key
  BY SaysWhat
<1>2. \A k \in params : M!Str(payload, k) = word
  BY WithWord
<1>3. M!Str(payload, key) = ids[key]
  BY WithId
<1> HIDE DEF payload, t
<1>4. Suits(type, payload, word, id)
  BY <1>1, <1>2, <1>3 DEF Suits, t
<1> QED BY <1>4 DEF payload

\* What holds of everything queued.
Fits(n, word, id) == n.type \in DOMAIN M!Templates /\ Suits(n.type, n.payload, word, id)

LEMMA QueuedIs ==
  ASSUME NEW type, NEW payload, NEW n, n = [type |-> type, payload |-> payload], NEW word, NEW id,
         type \in DOMAIN M!Templates, Suits(type, payload, word, id)
  PROVE  Fits(n, word, id)
<1>1. n.type = type /\ n.payload = payload
  OBVIOUS
<1> QED BY <1>1 DEF Fits

\* The ids beside the words of a payload: the template's key leads to `id`.
Names(set, kind, key, id) ==
    \A ids \in set :
        /\ key \in DOMAIN ids
        /\ \/ kind = "transaction" /\ key = "transactionId" /\ ids[key] \in {id, M!Null}
           \/ kind \in {"scheduled", "expectedIncome"} /\ ids[key] = id

LEMMA ToldFits ==
  ASSUME NEW type \in DOMAIN M!Templates, NEW keys, NEW word, NEW set, NEW id, NEW kind, NEW key,
         NEW params \in SUBSET keys, M!Templates[type] = M!Says(params, kind, key),
         key \notin keys, Names(set, kind, key, id), NEW n \in M!Told(type, keys, word, set)
  PROVE  Fits(n, word, id)
<1>1. PICK ids \in set : n = [type |-> type, payload |-> M!With(keys, word, ids)]
  BY DEF M!Told
<1>2. /\ key \in DOMAIN ids \ keys
      /\ \/ kind = "transaction" /\ key = "transactionId" /\ ids[key] \in {id, M!Null}
         \/ kind \in {"scheduled", "expectedIncome"} /\ ids[key] = id
  BY DEF Names
<1>3. Suits(type, M!With(keys, word, ids), word, id)
  BY <1>2, WordsSuit
<1> QED BY <1>1, <1>3, QueuedIs

LEMMA ExploredNames ==
  ASSUME NEW id, NEW txs \in SUBSET {id, M!Null}
  PROVE  Names(M!Explored(txs), "transaction", "transactionId", id)
BY DEF Names, M!Explored

LEMMA RowNames ==
  ASSUME NEW id
  PROVE  /\ Names([transactionId : {id}], "transaction", "transactionId", id)
         /\ Names([expectedIncomeId : {id}], "expectedIncome", "expectedIncomeId", id)
         /\ Names([scheduledPaymentId : {id}], "scheduled", "scheduledPaymentId", id)
<1>1. Names([transactionId : {id}], "transaction", "transactionId", id)
  BY DEF Names
<1>2. Names([expectedIncomeId : {id}], "expectedIncome", "expectedIncomeId", id)
  BY DEF Names
<1>3. Names([scheduledPaymentId : {id}], "scheduled", "scheduledPaymentId", id)
  BY DEF Names
<1> QED BY <1>1, <1>2, <1>3

LEMMA ScannedFits ==
  ASSUME NEW word, NEW id, NEW n \in M!ScannedTransfer(word, id) PROVE Fits(n, word, id)
<1>1. ASSUME n \in M!Told("crypto_received", {"amount", "wallet", "network", "address", "value"}, word, M!Explored({id})) PROVE Fits(n, word, id)
  <2> DEFINE type == "crypto_received"
             keys == {"amount", "wallet", "network", "address", "value"}
             params == {"amount", "wallet", "value", "network"}
             set == M!Explored({id})
             kind == "transaction"
             key == "transactionId"
  <2>1. type \in DOMAIN M!Templates /\ M!Templates[type] = M!Says(params, kind, key)
    BY TemplatesSay
  <2>2. params \in SUBSET keys /\ key \notin keys
    OBVIOUS
  <2>3. Names(set, kind, key, id)
    BY ExploredNames
  <2>4. n \in M!Told(type, keys, word, set)
    BY <1>1
  <2> HIDE DEF type, keys, params, set, kind, key
  <2> QED BY <2>1, <2>2, <2>3, <2>4, ToldFits
<1>2. ASSUME n \in M!Told("crypto_sent", {"amount", "wallet", "network", "address", "value"}, word, M!Explored({id})) PROVE Fits(n, word, id)
  <2> DEFINE type == "crypto_sent"
             keys == {"amount", "wallet", "network", "address", "value"}
             params == {"amount", "address", "wallet", "network"}
             set == M!Explored({id})
             kind == "transaction"
             key == "transactionId"
  <2>1. type \in DOMAIN M!Templates /\ M!Templates[type] = M!Says(params, kind, key)
    BY TemplatesSay
  <2>2. params \in SUBSET keys /\ key \notin keys
    OBVIOUS
  <2>3. Names(set, kind, key, id)
    BY ExploredNames
  <2>4. n \in M!Told(type, keys, word, set)
    BY <1>2
  <2> HIDE DEF type, keys, params, set, kind, key
  <2> QED BY <2>1, <2>2, <2>3, <2>4, ToldFits
<1> QED BY <1>1, <1>2 DEF M!ScannedTransfer

LEMMA OutgoingFits ==
  ASSUME NEW word, NEW id, NEW n \in M!QueueOutgoing(word, id) PROVE Fits(n, word, id)
<1>1. ASSUME n \in M!Told("crypto_sent", {"amount", "address", "wallet", "network"}, word, M!Explored({id, M!Null})) PROVE Fits(n, word, id)
  <2> DEFINE type == "crypto_sent"
             keys == {"amount", "address", "wallet", "network"}
             params == {"amount", "address", "wallet", "network"}
             set == M!Explored({id, M!Null})
             kind == "transaction"
             key == "transactionId"
  <2>1. type \in DOMAIN M!Templates /\ M!Templates[type] = M!Says(params, kind, key)
    BY TemplatesSay
  <2>2. params \in SUBSET keys /\ key \notin keys
    OBVIOUS
  <2>3. Names(set, kind, key, id)
    BY ExploredNames
  <2>4. n \in M!Told(type, keys, word, set)
    BY <1>1
  <2> HIDE DEF type, keys, params, set, kind, key
  <2> QED BY <2>1, <2>2, <2>3, <2>4, ToldFits
<1> QED BY <1>1 DEF M!QueueOutgoing

LEMMA ConfirmedFits ==
  ASSUME NEW word, NEW id, NEW n \in M!ConfirmedOrFailed(word, id) PROVE Fits(n, word, id)
<1>1. ASSUME n \in M!Told("crypto_confirmed", {"amount", "network"}, word, M!Explored({id})) PROVE Fits(n, word, id)
  <2> DEFINE type == "crypto_confirmed"
             keys == {"amount", "network"}
             params == {"amount", "network"}
             set == M!Explored({id})
             kind == "transaction"
             key == "transactionId"
  <2>1. type \in DOMAIN M!Templates /\ M!Templates[type] = M!Says(params, kind, key)
    BY TemplatesSay
  <2>2. params \in SUBSET keys /\ key \notin keys
    OBVIOUS
  <2>3. Names(set, kind, key, id)
    BY ExploredNames
  <2>4. n \in M!Told(type, keys, word, set)
    BY <1>1
  <2> HIDE DEF type, keys, params, set, kind, key
  <2> QED BY <2>1, <2>2, <2>3, <2>4, ToldFits
<1>2. ASSUME n \in M!Told("crypto_failed", {"amount", "network"}, word, [transactionId : {id}]) PROVE Fits(n, word, id)
  <2> DEFINE type == "crypto_failed"
             keys == {"amount", "network"}
             params == {"amount", "network"}
             set == [transactionId : {id}]
             kind == "transaction"
             key == "transactionId"
  <2>1. type \in DOMAIN M!Templates /\ M!Templates[type] = M!Says(params, kind, key)
    BY TemplatesSay
  <2>2. params \in SUBSET keys /\ key \notin keys
    OBVIOUS
  <2>3. Names(set, kind, key, id)
    BY RowNames
  <2>4. n \in M!Told(type, keys, word, set)
    BY <1>2
  <2> HIDE DEF type, keys, params, set, kind, key
  <2> QED BY <2>1, <2>2, <2>3, <2>4, ToldFits
<1> QED BY <1>1, <1>2 DEF M!ConfirmedOrFailed

LEMMA ReminderFits ==
  ASSUME NEW word, NEW id, NEW n \in M!IncomeReminder(word, id) PROVE Fits(n, word, id)
<1>1. ASSUME n \in M!Told("expected_income_due", {"name", "amount"}, word, [expectedIncomeId : {id}]) PROVE Fits(n, word, id)
  <2> DEFINE type == "expected_income_due"
             keys == {"name", "amount"}
             params == {"name", "amount"}
             set == [expectedIncomeId : {id}]
             kind == "expectedIncome"
             key == "expectedIncomeId"
  <2>1. type \in DOMAIN M!Templates /\ M!Templates[type] = M!Says(params, kind, key)
    BY TemplatesSay
  <2>2. params \in SUBSET keys /\ key \notin keys
    OBVIOUS
  <2>3. Names(set, kind, key, id)
    BY RowNames
  <2>4. n \in M!Told(type, keys, word, set)
    BY <1>1
  <2> HIDE DEF type, keys, params, set, kind, key
  <2> QED BY <2>1, <2>2, <2>3, <2>4, ToldFits
<1>2. ASSUME n \in M!Told("expected_income_overdue", {"name", "amount", "date"}, word, [expectedIncomeId : {id}]) PROVE Fits(n, word, id)
  <2> DEFINE type == "expected_income_overdue"
             keys == {"name", "amount", "date"}
             params == {"name", "amount", "date"}
             set == [expectedIncomeId : {id}]
             kind == "expectedIncome"
             key == "expectedIncomeId"
  <2>1. type \in DOMAIN M!Templates /\ M!Templates[type] = M!Says(params, kind, key)
    BY TemplatesSay
  <2>2. params \in SUBSET keys /\ key \notin keys
    OBVIOUS
  <2>3. Names(set, kind, key, id)
    BY RowNames
  <2>4. n \in M!Told(type, keys, word, set)
    BY <1>2
  <2> HIDE DEF type, keys, params, set, kind, key
  <2> QED BY <2>1, <2>2, <2>3, <2>4, ToldFits
<1> QED BY <1>1, <1>2 DEF M!IncomeReminder

LEMMA UpcomingFits ==
  ASSUME NEW word, NEW id, NEW n \in M!UpcomingPayment(word, id) PROVE Fits(n, word, id)
<1>1. ASSUME n \in M!Told("scheduled_payment_upcoming", {"amount", "address", "network", "time"}, word, [scheduledPaymentId : {id}]) PROVE Fits(n, word, id)
  <2> DEFINE type == "scheduled_payment_upcoming"
             keys == {"amount", "address", "network", "time"}
             params == {"amount", "address", "network", "time"}
             set == [scheduledPaymentId : {id}]
             kind == "scheduled"
             key == "scheduledPaymentId"
  <2>1. type \in DOMAIN M!Templates /\ M!Templates[type] = M!Says(params, kind, key)
    BY TemplatesSay
  <2>2. params \in SUBSET keys /\ key \notin keys
    OBVIOUS
  <2>3. Names(set, kind, key, id)
    BY RowNames
  <2>4. n \in M!Told(type, keys, word, set)
    BY <1>1
  <2> HIDE DEF type, keys, params, set, kind, key
  <2> QED BY <2>1, <2>2, <2>3, <2>4, ToldFits
<1> QED BY <1>1 DEF M!UpcomingPayment

LEMMA ExecutedFits ==
  ASSUME NEW word, NEW id, NEW n \in M!ExecutedPayment(word, id) PROVE Fits(n, word, id)
<1>1. ASSUME n \in M!Told("scheduled_payment_executed", {"amount", "address"}, word, M!Explored({id, M!Null})) PROVE Fits(n, word, id)
  <2> DEFINE type == "scheduled_payment_executed"
             keys == {"amount", "address"}
             params == {"amount", "address"}
             set == M!Explored({id, M!Null})
             kind == "transaction"
             key == "transactionId"
  <2>1. type \in DOMAIN M!Templates /\ M!Templates[type] = M!Says(params, kind, key)
    BY TemplatesSay
  <2>2. params \in SUBSET keys /\ key \notin keys
    OBVIOUS
  <2>3. Names(set, kind, key, id)
    BY ExploredNames
  <2>4. n \in M!Told(type, keys, word, set)
    BY <1>1
  <2> HIDE DEF type, keys, params, set, kind, key
  <2> QED BY <2>1, <2>2, <2>3, <2>4, ToldFits
<1> QED BY <1>1 DEF M!ExecutedPayment

LEMMA FailedPaymentFits ==
  ASSUME NEW word, NEW id, NEW n \in M!FailedPayment(word, id) PROVE Fits(n, word, id)
<1>1. ASSUME n \in M!Told("scheduled_payment_failed", {"amount", "address", "reasonCode"}, word, [scheduledPaymentId : {id}]) PROVE Fits(n, word, id)
  <2> DEFINE type == "scheduled_payment_failed"
             keys == {"amount", "address", "reasonCode"}
             params == {"amount", "address", "reasonCode"}
             set == [scheduledPaymentId : {id}]
             kind == "scheduled"
             key == "scheduledPaymentId"
  <2>1. type \in DOMAIN M!Templates /\ M!Templates[type] = M!Says(params, kind, key)
    BY TemplatesSay
  <2>2. params \in SUBSET keys /\ key \notin keys
    OBVIOUS
  <2>3. Names(set, kind, key, id)
    BY RowNames
  <2>4. n \in M!Told(type, keys, word, set)
    BY <1>1
  <2> HIDE DEF type, keys, params, set, kind, key
  <2> QED BY <2>1, <2>2, <2>3, <2>4, ToldFits
<1> QED BY <1>1 DEF M!FailedPayment

LEMMA AlertFits ==
  ASSUME NEW word, NEW id, NEW n \in M!FxAlert(word) PROVE Fits(n, word, id)
<1> DEFINE type == "fx_rate_alert"
           keys == {"percent", "rate"}
           payload == [key \in keys |-> word]
<1>1. n = [type |-> type, payload |-> payload]
  BY DEF M!FxAlert
<1>2. type \in DOMAIN M!Templates /\ M!Templates[type] = M!Says(keys, "app", "")
  BY TemplatesSay
<1>3. (\A k \in keys : M!Str(payload, k) = word) /\ M!Str(payload, "") = M!Null
  <2>1. "" \notin {"percent", "rate"}
    BY Zenon
  <2> DEFINE blank == ""
  <2>2. blank \notin keys
    BY <2>1
  <2> HIDE DEF blank, keys
  <2>3. (\A k \in keys : M!Str(payload, k) = word) /\ M!Str(payload, blank) = M!Null
    BY <2>2 DEF M!Str
  <2> QED BY <2>3 DEF blank
<1> HIDE DEF type, keys, payload
<1>4. M!Templates[type].params = keys /\ M!Templates[type].kind = "app" /\ M!Templates[type].key = ""
  <2> DEFINE blank == ""
  <2>1. M!Templates[type] = M!Says(keys, "app", blank)
    BY <1>2
  <2> HIDE DEF blank
  <2>2. M!Templates[type].params = keys /\ M!Templates[type].kind = "app" /\ M!Templates[type].key = blank
    BY <2>1, SaysWhat
  <2> QED BY <2>2 DEF blank
<1>5. Suits(type, payload, word, id)
  <2> DEFINE t == M!Templates[type]
             blank == ""
  <2>1. t.params = keys /\ t.kind = "app" /\ t.key = blank
    BY <1>4
  <2>2. M!Str(payload, blank) = M!Null
    BY <1>3
  <2> HIDE DEF t, blank
  <2>3. M!Str(payload, t.key) = M!Null
    BY <2>1, <2>2
  <2> QED BY <1>3, <2>1, <2>3 DEF Suits, t
<1> QED BY <1>1, <1>2, <1>5, QueuedIs

\* Everything the services queue says what was meant, and a button of it opens what
\* it is about (renderNotification of packages/telegram/src/templates.ts).
THEOREM MessagesAlwaysComplete ==
  ASSUME NEW T, Tokens(T), NEW words \in SUBSET Seq(T) PROVE M!MessagesComplete(words)
<1> SUFFICES ASSUME NEW word \in words, NEW id \in M!Ids, NEW n \in M!Queued(word, id)
             PROVE  Complete(n.type, n.payload, word)
  BY DEF M!MessagesComplete, Complete
<1>1. Fits(n, word, id)
  BY ScannedFits, OutgoingFits, ConfirmedFits, ReminderFits, AlertFits, UpcomingFits, ExecutedFits,
     FailedPaymentFits DEF M!Queued
<1> QED BY <1>1, SuitedIsComplete DEF Fits

\* Nothing is recorded as sent that Telegram did not take, nor given up that it took
\* (TelegramClient.call of packages/telegram/src/api.ts, and dispatch).
THEOREM RepliesAlwaysUnderstood == M!RepliesUnderstood
<1> SUFFICES ASSUME NEW reply \in M!Replies
             PROVE  /\ M!Answer(reply) = "accepted" => reply.took
                    /\ M!Answer(reply) = "permanent" => ~reply.took
                    /\ M!Answer(reply) = "lost" => reply.kind \notin {"ok", "refused"}
                    /\ reply.kind = "refused" /\ reply.code = 429 /\ ~reply.gone =>
                         /\ M!Answer(reply) = "transient"
                         /\ M!RetryAfter(reply, 5) = IF reply.wait = 0 THEN 5 ELSE reply.wait
  BY DEF M!RepliesUnderstood
<1>1. CASE reply \in [kind : {"ok"}, message : BOOLEAN, took : {TRUE}]
  <2>1. reply.kind = "ok" /\ reply.took
    BY <1>1
  <2>2. M!Answer(reply) = "accepted"
    BY <2>1 DEF M!Answer, M!SendMessage, M!CallError
  <2> QED BY <2>1, <2>2
<1>2. CASE reply \in [kind : {"refused"}, code : {M!NoCode, 400, 403, 429, 500}, gone : BOOLEAN,
                      wait : {0, 30}, took : {FALSE}]
  <2> DEFINE e == M!CallError(reply)
  <2>1. reply.kind = "refused" /\ ~reply.took /\ reply.wait \in {0, 30} /\ reply.gone \in BOOLEAN
    BY <1>2
  <2>2. e = [code |-> "SERVICE_UNAVAILABLE", permanent |-> (reply.code \in {400, 403} \/ reply.gone),
             wait |-> reply.wait]
    BY <2>1 DEF M!CallError, M!TelegramApiError
  <2>3. e.code # M!NoError.code /\ e # M!NoError /\ e.wait = reply.wait
        /\ (e.permanent <=> (reply.code \in {400, 403} \/ reply.gone))
    <3> HIDE DEF e
    <3> QED BY <2>2 DEF M!NoError
  <2>4. M!SendMessage(reply).error = e
    BY DEF M!SendMessage
  <2> HIDE DEF e
  <2>5. M!Answer(reply) = IF e.permanent THEN "permanent" ELSE "transient"
    BY <2>1, <2>3, <2>4 DEF M!Answer
  <2>6. M!RetryAfter(reply, 5) = IF e.wait # 0 THEN e.wait ELSE 5
    BY DEF M!RetryAfter, e
  <2> QED BY <2>1, <2>3, <2>5, <2>6
<1>3. CASE reply \in [kind : {"garbled", "aborted", "broken"}, took : BOOLEAN]
  <2> DEFINE e == M!CallError(reply)
  <2>1. reply.kind \in {"garbled", "aborted", "broken"} /\ reply.took \in BOOLEAN
    BY <1>3
  <2>2. /\ e.code = IF reply.kind = "aborted" THEN "TIMEOUT" ELSE "SERVICE_UNAVAILABLE"
        /\ ~e.permanent /\ M!NoError.code = "none"
    BY <2>1 DEF M!CallError, M!NoError
  <2>3. M!SendMessage(reply).error = e
    BY DEF M!SendMessage
  <2> HIDE DEF e
  <2>4. M!Answer(reply) = IF reply.took THEN "lost" ELSE "transient"
    BY <2>1, <2>2, <2>3 DEF M!Answer
  <2> QED BY <2>1, <2>4
<1>4. \/ reply \in [kind : {"ok"}, message : BOOLEAN, took : {TRUE}]
      \/ reply \in [kind : {"refused"}, code : {M!NoCode, 400, 403, 429, 500}, gone : BOOLEAN,
                   wait : {0, 30}, took : {FALSE}]
      \/ reply \in [kind : {"garbled", "aborted", "broken"}, took : BOOLEAN]
  BY Zenon DEF M!Replies
<1> QED BY <1>1, <1>2, <1>3, <1>4

-----------------------------------------------------------------------------
(* The run's formula *)

LEMMA FunctionsAreLists == ASSUME NEW S, NEW n \in Nat PROVE [1..n -> S] \subseteq Seq(S)
OBVIOUS

LEMMA DaysTyped == Steady \cup Postponed \in SUBSET Seq(IncomeDays)
<1>1. ASSUME NEW h \in Steady PROVE h \in [1..18 -> IncomeDays]
  <2>1. CASE \E gaps \in Gaps : h = [t \in 1..18 |-> Swept(t \notin gaps)]
    BY <2>1 DEF Swept, IncomeDays
  <2>2. CASE \E s \in SUBSET (0..4) : h = [t \in 1..18 |-> Swept(t % 5 \in s)]
    <3>1. PICK s \in SUBSET (0..4) : h = [t \in 1..18 |-> Swept(t % 5 \in s)]
      BY <2>2
    <3>2. \A t \in 1..18 : Swept(t % 5 \in s) \in IncomeDays
      BY DEF Swept, IncomeDays
    <3> QED BY <3>1, <3>2
  <2> QED BY <2>1, <2>2 DEF Steady
<1>2. ASSUME NEW h \in Postponed PROVE h \in [1..18 -> IncomeDays]
  <2>1. PICK move \in [at : 2..12, by : 1..4] :
          h = [t \in 1..18 |-> [swept |-> TRUE, moved |-> IF t = move.at THEN move.by ELSE 0]]
    BY DEF Postponed
  <2>2. \A t \in 1..18 :
           [swept |-> TRUE, moved |-> IF t = move.at THEN move.by ELSE 0] \in IncomeDays
    BY DEF IncomeDays
  <2> QED BY <2>1, <2>2
<1> DEFINE n == 18
<1>3. n \in Nat
  OBVIOUS
<1>4. Steady \cup Postponed \subseteq [1..n -> IncomeDays]
  BY <1>1, <1>2
<1> HIDE DEF n
<1> QED BY <1>3, <1>4, FunctionsAreLists

LEMMA PaymentsTyped == PaymentHistories \in SUBSET Seq(Quarters)
<1>1. ASSUME NEW h \in PaymentHistories PROVE h \in [1..9 -> Quarters]
  <2>1. PICK plan \in [sweeps : Sweeps, at : 1..6, by : {0, 1, 4}, back : {0, 8, 9}] :
          h = [t \in 1..9 |-> [swept |-> t \in plan.sweeps,
                               moved |-> IF t = plan.at THEN plan.by ELSE 0, back |-> t = plan.back]]
    BY DEF PaymentHistories
  <2>2. \A t \in 1..9 :
           [swept |-> t \in plan.sweeps, moved |-> IF t = plan.at THEN plan.by ELSE 0,
            back |-> t = plan.back] \in Quarters
    BY DEF Quarters
  <2> QED BY <2>1, <2>2
<1> DEFINE n == 9
<1>2. n \in Nat
  OBVIOUS
<1>3. PaymentHistories \subseteq [1..n -> Quarters]
  BY <1>1
<1> HIDE DEF n
<1> QED BY <1>2, <1>3, FunctionsAreLists

LEMMA TextsTyped ==
  LET T == {"a", "&", "<", "quote", "lt", "amp", "gt", "quot", ">"}
      S == Pieces
  IN  Tokens(T) /\ Words \in SUBSET Seq(T) /\ Params \in SUBSET Seq(S)
<1> DEFINE T == {"a", "&", "<", "quote", "lt", "amp", "gt", "quot", ">"}
           W == {"a", "&", "<", "quote", "lt"}
           S == Pieces
<1>1. Tokens(T) /\ W \subseteq T
  BY DEF Tokens, Markup
<1>2. Words = UNION {[1..n -> W] : n \in 0..3}
  BY DEF Words
<1>3. Params = UNION {[1..n -> S] : n \in 0..5}
  BY DEF Params
<1> HIDE DEF T, W, S
<1>4. Words \in SUBSET Seq(T)
  <2> SUFFICES ASSUME NEW w \in Words PROVE w \in Seq(T)
    OBVIOUS
  <2>1. PICK n \in 0..3 : w \in [1..n -> W]
    BY <1>2
  <2>2. w \in [1..n -> T] /\ n \in Nat
    BY <1>1, <2>1
  <2> QED BY <2>2, FunctionsAreLists
<1>5. Params \in SUBSET Seq(S)
  <2> SUFFICES ASSUME NEW p \in Params PROVE p \in Seq(S)
    OBVIOUS
  <2>1. PICK n \in 0..5 : p \in [1..n -> S]
    BY <1>3
  <2>2. n \in Nat
    BY <2>1
  <2> QED BY <2>1, <2>2, FunctionsAreLists
<1> QED BY <1>1, <1>4, <1>5 DEF T, S

\* The notifications run's formula: its histories, clock, texts and start parameters
\* are instances of what holds of all of them.
THEOREM RemindersAlwaysHold == Spec => []RemindersAreRegular
<1>1. RemindersHold
  <2>1. RemindersRegular({0, 1, 2}, Steady \cup Postponed)
    <3>1. {0, 1, 2} \in SUBSET Int
      OBVIOUS
    <3> QED BY <3>1, DaysTyped, RemindersAlwaysRegular
  <2>2. QuietHoursWrap(6)
    BY QuietHoursAlwaysWrap
  <2>3. UpcomingRegular(0..12, PaymentHistories)
    <3>1. 0..12 \in SUBSET Int
      OBVIOUS
    <3> QED BY <3>1, PaymentsTyped, UpcomingAlwaysRegular
  <2> QED BY <2>1, <2>2, <2>3 DEF RemindersHold
<1>2. MessagesHold
  <2> DEFINE T == {"a", "&", "<", "quote", "lt", "amp", "gt", "quot", ">"}
             S == Pieces
  <2>1. Tokens(T) /\ Words \in SUBSET Seq(T) /\ Params \in SUBSET Seq(S)
    BY Zenon, TextsTyped
  <2> HIDE DEF T, S
  <2>2. M!EscapeSound(Words)
    BY <2>1, TextsEscaped
  <2>3. M!LinksLeadBack(Params)
    BY <2>1, LinksAlwaysLeadBack
  <2>4. M!MessagesComplete(Words)
    BY <2>1, MessagesAlwaysComplete
  <2> QED BY <2>2, <2>3, <2>4, RepliesAlwaysUnderstood DEF MessagesHold
<1>3. RemindersAreRegular
  BY <1>1, <1>2 DEF RemindersAreRegular
<1> QED BY <1>3, PTL
=============================================================================
