---------------------------- MODULE Notifications ----------------------------
(***************************************************************************)
(* The notification outbox: rows written with the change they announce and *)
(* drained by dispatch runs of the bot's 5-second pump and of the worker's *)
(* notify.dispatch job (packages/core/src/services/notifications.ts over   *)
(* packages/db/src/repositories/ops.ts, apps/bot/src/index.ts).            *)
(*                                                                         *)
(* A claim is one short statement: it raises attempts and leaves the row   *)
(* queued, so nothing but its speed keeps a run from being overtaken by    *)
(* the next one.  The writes that end a delivery go by id alone.           *)
(***************************************************************************)
EXTENDS Naturals, FiniteSets

CONSTANTS
    Events,         \* dedupe keys: one logical event of one user each
    Alerts,         \* the events of type security_alert
    None,           \* the event at hand of a run between two rows
    Runs,           \* dispatch runs that may overlap
    Pump,           \* the run the bot's timer starts again and again
    MAX_ATTEMPTS,   \* deliveries tried before a row is abandoned (6)
    AttemptsCheck,  \* the table's CHECK: attempts <= 20
    Faults,         \* which of "crash", "db", "lost", "prefs" happen
    MaxFaults       \* bound on how many of them

ASSUME EventsAssumption == Alerts \subseteq Events /\ None \notin Events
ASSUME RunsAssumption   == Pump \in Runs
ASSUME AttemptsAssumption ==
    /\ {MAX_ATTEMPTS, AttemptsCheck} \subseteq Nat \ {0, 1}
    /\ MAX_ATTEMPTS <= AttemptsCheck
    /\ MaxFaults \in Nat

VARIABLES
    status, attempts,  \* notifications.status ("none": no row) and attempts
    due,               \* events whose deliver_after has passed
    muted,             \* events whose type the user switched off
    quiet,             \* the user's clock is inside the quiet hours
    pc, batch, hand,   \* per run: its step, the rows left, the row at hand
    seen,              \* per run: attempts and muted as the claim returned them
    faults,            \* faults so far
    delivered,         \* history: messages Telegram accepted (2: two or more)
    doubted,           \* history: events that may be delivered again
    spent              \* history: events with an attempt that had no outcome

rows    == <<status, attempts, due>>
prefs   == <<muted, quiet>>
runs    == <<pc, batch, hand, seen>>
history == <<delivered, doubted, spent>>
vars    == <<rows, prefs, runs, faults, history>>

Statuses == {"none", "queued", "sent", "failed", "suppressed"}

NotSeen == [attempts |-> 0, muted |-> FALSE]

Held(r) == batch[r] \cup ({hand[r]} \cap Events)

Fault(kind) ==
    /\ kind \in Faults /\ faults < MaxFaults
    /\ faults' = faults + 1

-----------------------------------------------------------------------------
(* The row's statements *)

Fresh_Finished(e) == status[e] # "queued"

\* UNIQUE (user_id, dedupe_key), ON CONFLICT DO NOTHING: the event of a row
\* that exists, in whatever status, adds nothing.
Fresh(e) == status[e] = "none"
EnqueueNotification(e) ==
    /\ IF Fresh(e)
       THEN /\ status' = [status EXCEPT ![e] = "queued"]
            /\ attempts' = [attempts EXCEPT ![e] = 0]
            /\ due' = due \cup {e}
       ELSE UNCHANGED rows
    /\ UNCHANGED <<prefs, runs, faults, history>>

Pending_FirstTry == {e \in due : status[e] = "queued" /\ attempts[e] = 0}

Pending == {e \in due : status[e] = "queued"}
\* The UPDATE of the claim fails as a whole when a row would break the CHECK.
Claimable == Pending # {} /\ \A e \in Pending : attempts[e] < AttemptsCheck

MarkNotificationSent(e) ==
    /\ status' = [status EXCEPT ![e] = "sent"]
    /\ UNCHANGED <<attempts, due>>

GiveUp_Late(r, permanent) == permanent \/ seen[r][hand[r]].attempts > MAX_ATTEMPTS

GiveUp(r, permanent) == permanent \/ seen[r][hand[r]].attempts + 1 >= MAX_ATTEMPTS
\* A retry is queued for after a backoff; a row given up on keeps its date.
MarkNotificationFailed(e, giveUp) ==
    /\ status' = [status EXCEPT ![e] = IF giveUp THEN "failed" ELSE "queued"]
    /\ due' = IF giveUp THEN due ELSE due \ {e}
    /\ UNCHANGED attempts

SuppressNotification(e) ==
    /\ status' = [status EXCEPT ![e] = "suppressed"]
    /\ UNCHANGED <<attempts, due>>

\* Quiet hours give the attempt back.
DeferNotification(e) ==
    /\ due' = due \ {e}
    /\ attempts' = [attempts EXCEPT ![e] = IF @ = 0 THEN 0 ELSE @ - 1]
    /\ UNCHANGED status

-----------------------------------------------------------------------------
(* A dispatch run *)

\* The limit of 20 or 25 rows is above the instances' number of events.
ClaimNotifications(r) ==
    LET held == UNION {Held(q) : q \in Runs}
    IN  /\ pc[r] = "idle" /\ Claimable
        /\ attempts' = [e \in Events |->
                          IF e \in Pending THEN attempts[e] + 1 ELSE attempts[e]]
        /\ seen' = [seen EXCEPT ![r] = [e \in Events |->
                      IF e \in Pending
                      THEN [attempts |-> attempts[e] + 1, muted |-> e \in muted]
                      ELSE @[e]]]
        /\ batch' = [batch EXCEPT ![r] = Pending]
        /\ pc' = [pc EXCEPT ![r] = "rows"]
        /\ doubted' = doubted \cup (Pending \cap held)
        /\ spent' = spent \cup (Pending \cap held)
        /\ UNCHANGED <<status, due, prefs, hand, faults, delivered>>

Rest(r, e) ==
    /\ batch' = [batch EXCEPT ![r] = @ \ {e}]
    /\ pc' = [pc EXCEPT ![r] = IF batch[r] = {e} THEN "idle" ELSE "rows"]
    /\ seen' = [seen EXCEPT ![r][e] = NotSeen]
    /\ UNCHANGED hand

Suppress(r, e) ==
    /\ pc[r] = "rows" /\ e \in batch[r]
    /\ seen[r][e].muted
    /\ SuppressNotification(e)
    /\ Rest(r, e)
    /\ UNCHANGED <<prefs, faults, history>>

Quieted(e) == quiet /\ e \notin Alerts

Defer(r, e) ==
    /\ pc[r] = "rows" /\ e \in batch[r]
    /\ ~seen[r][e].muted /\ Quieted(e)
    /\ DeferNotification(e)
    /\ Rest(r, e)
    /\ UNCHANGED <<prefs, faults, history>>

\* What sendMessage can come back with: the id, a refusal Telegram will repeat
\* (400, 403), a transient error, or no answer to a message that was accepted.
Send(r, e, answer) ==
    /\ pc[r] = "rows" /\ e \in batch[r]
    /\ ~seen[r][e].muted /\ ~Quieted(e)
    /\ IF answer = "lost" THEN Fault("lost") ELSE UNCHANGED faults
    /\ batch' = [batch EXCEPT ![r] = @ \ {e}]
    /\ hand' = [hand EXCEPT ![r] = e]
    /\ pc' = [pc EXCEPT ![r] = IF answer = "lost" THEN "transient" ELSE answer]
    /\ delivered' = IF answer \in {"accepted", "lost"} /\ delivered[e] < 2
                    THEN [delivered EXCEPT ![e] = @ + 1] ELSE delivered
    /\ doubted' = IF answer = "lost" THEN doubted \cup {e} ELSE doubted
    /\ UNCHANGED <<rows, prefs, seen, spent>>

Next_row(r) ==
    /\ hand' = [hand EXCEPT ![r] = None]
    /\ pc' = [pc EXCEPT ![r] = IF batch[r] = {} THEN "idle" ELSE "rows"]
    /\ seen' = [seen EXCEPT ![r][hand[r]] = NotSeen]
    /\ UNCHANGED batch

Sent(r) ==
    /\ pc[r] = "accepted"
    /\ MarkNotificationSent(hand[r])
    /\ Next_row(r)
    /\ UNCHANGED <<prefs, faults, history>>

\* The catch around sendMessage covers the write after it too.
SentUnwritten(r) ==
    /\ pc[r] = "accepted" /\ Fault("db")
    /\ pc' = [pc EXCEPT ![r] = "transient"]
    /\ doubted' = doubted \cup {hand[r]}
    /\ UNCHANGED <<rows, prefs, batch, hand, seen, delivered, spent>>

Failed(r) ==
    /\ pc[r] \in {"transient", "permanent"}
    /\ MarkNotificationFailed(hand[r], GiveUp(r, pc[r] = "permanent"))
    /\ Next_row(r)
    /\ UNCHANGED <<prefs, faults, history>>

\* A crash, or a database error outside the inner try: the run ends with the
\* rows it still holds queued and due.
Drop(r) ==
    /\ pc' = [pc EXCEPT ![r] = "idle"]
    /\ batch' = [batch EXCEPT ![r] = {}]
    /\ hand' = [hand EXCEPT ![r] = None]
    /\ doubted' = IF pc[r] = "accepted" THEN doubted \cup {hand[r]} ELSE doubted
    /\ spent' = spent \cup Held(r)
    /\ seen' = [seen EXCEPT ![r] = [e \in Events |-> NotSeen]]
    /\ UNCHANGED <<rows, prefs, delivered>>

Crash(r) == pc[r] # "idle" /\ Fault("crash") /\ Drop(r)

Abort(r) ==
    /\ \/ pc[r] \in {"transient", "permanent"}
       \/ pc[r] = "rows" /\ \E e \in batch[r] : seen[r][e].muted \/ Quieted(e)
    /\ Fault("db") /\ Drop(r)

-----------------------------------------------------------------------------
(* The user and the clock *)

TypePreference(e) ==
    /\ Fault("prefs")
    /\ muted' = (muted \ {e}) \cup ({e} \ muted)
    /\ UNCHANGED <<rows, quiet, runs, history>>

QuietStart ==
    /\ ~quiet /\ Fault("prefs")
    /\ quiet' = TRUE
    /\ UNCHANGED <<rows, muted, runs, history>>

QuietEnd ==
    /\ quiet
    /\ quiet' = FALSE
    /\ UNCHANGED <<rows, muted, runs, faults, history>>

ComesDue(e) ==
    /\ status[e] = "queued" /\ e \notin due
    /\ due' = due \cup {e}
    /\ UNCHANGED <<status, attempts, prefs, runs, faults, history>>

Init ==
    /\ status = [e \in Events |-> "none"] /\ attempts = [e \in Events |-> 0]
    /\ due = {} /\ muted = {} /\ quiet = FALSE
    /\ pc = [r \in Runs |-> "idle"] /\ batch = [r \in Runs |-> {}]
    /\ hand = [r \in Runs |-> None]
    /\ seen = [r \in Runs |-> [e \in Events |-> NotSeen]]
    /\ faults = 0
    /\ delivered = [e \in Events |-> 0] /\ doubted = {} /\ spent = {}

Answers == {"accepted", "lost", "transient", "permanent"}

Deliver(r) ==
    \/ \E e \in Events : Suppress(r, e) \/ Defer(r, e)
    \/ \E e \in Events, a \in Answers \ {"lost"} : Send(r, e, a)
    \/ Sent(r)
    \/ Failed(r)

Next ==
    \/ \E e \in Events : EnqueueNotification(e) \/ ComesDue(e) \/ TypePreference(e)
    \/ \E r \in Runs : ClaimNotifications(r) \/ Deliver(r)
    \/ \E r \in Runs : SentUnwritten(r) \/ Crash(r) \/ Abort(r)
    \/ \E r \in Runs, e \in Events : Send(r, e, "lost")
    \/ QuietStart \/ QuietEnd

\* The pump starts a run every 5 seconds, awaits in a run return (the Bot API
\* call is cut off after 10 seconds), delays and quiet hours pass.
Fairness ==
    /\ WF_vars(ClaimNotifications(Pump))
    /\ \A r \in Runs : WF_vars(Deliver(r))
    /\ \A e \in Events : WF_vars(ComesDue(e))
    /\ WF_vars(QuietEnd)

Spec == Init /\ [][Next]_vars /\ Fairness
-----------------------------------------------------------------------------
TypeOK ==
    /\ status \in [Events -> Statuses] /\ attempts \in [Events -> 0..AttemptsCheck]
    /\ due \subseteq Events /\ muted \subseteq Events /\ quiet \in BOOLEAN
    /\ pc \in [Runs -> {"idle", "rows", "accepted", "transient", "permanent"}]
    /\ batch \in [Runs -> SUBSET Events] /\ hand \in [Runs -> Events \cup {None}]
    /\ seen \in [Runs -> [Events -> [attempts : 0..AttemptsCheck, muted : BOOLEAN]]]
    /\ faults \in 0..MaxFaults
    /\ delivered \in [Events -> 0..2]
    /\ doubted \subseteq Events /\ spent \subseteq Events

\* What the header of NotificationService promises: an event repeated, or seen
\* by two workers, makes one message - whenever no two runs held its row at
\* once, Telegram's answer arrived and the outcome was written.
DeliveredOnceUnlessInDoubt ==
    \A e \in Events \ doubted : delivered[e] <= 1

\* A row whose every attempt had an outcome is abandoned before its attempts
\* reach the limit, so the CHECK on attempts, which would fail the claim of
\* every other row with it, stays far away.
AbandonedInTime ==
    \A e \in Events \ spent : attempts[e] < MAX_ATTEMPTS

\* Runs lost in the middle can still drive a row's attempts to the CHECK: then
\* no claim succeeds any more.
Jammed == \E e \in Pending : attempts[e] = AttemptsCheck

\* A notification queued is sent, suppressed or given up on, whatever crashes,
\* errors, muted types and quiet hours come between, unless the queue jams.
EveryNotificationSettles ==
    \A e \in Events : status[e] = "queued" ~> status[e] # "queued" \/ Jammed

=============================================================================
