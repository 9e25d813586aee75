------------------------------ MODULE Reminders ------------------------------
(***************************************************************************)
(* What the worker's income.remind sweep says about one expected payment   *)
(* over time and about a scheduled payment before it runs, and the clock   *)
(* arithmetic of notifications: quiet hours (services/reminders.ts and     *)
(* scheduler.ts of packages/core, packages/db/src/repositories/planning.ts,*)
(* packages/shared/src/util/time.ts).                                      *)
(*                                                                         *)
(* Time is counted in half days: the query compares moments, the dedupe    *)
(* key compares calendar days, and a sweep may run at any half day or not. *)
(***************************************************************************)
EXTENDS Integers, FiniteSets, SequencesExt

HalfDays == 2
DayOf(t) == t \div HalfDays

DaysBetween(from, to) == DayOf(to) - DayOf(from)

Never == -1

\* The row of expected_income, the dedupe keys its user has rows for, and the
\* moments at which a message was queued.
NewIncome(date) ==
    [date |-> date, reminded |-> Never, overdueAt |-> Never,
     keys |-> {}, due |-> <<>>, overdue |-> <<>>]

\* enqueueNotification, of messages queued before at `times`: a key that exists
\* swallows the message.
Queue(row, key, times, t) == IF key \in row.keys THEN times ELSE Append(times, t)

\* listExpectedIncomeReminders of a row without remind_at.
DueListed(row, t) == DayOf(t) >= row.date /\ row.reminded = Never

RemindExpectedIncome(row, t) ==
    LET key == <<"due", row.date>>
    IN  IF DueListed(row, t)
        THEN [date |-> row.date, reminded |-> t, overdueAt |-> row.overdueAt,
              keys |-> row.keys \cup {key}, due |-> Queue(row, key, row.due, t),
              overdue |-> row.overdue]
        ELSE row

Period == 3

OverdueListed(row, t) ==
    /\ row.date < DayOf(t)
    /\ row.overdueAt = Never \/ row.overdueAt < t - Period * HalfDays

Bucket_Wide(row, t) == (DayOf(t) - row.date) \div 4
Bucket(row, t) == (DayOf(t) - row.date) \div 3

RemindOverdueIncome(row, t) ==
    LET key == <<"overdue", Bucket(row, t)>>
    IN  IF OverdueListed(row, t)
        THEN [date |-> row.date, reminded |-> row.reminded, overdueAt |-> t,
              keys |-> row.keys \cup {key}, due |-> row.due,
              overdue |-> Queue(row, key, row.overdue, t)]
        ELSE row

\* updateExpectedIncome leaves both marks, and the keys queued, as they are.
Postpone(row, days) == [row EXCEPT !.date = @ + days]

Sweep(row, t) == RemindOverdueIncome(RemindExpectedIncome(row, t), t)

\* A history: at each half day, whether the worker swept, and by how many days
\* the user postponed the payment just before.
HalfDay(row, h, t) == LET moved == Postpone(row, h.moved)
                      IN  IF h.swept THEN Sweep(moved, t) ELSE moved

AfterHistory(date, history) ==
    LET after[t \in 0..Len(history)] ==
            IF t = 0 THEN NewIncome(date) ELSE HalfDay(after[t - 1], history[t], t)
    IN  after[Len(history)]

-----------------------------------------------------------------------------
(* A payment ahead, announced within the hour before it: time in quarter hours, the *)
(* period of the sweep.                                                             *)

Horizon == 4      \* withinSeconds

NewPayment(at) == [at |-> at, waits |-> TRUE, marked |-> FALSE, told |-> <<>>]

UpcomingListed(row, t) == row.waits /\ ~row.marked /\ row.at \in t..(t + Horizon)

\* The message, whose key is the payment's, and the mark in one transaction.
NotifyUpcoming(row, t) ==
    IF UpcomingListed(row, t)
    THEN [at |-> row.at, waits |-> row.waits, marked |-> TRUE,
          told |-> Append(row.told, [at |-> t, ahead |-> row.at - t])]
    ELSE row

\* updateScheduledPayment leaves the mark as it is: a payment moved after it was
\* announced is not announced again.
Reschedule(row, later) == IF row.waits THEN [row EXCEPT !.at = @ + later] ELSE row

\* A due payment leaves 'scheduled'; one that fails may wait again, at a time past.
ClaimDue(row, t) == [row EXCEPT !.waits = @ /\ row.at > t]
PutBack(row, t)  == [row EXCEPT !.waits = @ \/ row.at < t]

\* A history: at each quarter, whether the worker swept, by how much the user moved
\* the payment just before, and whether a failed attempt was put back.
Quarter(row, h, t) == LET back  == IF h.back THEN PutBack(row, t) ELSE row
                          moved == Reschedule(back, h.moved)
                      IN  ClaimDue(IF h.swept THEN NotifyUpcoming(moved, t) ELSE moved, t)

PaymentHistory(at, history) ==
    LET after[t \in 0..Len(history)] ==
            IF t = 0 THEN NewPayment(at) ELSE Quarter(after[t - 1], history[t], t)
    IN  after[Len(history)]

\* A payment is announced at most once, while it is still ahead by no more than the
\* hour; and one that is never moved is announced if any sweep ran in that hour.
UpcomingRegular(dates, histories) ==
    \A at \in dates, history \in histories :
        LET row == PaymentHistory(at, history)
        IN  /\ Len(row.told) <= 1
            /\ \A i \in DOMAIN row.told : row.told[i].ahead \in 0..Horizon
            /\ (\A t \in DOMAIN history : history[t].moved = 0) =>
                 (row.told # <<>> <=>
                    \E t \in DOMAIN history : history[t].swept /\ at \in t..(t + Horizon))

-----------------------------------------------------------------------------
(* Quiet hours *)

IsWithinQuietHours_NoWrap(now, from, to) == from # to /\ now >= from /\ now < to

IsWithinQuietHours(now, from, to) ==
    /\ from # to
    /\ IF from < to THEN now >= from /\ now < to ELSE now >= from \/ now < to

\* As a reference: walking on from `from`, now comes before `to`.
Within(now, from, to, day) == (now - from) % day < (to - from) % day

QuietHoursWrap(day) ==
    \A from, to, now \in 0..(day - 1) :
        IsWithinQuietHours(now, from, to) <=> Within(now, from, to, day)

-----------------------------------------------------------------------------
Spaced(times) ==
    \A i \in 1..(Len(times) - 1) : times[i + 1] - times[i] > Period * HalfDays

\* Half days at which the row was overdue and the sweep ran, with nothing said
\* for more than the period before.
Silences(row, date, history) ==
    {t \in DOMAIN history :
        /\ history[t].swept /\ DayOf(t) > date
        /\ \A i \in DOMAIN row.overdue :
             row.overdue[i] \notin (t - Period * HalfDays)..t}

\* However the sweeps fall and however often the user postpones, two overdue
\* messages are more than three days apart; and a payment that is never
\* postponed is announced once when due, and while overdue no sweep leaves the
\* user more than three days without a word: the key's bucket never swallows
\* what the query let through.
RemindersRegular(dates, histories) ==
    \A date \in dates, history \in histories :
        LET row   == AfterHistory(date, history)
            swept == {t \in DOMAIN history : history[t].swept}
        IN  /\ Spaced(row.overdue)
            /\ (\A t \in DOMAIN history : history[t].moved = 0) =>
                 /\ Len(row.due) = IF \E t \in swept : DayOf(t) >= date THEN 1 ELSE 0
                 /\ Silences(row, date, history) = {}
=============================================================================
