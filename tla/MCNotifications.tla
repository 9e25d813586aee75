--------------------------- MODULE MCNotifications ---------------------------
(* Small instances of Notifications for TLC; the histories over which the          *)
(* reminders are evaluated: eight days, the first two possibly not swept, and one  *)
(* postponement; three hours of a scheduled payment; and the texts of messages.    *)
EXTENDS Notifications, Reminders, TLC

M == INSTANCE Messages

Swept(s) == [swept |-> s, moved |-> 0]

Gaps   == {1..t : t \in 1..8} \cup {{t, u} : t, u \in 3..16}
Steady ==
    {[t \in 1..18 |-> Swept(t \notin gaps)] : gaps \in Gaps}
      \cup {[t \in 1..18 |-> Swept(t % 5 \in s)] : s \in SUBSET (0..4)}

Postponed ==
    {[t \in 1..18 |-> [swept |-> TRUE, moved |-> IF t = move.at THEN move.by ELSE 0]] :
        move \in [at : 2..12, by : 1..4]}

\* Sweeps at any of the quarters, one move and one failure put back.
Sweeps == {1..9} \cup {{t, t + 1} : t \in 1..8} \cup {{}}
PaymentHistories ==
    {[t \in 1..9 |-> [swept |-> t \in plan.sweeps, moved |-> IF t = plan.at THEN plan.by ELSE 0,
                      back |-> t = plan.back]] :
        plan \in [sweeps : Sweeps, at : 1..6, by : {0, 1, 4}, back : {0, 8, 9}]}

RemindersHold ==
    /\ RemindersRegular({0, 1, 2}, Steady \cup Postponed) /\ QuietHoursWrap(6)
    /\ UpcomingRegular(0..12, PaymentHistories)

Words == UNION {[1..n -> {"a", "&", "<", "quote", "lt"}] : n \in 0..3}
Pieces == {"tx", "s", "home", "nowhere", "_", "0", "F", "-", "%"}
Params == UNION {[1..n -> Pieces] : n \in 0..5}

MessagesHold ==
    /\ M!EscapeSound(Words) /\ M!LinksLeadBack(Params) /\ M!MessagesComplete(Words)
    /\ M!RepliesUnderstood

\* The reminders of one payment are regular over these histories, quiet hours wrap on
\* a clock of six hours, a message says what was queued and leads to what it is about,
\* and Telegram's answers are understood.  No state matters to these functions: the
\* initial one asks for them once.
RemindersAreRegular == Init => RemindersHold /\ MessagesHold
=============================================================================
