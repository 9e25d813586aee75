-------------------------------- MODULE Access --------------------------------
(***************************************************************************)
(* Who may touch which row: the transactions that bind an identity to a    *)
(* pooled connection (packages/db/src/client.ts), the row-level-security   *)
(* policies of supabase/migrations 0007 and 0009, and the statements the   *)
(* services run under them.                                                *)
(*                                                                         *)
(* PostgreSQL itself is modelled where the policies rely on it: policies   *)
(* of a command are ORed, RETURNING and WHERE read the row and so need its *)
(* SELECT policies too, and a setting made with is_local = true ends with  *)
(* its transaction.                                                        *)
(***************************************************************************)
EXTENDS Integers, Sequences, FiniteSets

Users == {"alice", "bob"}
None  == "none"
-----------------------------------------------------------------------------
(* The identity of a transaction.                                                *)

\* app.user_id and app.is_admin as a connection holds them: never set, the empty
\* string, or a value.
Unset == "unset"
Fresh == [user |-> Unset, admin |-> Unset]

\* What each kind of transaction sets first: withUser both settings, withSystem both
\* to nobody, and the raw sql.begin around enqueueJob in services/wallets.ts and
\* planning.ts only the user.
Begun(conn, tx) ==
    CASE tx.kind = "user"    -> [user |-> tx.user, admin |-> IF tx.admin THEN "true" ELSE "false"]
      [] tx.kind = "system"  -> [user |-> "", admin |-> "false"]
      [] tx.kind = "enqueue" -> [conn EXCEPT !.user = ""]

\* With set_config(..., false).
Returned_Session(conn, tx) == Begun(conn, tx)

\* set_config(..., true): commit or rollback, the connection goes back to the pool as it
\* came, except that a setting it did not know stays behind as the empty string.
Returned(conn, tx) ==
    [s \in {"user", "admin"} |-> IF Begun(conn, tx)[s] = conn[s] THEN conn[s] ELSE ""]

\* current_user_id and is_admin: NULLIF and COALESCE read an empty string as nobody.
Identity(settings) ==
    [user  |-> IF settings.user \in {Unset, ""} THEN None ELSE settings.user,
     admin |-> settings.admin = "true"]

IsSystem(ctx) == ctx.user = None

Transactions == [kind : {"user"}, user : Users, admin : BOOLEAN]
                    \cup [kind : {"system", "enqueue"}, user : {None}, admin : {FALSE}]

\* Of one connection: the transaction acts as the one it was begun for and as nobody else.
ActsAsBegunFor(conn, tx) ==
    Identity(Begun(conn, tx)) = [user |-> tx.user, admin |-> tx.admin]

\* A connection that has carried these transactions, one after the other.
Used(history) ==
    LET conn[i \in 0..Len(history)] ==
            IF i = 0 THEN Fresh ELSE Returned(conn[i - 1], history[i])
    IN  conn[Len(history)]

\* However a pooled connection was used before (0001_foundation.sql:95-96).
IdentityNeverLeaks(history, tx) == ActsAsBegunFor(Used(history), tx)
-----------------------------------------------------------------------------
(* Policies.  A row has an owner (of its wallet, for the rows of a wallet; itself,   *)
(* for a user), or none, and a category may be the system's.                         *)

Owned == {"cash_accounts", "wallets", "transactions", "expected_income",
          "scheduled_payments", "send_requests", "financial_goals", "notifications",
          "sessions"}
AdminRead   == Owned \ {"sessions"}
Profiles    == {"user_settings", "notification_preferences"}
OfWallet    == {"wallet_balances", "blockchain_scans"}
Quotes      == {"exchange_rates", "asset_prices"}
Counters    == {"processed_events", "api_rate_limits"}
SystemPlane == Owned \cup Profiles \cup OfWallet \cup {"users", "categories"}
Tables == SystemPlane \cup Quotes \cup Counters \cup {"audit_logs", "assets", "jobs", "app_settings"}

Rows == [owner : Users \cup {None}, system : BOOLEAN]

\* GRANT and REVOKE of 0007 to app_user, the role the program connects as.
Granted(t, cmd) ==
    /\ t = "audit_logs" => cmd \in {"select", "insert"}
    /\ t = "assets"     => cmd = "select"

Own(ctx, row) == ctx.user # None /\ row.owner = ctx.user

\* One disjunct per policy or group of policies; a command without one admits no row.
Admits(t, cmd, ctx, row) ==
    \/ t \in SystemPlane /\ IsSystem(ctx)
    \/ t \in Owned \cup Profiles \cup OfWallet /\ Own(ctx, row)
    \/ t \in AdminRead /\ cmd = "select" /\ ctx.admin
    \/ t = "users" /\ cmd \in {"select", "update"} /\ (Own(ctx, row) \/ ctx.admin)
    \/ t = "users" /\ cmd = "insert" /\ (IsSystem(ctx) \/ ctx.admin)
    \/ t = "categories" /\ cmd = "select" /\ (row.system \/ Own(ctx, row))
    \/ t = "categories" /\ cmd # "select" /\ Own(ctx, row) /\ ~row.system
    \/ t = "blockchain_scans" /\ ctx.admin
    \/ t = "audit_logs" /\ cmd = "select" /\ (Own(ctx, row) \/ ctx.admin)
    \/ t = "audit_logs" /\ cmd = "insert"
          /\ (IsSystem(ctx) \/ row.owner = None \/ Own(ctx, row) \/ ctx.admin)
    \/ t \in Quotes \cup {"assets", "app_settings"} /\ cmd = "select"
    \/ t \in Quotes /\ cmd = "insert" /\ (IsSystem(ctx) \/ ctx.admin)
    \/ t \in {"jobs", "app_settings"} /\ (IsSystem(ctx) \/ ctx.admin)
    \/ t \in Counters

Visible(t, cmd, ctx, row) ==
    Granted(t, cmd) /\ Admits(t, "select", ctx, row) /\ Admits(t, cmd, ctx, row)

\* "denied" and "refused" raise 42501 and end the transaction; "nothing" is silent.
Inserted(t, ctx, row, returning) ==
    IF ~Granted(t, "insert") THEN "denied"
    ELSE IF Admits(t, "insert", ctx, row) /\ (returning => Admits(t, "select", ctx, row))
         THEN "done" ELSE "refused"

Updated(t, ctx, old, new) ==
    IF ~Granted(t, "update") THEN "denied"
    ELSE IF ~Visible(t, "update", ctx, old) THEN "nothing"
         ELSE IF Visible(t, "update", ctx, new) THEN "done" ELSE "refused"

\* ON CONFLICT DO UPDATE may not pass over the row it met.
Upserted(t, ctx, old, row) ==
    IF Inserted(t, ctx, row, TRUE) # "done" THEN Inserted(t, ctx, row, TRUE)
    ELSE IF Updated(t, ctx, old, row) = "nothing" THEN "refused" ELSE Updated(t, ctx, old, row)

Deleted(t, ctx, row) ==
    IF ~Granted(t, "delete") THEN "denied"
    ELSE IF Visible(t, "delete", ctx, row) THEN "done" ELSE "nothing"
-----------------------------------------------------------------------------
(* The statements the services run.  "as": withSystem or the raw transaction, withUser  *)
(* of a user, withUser of an administrator; "of": whose row.                            *)

Statement(t, cmd, as, of) == [table |-> t, cmd |-> cmd, as |-> as, of |-> of]

\* authenticateTelegram, resolveSession and setPin.
AuthStatements ==
    {Statement(t, "upsert", "system", "other") : t \in {"processed_events", "users"} \cup Profiles}
    \cup {Statement(t, "select", "system", "other") : t \in {"sessions", "users"}}
    \cup {Statement("sessions", cmd, "user", "own") : cmd \in {"insert", "update"}}
    \cup {Statement("user_settings", cmd, "user", "own") : cmd \in {"select", "update"}}
    \cup {Statement("audit_logs", "log", "user", "own")}

\* WalletsService create, createManaged and requestRescan.
WalletStatements ==
    {Statement("wallets", cmd, "user", "own") : cmd \in {"insert", "select"}}
    \cup {Statement("audit_logs", "log", "user", "own"), Statement("jobs", "upsert", "system", "none"),
          Statement("assets", "select", "user", "none")}

\* AdminService: reads across users as the administrator; settings, rates and scans as the
\* system, whatever the policies would let an administrator do.
AdminStatements ==
    {Statement(t, "select", "admin", "other") : t \in {"users", "audit_logs"}}
    \cup {Statement("users", "update", "admin", "other"), Statement("audit_logs", "log", "admin", "own"),
          Statement("jobs", "select", "system", "none"), Statement("jobs", "upsert", "system", "none"),
          Statement("app_settings", "select", "system", "none"),
          Statement("app_settings", "upsert", "system", "none"),
          Statement("exchange_rates", "insert", "system", "none"),
          Statement("wallets", "select", "system", "other"), Statement("wallets", "update", "system", "other")}

\* cleanup_expired, and the worker's notifications and counters.
WorkerStatements ==
    {Statement(t, "delete", "system", "other") : t \in Counters \cup {"jobs", "sessions"}}
    \cup {Statement("notifications", cmd, "system", "other") : cmd \in {"upsert", "update"}}
    \cup {Statement("api_rate_limits", "upsert", "system", "none")}

Ran(s) ==
    LET ctx == [user |-> IF s.as = "system" THEN None ELSE "alice", admin |-> s.as = "admin"]
        row == [owner |-> CASE s.of = "own" -> "alice" [] s.of = "other" -> "bob" [] OTHER -> None,
                system |-> FALSE]
    IN  CASE s.cmd = "select" -> IF Visible(s.table, "select", ctx, row) THEN "done" ELSE "nothing"
          [] s.cmd = "insert" -> Inserted(s.table, ctx, row, TRUE)
          [] s.cmd = "log"    -> Inserted(s.table, ctx, row, FALSE)
          [] s.cmd = "upsert" -> Upserted(s.table, ctx, row, row)
          [] s.cmd = "update" -> Updated(s.table, ctx, row, row)
          [] s.cmd = "delete" -> Deleted(s.table, ctx, row)

\* No policy silently takes from a service the rows it works on, or refuses the row it
\* has just written (docs/testing.md:87 is about one that did).
ServicesAreServed ==
    \A s \in AuthStatements \cup WalletStatements \cup AdminStatements \cup WorkerStatements :
        Ran(s) = "done"

Contexts == {Identity(Begun(Fresh, tx)) : tx \in Transactions}

\* Whatever statement a repository gets wrong, a user's transaction neither sees nor
\* changes what is another's, and cannot give its own rows away.
OwnOnly(t, ctx, old, new) ==
    (~IsSystem(ctx) /\ ~ctx.admin /\ ~old.system /\ old.owner # ctx.user) =>
        /\ ~Visible(t, "select", ctx, old)
        /\ Updated(t, ctx, old, new) = "nothing" /\ Deleted(t, ctx, old) = "nothing"
        /\ Inserted(t, ctx, old, FALSE) # "done"
        /\ Updated(t, ctx, new, old) # "done"

OwnRowsOnly ==
    \A t \in SystemPlane, ctx \in Contexts, old, new \in Rows : OwnOnly(t, ctx, old, new)

\* An administrator reads across users and changes none of their financial rows.
InspectsOnly(t, ctx, old, new) ==
    (ctx.admin /\ old.owner # ctx.user) =>
        /\ Visible(t, "select", ctx, old)
        /\ Updated(t, ctx, old, new) = "nothing" /\ Deleted(t, ctx, old) = "nothing"
        /\ Updated(t, ctx, new, old) # "done"

AdminsOnlyInspect ==
    \A t \in AdminRead, ctx \in Contexts, old, new \in Rows : InspectsOnly(t, ctx, old, new)

\* Nobody, the system included, rewrites the audit trail.
NotRewritten(ctx, old, new) ==
    /\ Updated("audit_logs", ctx, old, new) = "denied"
    /\ Deleted("audit_logs", ctx, old) = "denied"

HistoryIsKept == \A ctx \in Contexts, old, new \in Rows : NotRewritten(ctx, old, new)
=============================================================================
