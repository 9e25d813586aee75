----------------------------- MODULE WebSession -----------------------------
(***************************************************************************)
(* Authentication: the Mini App's API client (apps/web/src/lib/api.ts),    *)
(* the provider that signs it in (AppProvider.tsx), the query hook that    *)
(* loads a screen (useApi.ts), and the routes they call, which exchange    *)
(* Telegram's initData for a session and resolve sessions                  *)
(* (packages/core/src/auth/service.ts).                                    *)
(*                                                                         *)
(* One user has a few pages open.  A page's requests are coroutines that   *)
(* share one token and one re-authentication; a request is answered late,  *)
(* never, or by a server that has already done the work; a reload forgets  *)
(* the page's memory and keeps its initData.                               *)
(***************************************************************************)
EXTENDS RateLimiter, Sequences, FiniteSets, Functions

CONSTANTS
    Pages,       \* Mini App openings, each with initData of its own
    Gets,        \* 1 .. n: how often a page's query hook runs, at most
    Pins,        \* the PINs the user may choose
    NoPin,
    Skew,        \* FUTURE_SKEW_SECONDS
    MaxAge,      \* TELEGRAM_INITDATA_MAX_AGE_SECONDS
    ReplayTtl,   \* INIT_DATA_REPLAY_TTL_SECONDS
    SessionTtl,  \* SESSION_TTL_SECONDS
    MaxLoads,    \* bound: how often pages are loaded
    MaxBegun,    \* bound: how often a user asks a page for something
    Faults,      \* the faults that happen, of "network", "database", "restart", "admin"
    MaxFaults    \* bound: how many

ASSUME TimesAssumption ==
    /\ {Skew, MaxAge, ReplayTtl, SessionTtl, MaxLoads, MaxBegun, MaxFaults} \subseteq Nat
    /\ MaxAge + Skew <= ReplayTtl

ASSUME GetsAssumption == IsFiniteSet(Gets) /\ Gets = 1..Cardinality(Gets)

VARIABLES
    active,    \* users.is_active
    pin,       \* user_settings.pin_hash
    pinBy,     \* history: the session that last set the PIN, and how many there were
    claims,    \* processed_events of scope 'initdata'
    sessions,  \* sessions rows, in the order they were created
    wire,      \* requests the server has or has answered, and that nobody has taken back
    issued,    \* per page: auth_date of its initData
    loads,     \* per page: times it was loaded
    screen,    \* per page: authState of AppProvider
    token,     \* per page: sessionToken of api.ts
    task,      \* per page: its coroutines
    refused,   \* history: pages whose re-authentication was answered with a 401
    shown,     \* per page: the run of the hook whose data is on screen
    begun,     \* what users have asked for so far
    faults     \* faults so far

server == <<active, pin, pinBy, claims, sessions>>
client == <<issued, loads, screen, token, task, refused, shown>>
vars == <<limiterVars, now, server, wire, client, begun, faults>>

----------------------------------------------------------------------------
(* Coroutines and requests *)

\* authenticate() as called by the effect of AppProvider, and as the
\* re-authenticator of api.ts; a PIN change; the runs of one query hook.
Boot   == <<"boot", 0>>
Reauth == <<"reauth", 0>>
SetPin == <<"pin", 0>>
Get(r) == <<"get", r>>
Exchanges == {Boot, Reauth}
Tasks == Exchanges \cup {SetPin} \cup {Get(r) : r \in Gets}

\* at: where the coroutine is; retry: retryOnUnauthorized of its current request.
Coroutine == [at : {"idle", "sent", "waiting", "ok", "failed"}, retry : BOOLEAN]
Idle  == [at |-> "idle", retry |-> TRUE]
First == [at |-> "sent", retry |-> TRUE]
Again == [at |-> "sent", retry |-> FALSE]
InFlight == {"sent", "waiting"}

NoToken == 0
NoRun == 0

\* Codes of errors.ts, kept apart as far as the client tells them apart: the ones
\* with status 401 (INIT_DATA_REPLAYED, INIT_DATA_EXPIRED, INVALID_INIT_DATA,
\* UNAUTHORIZED, SESSION_EXPIRED, PIN_REQUIRED, PIN_INVALID) and the others, lost
\* answers among them.
Answers == {"ok", "401", "error"}

Request == [page : Pages, load : Nat, task : Tasks, token : Nat,
            at : {"sent", "counted", "admitted", "claimed", "known", "resolved", "checked", "answered"},
            pin : Pins \cup {NoPin}, ans : Answers, got : Nat]

Sends(p, t, tok) ==
    [page |-> p, load |-> loads[p], task |-> t, token |-> tok,
     at |-> "sent", pin |-> NoPin, ans |-> "ok", got |-> NoToken]

\* An answer is dropped when the coroutine that asked is gone.
Awaited(m) == m.load = loads[m.page]
Answered(m, code, tok) ==
    (wire \ {m}) \cup IF Awaited(m) THEN {[m EXCEPT !.at = "answered", !.ans = code, !.got = tok]} ELSE {}
Replied(m, code) == Answered(m, code, NoToken)
Advanced(m, at)  == (wire \ {m}) \cup {[m EXCEPT !.at = at]}

TypeOK ==
    /\ LimiterTypeOK
    /\ active \in BOOLEAN /\ pin \in Pins \cup {NoPin}
    /\ pinBy \in [session : Nat, among : Nat]
    /\ claims \subseteq [page : Pages, until : Nat]
    /\ sessions \in Seq([page : Pages, until : Nat, revoked : BOOLEAN])
    /\ wire \subseteq Request
    /\ issued \in [Pages -> Nat] /\ loads \in [Pages -> Nat]
    /\ screen \in [Pages -> {"closed", "loading", "ready", "error"}]
    /\ token \in [Pages -> 0 .. Len(sessions)]
    /\ task \in [Pages -> [Tasks -> Coroutine]]
    /\ refused \subseteq Pages
    /\ shown \in [Pages -> Gets \cup {NoRun}]
    /\ begun \in 0 .. MaxBegun /\ faults \in 0 .. MaxFaults

Init ==
    /\ LimiterInit
    /\ active = TRUE /\ pin = NoPin /\ pinBy = [session |-> NoToken, among |-> 0]
    /\ claims = {} /\ sessions = <<>> /\ wire = {}
    /\ issued = [p \in Pages |-> 0] /\ loads = [p \in Pages |-> 0]
    /\ screen = [p \in Pages |-> "closed"] /\ token = [p \in Pages |-> NoToken]
    /\ task = [p \in Pages |-> [t \in Tasks |-> Idle]]
    /\ refused = {}
    /\ shown = [p \in Pages |-> NoRun] /\ begun = 0 /\ faults = 0

Fault(kind) == kind \in Faults /\ faults < MaxFaults /\ faults' = faults + 1

----------------------------------------------------------------------------
(* The server: POST /api/auth/telegram *)

\* publicRoute: the limit is enforced on the address before anything else.
LimitExchange(m) ==
    /\ m \in wire /\ m.task \in Exchanges
    /\ \/ m.at = "sent" /\ (\E i \in Instances : RefusedLocally(i)) /\ wire' = Replied(m, "error")
       \/ m.at = "sent" /\ (\E i \in Instances : CountedLocally(i)) /\ wire' = Advanced(m, "counted")
       \/ m.at = "counted" /\ RefusedByStore /\ wire' = Replied(m, "error")
       \/ m.at = "counted" /\ AdmittedByStore /\ wire' = Advanced(m, "admitted")
    /\ UNCHANGED <<now, server, client, begun, faults>>

LimitByFallback(m) ==
    /\ m \in wire /\ m.task \in Exchanges /\ m.at = "counted"
    /\ Fault("database") /\ AdmittedByFallback
    /\ wire' = Advanced(m, "admitted")
    /\ UNCHANGED <<now, server, client, begun>>

\* verifyInitData: not older than MaxAge, and not ahead of the clock by more than Skew.
Fresh(p) == now - issued[p] <= MaxAge /\ issued[p] - now <= Skew

\* ON CONFLICT DO NOTHING: a claim counts as long as its row is there.
Claimed_UntilExpiry(p) == \E c \in claims : c.page = p /\ c.until > now
Claimed(p) == \E c \in claims : c.page = p

RefuseExchange(m) ==
    /\ m \in wire /\ m.task \in Exchanges /\ m.at = "admitted"
    /\ ~Fresh(m.page) \/ Claimed(m.page)
    /\ wire' = Replied(m, "401")
    /\ UNCHANGED <<limiterVars, now, server, client, begun, faults>>

\* The claim commits on its own: whatever fails after it, this initData is used up.
ClaimExchange(m) ==
    /\ m \in wire /\ m.task \in Exchanges /\ m.at = "admitted"
    /\ Fresh(m.page) /\ ~Claimed(m.page)
    /\ claims' = claims \cup {[page |-> m.page, until |-> now + ReplayTtl]}
    /\ wire' = Advanced(m, "claimed")
    /\ UNCHANGED <<limiterVars, now, active, pin, pinBy, sessions, client, begun, faults>>

\* The user row is upserted, whatever its state; an inactive user goes no further.
UpsertUser(m) ==
    /\ m \in wire /\ m.task \in Exchanges /\ m.at = "claimed"
    /\ wire' = IF active THEN Advanced(m, "known") ELSE Replied(m, "error")
    /\ UNCHANGED <<limiterVars, now, server, client, begun, faults>>

\* 32 random bytes: a token nobody has.  Tokens are named in the order of their sessions.
FreshToken == Len(sessions) + 1
SessionRow(p) == [page |-> p, until |-> now + SessionTtl, revoked |-> FALSE]

CreateSession(m) ==
    /\ m \in wire /\ m.task \in Exchanges /\ m.at = "known"
    /\ sessions' = Append(sessions, SessionRow(m.page))
    /\ wire' = Answered(m, "ok", FreshToken)
    /\ UNCHANGED <<limiterVars, now, active, pin, pinBy, claims, client, begun, faults>>

(* The server: routes behind a bearer token *)

Resolves(tok) ==
    /\ tok # NoToken
    /\ ~sessions[tok].revoked /\ sessions[tok].until > now
    /\ active

RefuseCall(m) ==
    /\ m \in wire /\ m.task \notin Exchanges /\ m.at = "sent" /\ ~Resolves(m.token)
    /\ wire' = Replied(m, "401")
    /\ UNCHANGED <<limiterVars, now, server, client, begun, faults>>

AnswerGet(m) ==
    /\ m \in wire /\ m.task[1] = "get" /\ m.at = "sent" /\ Resolves(m.token)
    /\ wire' = Replied(m, "ok")
    /\ UNCHANGED <<limiterVars, now, server, client, begun, faults>>

\* route: the session is resolved in one transaction, the handler runs in the next.
ResolvePin(m) ==
    /\ m \in wire /\ m.task = SetPin /\ m.at = "sent" /\ Resolves(m.token)
    /\ wire' = Advanced(m, "resolved")
    /\ UNCHANGED <<limiterVars, now, server, client, begun, faults>>

\* setPin: the current PIN is read without a lock and checked, the new one is hashed
\* (scrypt, awaited), then stored with the other sessions revoked.
CheckPin(m) ==
    /\ m \in wire /\ m.task = SetPin /\ m.at = "resolved"
    /\ \/ \E new \in Pins : wire' = (wire \ {m}) \cup {[m EXCEPT !.at = "checked", !.pin = new]}
       \/ pin # NoPin /\ wire' = Replied(m, "401")   \* PIN_REQUIRED, PIN_INVALID
    /\ UNCHANGED <<limiterVars, now, server, client, begun, faults>>

Live(s) == ~sessions[s].revoked /\ sessions[s].until > now

\* revokeAllSessions, exceptSessionId the one that asked.
OthersRevoked_OfPage(me) ==
    [s \in DOMAIN sessions |-> [sessions[s] EXCEPT !.revoked =
        @ \/ (s # me /\ Live(s) /\ sessions[s].page = sessions[me].page)]]

OthersRevoked(me) ==
    [s \in DOMAIN sessions |-> [sessions[s] EXCEPT !.revoked = @ \/ (s # me /\ Live(s))]]

StorePin(m) ==
    /\ m \in wire /\ m.task = SetPin /\ m.at = "checked"
    /\ pin' = m.pin
    /\ sessions' = OthersRevoked(m.token)
    /\ pinBy' = [session |-> m.token, among |-> Len(sessions)]
    /\ wire' = Replied(m, "ok")
    /\ UNCHANGED <<limiterVars, now, active, claims, client, begun, faults>>

\* app.cleanup_expired, for the claims.
CleanupExpired ==
    /\ \E c \in claims : c.until < now
    /\ claims' = {c \in claims : c.until >= now}
    /\ UNCHANGED <<limiterVars, now, active, pin, pinBy, sessions, wire, client, begun, faults>>

\* AdminService.setUserActive
SetUserActive ==
    /\ Fault("admin")
    /\ active' = ~active
    /\ UNCHANGED <<limiterVars, now, pin, pinBy, claims, sessions, wire, client, begun>>

----------------------------------------------------------------------------
(* The page *)

Send(p, t) ==
    /\ wire' = wire \cup {Sends(p, t, token[p])}
    /\ task' = [task EXCEPT ![p][t] = First]

\* Telegram opens the page with initData dated by its own clock; a reload starts
\* the page again with the same initData.  The effect of AppProvider authenticates.
\* The server goes on with the requests of the page before, except that a read that
\* nobody awaits changes nothing.
Load(p) ==
    /\ FoldFunction(+, 0, loads) < MaxLoads
    /\ IF loads[p] = 0 THEN \E ahead \in 0 .. Skew + 1 : issued' = [issued EXCEPT ![p] = now + ahead]
                       ELSE UNCHANGED issued
    /\ loads' = [loads EXCEPT ![p] = @ + 1]
    /\ screen' = [screen EXCEPT ![p] = "loading"]
    /\ token' = [token EXCEPT ![p] = NoToken]
    /\ refused' = refused \ {p}
    /\ shown' = [shown EXCEPT ![p] = NoRun]
    /\ task' = [task EXCEPT ![p] = [t \in Tasks |-> IF t = Boot THEN First ELSE Idle]]
    /\ wire' = {m \in wire : m.page = p => m.task[1] # "get" /\ m.at # "answered"}
                  \cup {[Sends(p, Boot, NoToken) EXCEPT !.load = loads[p] + 1]}
    /\ UNCHANGED <<limiterVars, now, server, begun, faults>>

\* AppProvider.retry, from the error screen.
RetryBoot(p) ==
    /\ screen[p] = "error" /\ task[p][Boot].at \notin InFlight
    /\ screen' = [screen EXCEPT ![p] = "loading"]
    /\ Send(p, Boot)
    /\ begun < MaxBegun /\ begun' = begun + 1
    /\ UNCHANGED <<limiterVars, now, server, issued, loads, refused, token, shown, faults>>

\* useApiQuery.run: the next run, which supersedes the one before (requestRef).
Latest(p) == Cardinality({r \in Gets : task[p][Get(r)].at # "idle"})

BeginGet(p) ==
    /\ screen[p] = "ready"
    /\ Latest(p) + 1 \in Gets /\ Send(p, Get(Latest(p) + 1))
    /\ begun < MaxBegun /\ begun' = begun + 1
    /\ UNCHANGED <<limiterVars, now, server, issued, loads, refused, screen, token, shown, faults>>

\* useMutation, for a PIN change.
BeginPin(p) ==
    /\ screen[p] = "ready" /\ task[p][SetPin].at = "idle" /\ Send(p, SetPin)
    /\ begun < MaxBegun /\ begun' = begun + 1
    /\ UNCHANGED <<limiterVars, now, server, issued, loads, refused, screen, token, shown, faults>>

\* What is settled when a request of the page is: a query shows its data unless it
\* was superseded.
Settled(f, p, t, end) == [f EXCEPT ![p][t].at = end]
Shown_WithoutGuard(p, t) == [shown EXCEPT ![p] = IF t[1] = "get" THEN t[2] ELSE @]
Shown(p, t) == [shown EXCEPT ![p] = IF t[1] = "get" /\ t[2] = Latest(p) THEN t[2] ELSE @]

Mine(m) == m \in wire /\ m.at = "answered"

ReceiveCall(m) ==
    /\ Mine(m) /\ m.task \notin Exchanges
    /\ m.ans = "401" => ~task[m.page][m.task].retry
    /\ task' = Settled(task, m.page, m.task, IF m.ans = "ok" THEN "ok" ELSE "failed")
    /\ shown' = IF m.ans = "ok" THEN Shown(m.page, m.task) ELSE shown
    /\ wire' = wire \ {m}
    /\ UNCHANGED <<limiterVars, now, server, issued, loads, refused, screen, token, begun, faults>>

Authenticated(m) == IF m.ans = "ok" THEN m.got ELSE NoToken
Screen(tok) == IF tok = NoToken THEN "error" ELSE "ready"

ReceiveBoot(m) ==
    /\ Mine(m) /\ m.task = Boot
    /\ m.ans = "401" => ~task[m.page][Boot].retry
    /\ token' = [token EXCEPT ![m.page] = Authenticated(m)]
    /\ screen' = [screen EXCEPT ![m.page] = Screen(token'[m.page])]
    /\ task' = Settled(task, m.page, Boot, IF m.ans = "ok" THEN "ok" ELSE "failed")
    /\ wire' = wire \ {m}
    /\ UNCHANGED <<limiterVars, now, server, issued, loads, refused, shown, begun, faults>>

\* A 401, once per request: it awaits the re-authentication, and starts it when none
\* is in flight (runReauth).  The re-authentication posts through the same client, so
\* its own 401 comes here too: it awaits itself, and whoever joins it awaits it, for
\* as long as the page is open.
AwaitReauth(m) ==
    /\ Mine(m) /\ m.ans = "401" /\ task[m.page][m.task].retry
    /\ LET waiting == [task EXCEPT ![m.page][m.task].at = "waiting"]
       IN  IF task[m.page][Reauth].at \in InFlight
           THEN task' = waiting /\ wire' = wire \ {m}
           ELSE /\ task' = [waiting EXCEPT ![m.page][Reauth] = First]
                /\ wire' = (wire \ {m}) \cup {Sends(m.page, Reauth, token[m.page])}
    /\ refused' = IF m.task = Reauth THEN refused \cup {m.page} ELSE refused
    /\ UNCHANGED <<limiterVars, now, server, issued, loads, screen, token, shown, begun, faults>>

Waiting(p) == {t \in Tasks : task[p][t].at = "waiting"}

ReceiveReauth_WakesNobody(m) ==
    /\ Mine(m) /\ m.task = Reauth /\ m.ans # "401"
    /\ token' = [token EXCEPT ![m.page] = Authenticated(m)]
    /\ screen' = [screen EXCEPT ![m.page] = Screen(Authenticated(m))]
    /\ wire' = wire \ {m}
    /\ task' = Settled(task, m.page, Reauth, IF m.ans = "ok" THEN "ok" ELSE "failed")
    /\ UNCHANGED <<limiterVars, now, server, issued, loads, refused, shown, begun, faults>>

\* The re-authentication settles: the promise is cleared and everything that awaits
\* it goes on, once more with the new token or with the 401 it had.  A sign-in of the
\* provider that was waiting fails when there is no token (authenticate's catch).
ReceiveReauth(m) ==
    LET p == m.page
        tok == Authenticated(m)
    IN
    /\ Mine(m) /\ m.task = Reauth /\ m.ans # "401"
    /\ token' = [token EXCEPT ![p] = tok]
    /\ screen' = [screen EXCEPT ![p] = Screen(tok)]
    /\ IF tok = NoToken
       THEN /\ wire' = wire \ {m}
            /\ task' = [task EXCEPT ![p] = [t \in Tasks |->
                  IF t \in Waiting(p) \cup {Reauth} THEN [@[t] EXCEPT !.at = "failed"] ELSE @[t]]]
       ELSE /\ wire' = (wire \ {m}) \cup {Sends(p, t, tok) : t \in Waiting(p)}
            /\ task' = [task EXCEPT ![p] = [t \in Tasks |->
                  IF t = Reauth THEN [@[t] EXCEPT !.at = "ok"]
                  ELSE IF t \in Waiting(p) THEN Again ELSE @[t]]]
    /\ UNCHANGED <<limiterVars, now, server, issued, loads, refused, shown, begun, faults>>

----------------------------------------------------------------------------
(* Faults and the clock *)

\* fetch fails on the page, before the server has the request, while it works on it
\* (which it then goes on with) or after it has answered.
Lose(m) ==
    /\ Fault("network")
    /\ m \in wire /\ Awaited(m)
    /\ \/ wire' = Replied(m, "error")
       \/ m.at # "answered" /\ wire' = Replied(m, "error") \cup {[m EXCEPT !.load = 0]}
    /\ UNCHANGED <<limiterVars, now, server, client, begun>>

RestartInstance(i) ==
    /\ Fault("restart") /\ ForgetLocal(i)
    /\ UNCHANGED <<now, server, wire, client, begun>>

Tick ==
    /\ now < MaxTime /\ now' = now + 1
    /\ UNCHANGED <<limiterVars, server, wire, client, begun, faults>>

Serve(m) ==
    \/ LimitExchange(m) \/ RefuseExchange(m) \/ ClaimExchange(m)
    \/ UpsertUser(m) \/ CreateSession(m)
    \/ RefuseCall(m) \/ AnswerGet(m) \/ ResolvePin(m) \/ CheckPin(m) \/ StorePin(m)

Receive(m) ==
    \/ ReceiveCall(m) \/ ReceiveBoot(m) \/ AwaitReauth(m) \/ ReceiveReauth(m)

Next ==
    \/ \E m \in wire : Serve(m) \/ Receive(m)
    \/ CleanupExpired \/ SetUserActive \/ Tick
    \/ \E p \in Pages : Load(p) \/ RetryBoot(p) \/ BeginGet(p) \/ BeginPin(p)
    \/ \E m \in wire : LimitByFallback(m) \/ Lose(m)
    \/ \E i \in Instances : RestartInstance(i)

Spec == Init /\ [][Next]_vars

----------------------------------------------------------------------------
(* Properties *)

\* One initData payload mints at most one session, whatever is retried, reloaded or
\* lost, and however long the claims are kept (service.ts:101-102).
OneSessionPerInitData ==
    \A a, b \in DOMAIN sessions : sessions[a].page = sessions[b].page => a = b

\* A session that was open when the PIN was last set is never used again, unless it is
\* the one that set it (service.ts:262-263).
PinChangeEndsOthers ==
    \A s \in 1 .. pinBy.among : s # pinBy.session => ~Live(s)

\* A slow response never overwrites a newer one on the screen (useApi.ts:15).
NewestShown ==
    [][\A p \in Pages : loads'[p] = loads[p] => shown'[p] >= shown[p]]_vars

\* What a coroutine awaits is under way: its own request, which exactly one answer
\* ends, or the request of the re-authentication, which one answer ends for all who
\* wait (api.ts:145-152).  The one exception is a re-authentication that was itself
\* answered with a 401: it awaits itself, and everybody who waits on that page, and
\* nobody else, waits in vain, although a failure is said to surface (api.ts:121).
NobodyForgotten ==
    \A p \in Pages, t \in Tasks :
        /\ task[p][t].at = "sent" =>
              Cardinality({m \in wire : m.page = p /\ m.task = t /\ Awaited(m)}) = 1
        /\ task[p][t].at = "waiting" => (task[p][Reauth].at = "sent") # (p \in refused)

=============================================================================
