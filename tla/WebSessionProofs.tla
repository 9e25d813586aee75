-------------------------- MODULE WebSessionProofs --------------------------
(***************************************************************************)
(* Proofs about WebSession for every number of pages, processes and        *)
(* coroutines, every choice of limits, lifetimes and faults.               *)
(*                                                                         *)
(* The argument has three threads.  A page's coroutine that has asked has  *)
(* exactly one request that can still answer it, and one that has not has  *)
(* none (OneAwaited); that is what every action of the server, of the      *)
(* network and of the page keeps.  Of a page's initData at most one        *)
(* exchange is past the claim, in the server or stored as a session, and   *)
(* its claim is kept until the initData is too old to be exchanged         *)
(* (Exclusive, Remembered).  And the run of a hook that is on screen was   *)
(* begun, in order (InOrder).                                              *)
(*                                                                         *)
(* The last sections are about the database underneath: whose rows a       *)
(* transaction sees, what the services may run (module Access), and what   *)
(* deployments leave of it (module Migrations).  The run's formula (module *)
(* MCWebSession) is an instance of these.                                  *)
(***************************************************************************)
EXTENDS MCWebSession, FiniteSetTheorems, WellFoundedInduction, TLAPS

\* A request is one of a page that was loaded, of this load or an earlier one, with
\* tokens of sessions that exist; one that is answered is still awaited.
WireSound ==
    \A m \in wire :
        /\ loads[m.page] >= 1 /\ m.load <= loads[m.page]
        /\ m.token <= Len(sessions) /\ m.got <= Len(sessions)
        /\ m.at = "answered" => Awaited(m)

\* The requests that can still answer a coroutine.
Asked(p, t) == {m \in wire : m.page = p /\ m.task = t /\ Awaited(m)}
OneAwaited ==
    \A p \in Pages, t \in Tasks :
        IF task[p][t].at = "sent" THEN \E m \in wire : Asked(p, t) = {m}
                                  ELSE Asked(p, t) = {}

ReauthAwaited ==
    \A p \in Pages, t \in Tasks :
        task[p][t].at = "waiting" => task[p][Reauth].at \in InFlight

\* A page that shows anything was loaded; a hook's runs begin one after the other, and
\* what is on screen is of one of them.
Started(p) == {r \in Gets : task[p][Get(r)].at # "idle"}
InOrder ==
    \A p \in Pages :
        /\ screen[p] # "closed" => loads[p] >= 1
        /\ \E k \in Gets \cup {NoRun} : Started(p) = 1..k /\ shown[p] <= k

\* Past the claim, an exchange is the only one of its page that ever was.
InExchange(m) == m.at \in {"claimed", "known"}
Exclusive ==
    /\ OneSessionPerInitData
    /\ \A m, n \in wire : InExchange(m) /\ InExchange(n) /\ m.page = n.page => m = n
    /\ \A m \in wire, s \in DOMAIN sessions : InExchange(m) => sessions[s].page # m.page

\* The claim outlives the time in which the initData could be exchanged again.
UsedUp(p) ==
    \/ \E m \in wire : InExchange(m) /\ m.page = p
    \/ \E s \in DOMAIN sessions : sessions[s].page = p
Remembered ==
    \A p \in Pages : UsedUp(p) =>
        /\ loads[p] >= 1
        /\ \/ \E c \in claims : c.page = p /\ c.until >= issued[p] + MaxAge
           \/ now > issued[p] + MaxAge

PinKept == pinBy.among <= Len(sessions) /\ PinChangeEndsOthers

\* A request let pass was counted.
PassedCounted == \A w \in Windows : passed[w] <= shared[w] /\ passed[w] <= Limit

IInv ==
    /\ TypeOK /\ WireSound /\ OneAwaited /\ ReauthAwaited /\ InOrder
    /\ Exclusive /\ Remembered /\ PinKept /\ PassedCounted

USE LimiterAssumption, TimesAssumption

----------------------------------------------------------------------------
(* Requests and coroutines *)

\* The tasks of a page.
LEMMA TasksAre ==
    /\ Boot \in Tasks /\ Reauth \in Tasks /\ SetPin \in Tasks
    /\ \A r \in Gets : Get(r) \in Tasks
    /\ Boot # Reauth /\ SetPin # Boot /\ SetPin # Reauth
    /\ \A r \in Gets : Get(r) # Boot /\ Get(r) # Reauth /\ Get(r) # SetPin
    /\ \A q, r \in Gets : Get(q) = Get(r) => q = r
  BY DEF Tasks, Exchanges, Boot, Reauth, SetPin, Get

\* A task that is a query's is the run of a query.
LEMMA TaskOfGet ==
    ASSUME NEW t \in Tasks, t[1] = "get" PROVE \E r \in Gets : t = Get(r) /\ t[2] = r
  BY DEF Tasks, Exchanges, Boot, Reauth, SetPin, Get

\* A run of a hook is counted from 1.
LEMMA GetsAre ==
    \E n \in Nat : Gets = 1..n /\ IsFiniteSet(Gets)
  BY GetsAssumption, FS_CardinalityType

\* A request that is sent is a request.
LEMMA SendsTyped ==
    ASSUME NEW p \in Pages, NEW t \in Tasks, NEW tok \in Nat, loads[p] \in Nat
    PROVE  /\ Sends(p, t, tok) \in Request
           /\ Sends(p, t, tok).page = p /\ Sends(p, t, tok).task = t
           /\ Sends(p, t, tok).load = loads[p] /\ Sends(p, t, tok).token = tok
           /\ Sends(p, t, tok).at = "sent" /\ Sends(p, t, tok).got = NoToken
  BY DEF Sends, Request, Answers, NoToken

Steps == {"sent", "counted", "admitted", "claimed", "known", "resolved", "checked", "answered"}

\* What a request is after a step of it.
LEMMA Moved ==
    ASSUME NEW m \in Request, NEW at \in Steps
    PROVE  LET n == [m EXCEPT !.at = at]
           IN  /\ n \in Request /\ n.page = m.page /\ n.load = m.load /\ n.task = m.task
               /\ n.token = m.token /\ n.got = m.got /\ n.at = at
  BY DEF Request, Steps

\* What a request is with the PIN that is to be stored.
LEMMA CheckedTyped ==
    ASSUME NEW m \in Request, NEW new \in Pins
    PROVE  LET n == [m EXCEPT !.at = "checked", !.pin = new]
           IN  /\ n \in Request /\ n.page = m.page /\ n.load = m.load /\ n.task = m.task
               /\ n.token = m.token /\ n.got = m.got /\ n.at = "checked"
  BY DEF Request

\* What a request is that nobody awaits any more.
LEMMA LostTyped ==
    ASSUME NEW m \in Request
    PROVE  LET n == [m EXCEPT !.load = 0]
           IN  /\ n \in Request /\ n.page = m.page /\ n.load = 0 /\ n.task = m.task
               /\ n.token = m.token /\ n.got = m.got /\ n.at = m.at
  BY DEF Request

\* The fields of a request.
LEMMA RequestFields ==
    ASSUME NEW m \in Request
    PROVE  /\ m.page \in Pages /\ m.load \in Nat /\ m.task \in Tasks /\ m.token \in Nat
           /\ m.at \in Steps /\ m.pin \in Pins \cup {NoPin} /\ m.ans \in Answers
           /\ m.got \in Nat
  BY DEF Request, Steps

\* The server, or the network, puts the requests X in the place of m: as many that its
\* coroutine awaits as before, and no more past the claim than before.
Handed(m, X) ==
    /\ m \in wire /\ wire' = (wire \ {m}) \cup X
    /\ X \subseteq Request
    /\ \A n \in X : /\ n.page = m.page /\ n.task = m.task /\ n.token = m.token
                    /\ n.load \in {0, m.load}
                    /\ n.got \in {m.got, NoToken} \cup 1..Len(sessions')
                    /\ n.at = "answered" => Awaited(n)
    /\ Awaited(m) => \E n \in X : \A k \in X : k.load = m.load <=> k = n
    /\ \A k, n \in X : InExchange(k) /\ InExchange(n) => k = n

\* A request moves on.
LEMMA AdvancedHanded ==
    ASSUME TypeOK, NEW m \in wire, NEW at \in Steps \ {"answered"}, wire' = Advanced(m, at)
    PROVE  Handed(m, {[m EXCEPT !.at = at]})
  <1>1. m \in Request
    BY DEF TypeOK
  <1> QED BY <1>1, Moved DEF Handed, Advanced, InExchange

\* A request is answered.
LEMMA AnsweredHanded ==
    ASSUME TypeOK, NEW m \in wire, NEW code \in Answers, NEW tok \in Nat,
           tok = NoToken \/ tok \in 1..Len(sessions'), wire' = Answered(m, code, tok)
    PROVE  \E X : Handed(m, X) /\ \A n \in X : n.at = "answered"
  <1> DEFINE n == [m EXCEPT !.at = "answered", !.ans = code, !.got = tok]
             X == IF Awaited(m) THEN {n} ELSE {}
  <1>1. m \in Request
    BY DEF TypeOK
  <1>2. /\ n \in Request /\ n.page = m.page /\ n.load = m.load /\ n.task = m.task
        /\ n.token = m.token /\ n.got = tok /\ n.at = "answered"
    BY <1>1 DEF Request
  <1>3. Awaited(m) => Awaited(n)
    BY <1>2 DEF Awaited
  <1>4. wire' = (wire \ {m}) \cup X
    BY DEF Answered
  <1> HIDE DEF n
  <1>5. Handed(m, X)
    BY <1>2, <1>3, <1>4 DEF Handed, InExchange
  <1> QED BY <1>2, <1>5

\* A refusal, or the answer to a call, carries no token.
LEMMA RepliedHanded ==
    ASSUME TypeOK, NEW m \in wire, NEW code \in Answers, wire' = Replied(m, code)
    PROVE  \E X : Handed(m, X) /\ \A n \in X : n.at = "answered"
  BY AnsweredHanded DEF Replied, NoToken

----------------------------------------------------------------------------
(* What a step of a request keeps *)

\* The coroutines of the pages are asked for by exactly the requests they await, as before.
LEMMA HandedAsked ==
    ASSUME IInv, NEW m, NEW X, Handed(m, X), UNCHANGED client
    PROVE  OneAwaited'
  <1> USE DEF IInv, client
  <1>1. m \in Request /\ m.page \in Pages /\ m.task \in Tasks
    BY RequestFields DEF TypeOK, Handed
  <1> SUFFICES ASSUME NEW p \in Pages, NEW t \in Tasks
               PROVE  IF task[p][t].at = "sent" THEN \E k \in wire' : Asked(p, t)' = {k}
                                                ELSE Asked(p, t)' = {}
    BY DEF OneAwaited
  <1>2. CASE p # m.page \/ t # m.task
    <2>1. Asked(p, t)' = Asked(p, t)
      BY <1>2 DEF Asked, Awaited, Handed
    <2> QED BY <2>1 DEF OneAwaited, Asked
  <1>3. CASE p = m.page /\ t = m.task /\ Awaited(m)
    <2>1. m \in Asked(p, t)
      BY <1>3 DEF Asked, Handed
    <2>2. Asked(p, t) = {m} /\ task[p][t].at = "sent"
      BY <2>1 DEF OneAwaited
    <2>3. PICK n \in X : \A k \in X : k.load = m.load <=> k = n
      BY <1>3 DEF Handed
    <2>4. Asked(p, t)' = {n}
      BY <1>3, <2>2, <2>3 DEF Asked, Awaited, Handed
    <2> QED BY <2>2, <2>3, <2>4 DEF Handed
  <1>4. CASE p = m.page /\ t = m.task /\ ~Awaited(m)
    <2>1. loads[m.page] # 0 /\ loads[m.page] # m.load
      BY <1>4 DEF WireSound, Awaited, Handed
    <2>2. Asked(p, t)' = Asked(p, t)
      BY <1>4, <2>1 DEF Asked, Awaited, Handed
    <2> QED BY <2>2 DEF OneAwaited, Asked
  <1> QED BY <1>2, <1>3, <1>4

\* So everything about the pages is kept.
LEMMA HandedClient ==
    ASSUME IInv, NEW m, NEW X, Handed(m, X), UNCHANGED client,
           Len(sessions') \in Nat, Len(sessions') >= Len(sessions)
    PROVE  WireSound' /\ OneAwaited' /\ ReauthAwaited' /\ InOrder'
  <1> USE DEF IInv, client
  <1>1. Len(sessions) \in Nat /\ \A n \in wire : n \in Request
    BY DEF TypeOK
  <1>2. ASSUME NEW n \in wire'
        PROVE  /\ loads[n.page] >= 1 /\ n.load <= loads[n.page]
               /\ n.token <= Len(sessions') /\ n.got <= Len(sessions')
               /\ n.at = "answered" => Awaited(n)'
    <2>1. CASE n \in wire
      BY <1>1, <2>1, RequestFields, SMT DEF WireSound, Awaited
    <2>2. CASE n \in X
      <3>1. n \in Request /\ m \in wire /\ m \in Request
        BY <2>2, <1>1 DEF Handed
      <3>2. /\ loads[m.page] >= 1 /\ m.load <= loads[m.page]
            /\ m.token <= Len(sessions) /\ m.got <= Len(sessions)
        BY <3>1 DEF WireSound
      <3>3. /\ n.page = m.page /\ n.token = m.token /\ n.load \in {0, m.load}
            /\ n.got \in {m.got, NoToken} \cup 1..Len(sessions')
            /\ n.at = "answered" => Awaited(n)
        BY <2>2 DEF Handed
      <3>4. loads[m.page] \in Nat /\ m.token \in Nat /\ m.got \in Nat
        BY <3>1, RequestFields DEF TypeOK
      <3>5. n.load <= loads[m.page] /\ n.token <= Len(sessions')
        BY <1>1, <3>2, <3>3, <3>4, SMTT(30)
      <3>6. n.got <= Len(sessions')
        BY <1>1, <3>2, <3>3, <3>4, SMTT(30) DEF NoToken
      <3> QED BY <3>2, <3>3, <3>5, <3>6 DEF Awaited
    <2> QED BY <2>1, <2>2 DEF Handed
  <1>3. WireSound'
    BY <1>2 DEF WireSound
  <1>4. OneAwaited'
    BY HandedAsked
  <1>5. ReauthAwaited' /\ InOrder'
    BY DEF ReauthAwaited, InOrder, Started
  <1> QED BY <1>3, <1>4, <1>5

\* Time passes, pages are loaded, and no exchange gets past its claim.
LEMMA ExchangeKept ==
    ASSUME IInv, \A m \in wire' : InExchange(m) => m \in wire,
           UNCHANGED claims, now' \in Nat, now' >= now,
           DOMAIN sessions' = DOMAIN sessions,
           \A s \in DOMAIN sessions : sessions'[s].page = sessions[s].page,
           \A p \in Pages : loads[p] >= 1 => issued'[p] = issued[p] /\ loads'[p] >= 1
    PROVE  Exclusive' /\ Remembered'
  <1> USE DEF IInv
  <1>1. Exclusive'
    BY DEF Exclusive, OneSessionPerInitData
  <1>2. \A p \in Pages : UsedUp(p)' => UsedUp(p)
    BY DEF UsedUp
  <1>4. ASSUME NEW p \in Pages, UsedUp(p)'
        PROVE  /\ loads'[p] >= 1
               /\ \/ \E c \in claims' : c.page = p /\ c.until >= issued'[p] + MaxAge
                  \/ now' > issued'[p] + MaxAge
    <2>1. /\ loads[p] >= 1
          /\ \/ \E c \in claims : c.page = p /\ c.until >= issued[p] + MaxAge
             \/ now > issued[p] + MaxAge
      BY <1>2, <1>4 DEF Remembered
    <2>2. now \in Nat /\ issued[p] \in Nat /\ MaxAge \in Nat
      BY DEF TypeOK, LimiterTypeOK
    <2> QED BY <2>1, <2>2, SMT
  <1> QED BY <1>1, <1>4 DEF Remembered

\* A request moves on, or is answered, on its side of the claim.
LEMMA HandedExchange ==
    ASSUME IInv, NEW m, NEW X, Handed(m, X),
           \A n \in X : InExchange(n) => InExchange(m),
           UNCHANGED <<now, claims, issued, loads>>,
           DOMAIN sessions' = DOMAIN sessions,
           \A s \in DOMAIN sessions : sessions'[s].page = sessions[s].page
    PROVE  Exclusive' /\ Remembered'
  <1> USE DEF IInv
  <1>1. \A n \in wire' : InExchange(n) =>
            \/ n \in wire
            \/ n \in X /\ InExchange(m) /\ m \in wire /\ n.page = m.page
    BY DEF Handed
  <1>2. ASSUME NEW k \in wire', NEW n \in wire', InExchange(k), InExchange(n),
               k.page = n.page
        PROVE  k = n
    BY <1>2 DEF Handed, Exclusive
  <1>3. Exclusive'
    BY <1>1, <1>2 DEF Exclusive, OneSessionPerInitData
  <1>4. \A p \in Pages : UsedUp(p)' => UsedUp(p)
    BY <1>1 DEF UsedUp
  <1>5. Remembered'
    BY <1>4 DEF Remembered
  <1> QED BY <1>3, <1>5

\* What the session rows are.
LEMMA SessionsAre ==
    ASSUME TypeOK
    PROVE  /\ Len(sessions) \in Nat /\ DOMAIN sessions = 1 .. Len(sessions)
           /\ \A s \in DOMAIN sessions : sessions[s] \in [page : Pages, until : Nat, revoked : BOOLEAN]
           /\ \A s \in DOMAIN sessions : sessions[s].page \in Pages /\ sessions[s].until \in Nat
  <1> DEFINE R == [page : Pages, until : Nat, revoked : BOOLEAN]
  <1>1. sessions \in Seq(R)
    BY DEF TypeOK
  <1>2. \A row \in R : row.page \in Pages /\ row.until \in Nat
    OBVIOUS
  <1> HIDE DEF R
  <1>3. /\ Len(sessions) \in Nat /\ DOMAIN sessions = 1 .. Len(sessions)
        /\ \A s \in DOMAIN sessions : sessions[s] \in R
    BY <1>1
  <1> QED BY <1>2, <1>3 DEF R

\* The PIN, and the sessions, are left alone, or only time passes.
LEMMA PinStays ==
    ASSUME IInv, UNCHANGED <<pinBy, sessions>>, now' \in Nat, now' >= now
    PROVE  PinKept'
  <1>1. ASSUME NEW s \in 1 .. pinBy.among, s # pinBy.session PROVE ~Live(s)'
    <2>0. pinBy.among \in Nat /\ pinBy.among <= Len(sessions)
      BY DEF IInv, TypeOK, PinKept
    <2>1. TypeOK /\ ~Live(s)
      BY <1>1 DEF IInv, PinKept, PinChangeEndsOthers
    <2>2. s \in DOMAIN sessions
      BY <1>1, <2>0, <2>1, SessionsAre, SMT
    <2>3. sessions[s].until \in Nat
      BY <2>1, <2>2, SessionsAre
    <2>4. now \in Nat
      BY DEF IInv, TypeOK, LimiterTypeOK
    <2> QED BY <2>1, <2>3, <2>4, SMT DEF Live
  <1> QED BY <1>1 DEF IInv, PinKept, PinChangeEndsOthers

----------------------------------------------------------------------------
(* The limiter *)

\* A quotient is no larger than what is divided.
LEMMA DivBounded == ASSUME NEW a \in Nat, NEW b \in Nat \ {0} PROVE a \div b \in 0 .. a
  BY SMT

\* The window of a time of the clock is one that is counted.
LEMMA WindowTyped == ASSUME LimiterTypeOK PROVE window \in Windows
  <1>1. now \in Nat /\ now <= MaxTime /\ WindowLength \in Nat \ {0}
    BY SMT DEF LimiterTypeOK
  <1>2. now \div WindowLength \in 0 .. now
    BY <1>1, DivBounded
  <1> QED BY <1>1, <1>2, SMT DEF window, Windows

\* A count stays in its range, and is exact up to the limit.
LEMMA CountedTyped ==
    ASSUME NEW hits \in 0 .. Limit + 1
    PROVE  /\ Counted(hits) \in 0 .. Limit + 1
           /\ Counted(hits) <= Limit => Counted(hits) = hits + 1
           /\ hits <= Limit => Counted(hits) = hits + 1
  BY SMT DEF Counted

\* One process counts its own hit.
LEMMA BumpTyped ==
    ASSUME LimiterTypeOK, NEW i \in Instances, BumpLocal(i)
    PROVE  local' \in [Instances -> [window : Windows, hits : 0 .. Limit + 1]]
  <1>1. local[i] \in [window : Windows, hits : 0 .. Limit + 1]
    BY DEF LimiterTypeOK
  <1>2. 1 \in 0 .. Limit + 1
    BY SMT
  <1>3. (IF local[i].window = window THEN Counted(local[i].hits) ELSE 1) \in 0 .. Limit + 1
    BY <1>1, <1>2, CountedTyped
  <1> QED BY <1>1, <1>3, WindowTyped DEF BumpLocal, LimiterTypeOK

Admission ==
    \/ \E i \in Instances : RefusedLocally(i) \/ CountedLocally(i) \/ ForgetLocal(i)
    \/ RefusedByStore \/ AdmittedByStore \/ AdmittedByFallback

\* Every step of the limiter keeps its types, and lets pass only what it counted.
LEMMA LimiterStep ==
    ASSUME LimiterTypeOK, PassedCounted, UNCHANGED now, Admission
    PROVE  LimiterTypeOK' /\ PassedCounted'
  <1>1. CASE \E i \in Instances : RefusedLocally(i) \/ CountedLocally(i)
    BY <1>1, BumpTyped DEF RefusedLocally, CountedLocally, LimiterTypeOK, PassedCounted
  <1>2. CASE \E i \in Instances : ForgetLocal(i)
    <2>1. NeverHit \in [window : Windows, hits : 0 .. Limit + 1]
      BY SMT DEF NeverHit, Windows
    <2> QED BY <1>2, <2>1 DEF ForgetLocal, LimiterTypeOK, PassedCounted
  <1>3. CASE RefusedByStore \/ AdmittedByStore
    <2>1. window \in Windows /\ shared[window] \in 0 .. Limit + 1
                             /\ passed[window] \in 0 .. Limit + 1
      BY WindowTyped DEF LimiterTypeOK
    <2>2. shared' = [shared EXCEPT ![window] = Counted(shared[window])]
      BY <1>3 DEF RefusedByStore, AdmittedByStore, BumpShared
    <2>3. \/ UNCHANGED passed
          \/ /\ passed' = [passed EXCEPT ![window] = Counted(passed[window])]
             /\ Counted(shared[window]) <= Limit
      BY <1>3, <2>1, <2>2 DEF RefusedByStore, AdmittedByStore, LimiterTypeOK
    <2>4. LimiterTypeOK'
      BY <1>3, <2>1, <2>2, <2>3, CountedTyped DEF LimiterTypeOK, RefusedByStore, AdmittedByStore
    <2>5. /\ Counted(shared[window]) \in 0 .. Limit + 1
          /\ Counted(shared[window]) <= Limit => Counted(shared[window]) = shared[window] + 1
          /\ passed[window] <= Limit => Counted(passed[window]) = passed[window] + 1
          /\ shared[window] <= Limit => Counted(shared[window]) = shared[window] + 1
      BY <2>1, CountedTyped
    <2>6. shared[window] <= Limit \/ Counted(shared[window]) = Limit + 1
      BY <2>1, SMT DEF Counted
    <2> QED BY <2>1, <2>2, <2>3, <2>4, <2>5, <2>6, SMT DEF PassedCounted, LimiterTypeOK
  <1>4. CASE AdmittedByFallback
    BY <1>4 DEF AdmittedByFallback, limiterVars, LimiterTypeOK, PassedCounted
  <1> QED BY <1>1, <1>2, <1>3, <1>4 DEF Admission

----------------------------------------------------------------------------
(* The server *)

\* A fault is counted within the bound.
LEMMA FaultCounted ==
    ASSUME TypeOK, NEW kind, Fault(kind) PROVE faults' \in 0 .. MaxFaults
  BY SMT DEF Fault, TypeOK

\* A request that is replaced leaves requests.
LEMMA HandedTyped == ASSUME TypeOK, NEW m, NEW X, Handed(m, X) PROVE wire' \subseteq Request
  BY DEF TypeOK, Handed

\* A step of the server or of the network that moves one request on, on its side of the
\* claim, and writes nothing.
LEMMA Passing ==
    ASSUME IInv, NEW m, NEW X, Handed(m, X), \A n \in X : InExchange(n) => InExchange(m),
           UNCHANGED <<now, server, client, begun>>,
           LimiterTypeOK', PassedCounted', faults' \in 0 .. MaxFaults
    PROVE  IInv'
  <1> USE DEF IInv, server
  <1>1. TypeOK'
    BY HandedTyped DEF TypeOK, client
  <1>2. WireSound' /\ OneAwaited' /\ ReauthAwaited' /\ InOrder'
    BY HandedClient, SessionsAre
  <1>3. Exclusive' /\ Remembered'
    BY HandedExchange DEF client
  <1>4. PinKept'
    <2>1. now \in Nat
      BY DEF TypeOK, LimiterTypeOK
    <2>2. now' = now /\ now' >= now /\ UNCHANGED <<pinBy, sessions>>
      BY <2>1, SMT
    <2> QED BY <2>1, <2>2, PinStays
  <1> QED BY <1>1, <1>2, <1>3, <1>4

\* The limiter left alone keeps what it kept.
LEMMA LimiterStays ==
    ASSUME IInv, UNCHANGED <<limiterVars, now>> PROVE LimiterTypeOK' /\ PassedCounted'
  BY DEF IInv, TypeOK, LimiterTypeOK, PassedCounted, limiterVars

\* A request that moves on without a claim.
LEMMA StepAdvance ==
    ASSUME IInv, NEW m \in wire, NEW at \in Steps \ {"answered"}, wire' = Advanced(m, at),
           at \notin {"claimed", "known"} \/ InExchange(m),
           UNCHANGED <<now, server, client, begun>>,
           LimiterTypeOK', PassedCounted', faults' \in 0 .. MaxFaults
    PROVE  IInv'
  <1>1. TypeOK /\ m \in Request
    BY DEF IInv, TypeOK
  <1>2. Handed(m, {[m EXCEPT !.at = at]}) /\ [m EXCEPT !.at = at].at = at
    BY <1>1, AdvancedHanded, Moved
  <1>3. \A n \in {[m EXCEPT !.at = at]} : InExchange(n) => InExchange(m)
    BY <1>2 DEF InExchange
  <1> QED BY <1>1, <1>2, <1>3, Passing

\* An exchange is counted, refused or admitted.
LEMMA StepLimitExchange == ASSUME IInv, NEW m \in wire, LimitExchange(m) PROVE IInv'
  <1> USE DEF IInv
  <1>1. TypeOK /\ UNCHANGED <<now, server, client, begun, faults>>
    BY DEF LimitExchange
  <1>2. Admission
    BY DEF LimitExchange, Admission
  <1>3. LimiterTypeOK' /\ PassedCounted' /\ faults' \in 0 .. MaxFaults
    BY <1>1, <1>2, LimiterStep DEF TypeOK
  <1>4. CASE wire' = Replied(m, "error")
    <2>1. PICK X : Handed(m, X) /\ \A n \in X : n.at = "answered"
      BY <1>1, <1>4, RepliedHanded DEF Answers
    <2>2. \A n \in X : ~InExchange(n)
      BY <2>1 DEF InExchange
    <2> QED BY <1>1, <1>3, <2>1, <2>2, Passing
  <1>5. ASSUME NEW at \in {"counted", "admitted"}, wire' = Advanced(m, at) PROVE IInv'
    BY <1>1, <1>3, <1>5, StepAdvance DEF Steps
  <1> QED BY <1>4, <1>5 DEF LimitExchange

\* The database refuses, and the local count admits.
LEMMA StepLimitByFallback == ASSUME IInv, NEW m \in wire, LimitByFallback(m) PROVE IInv'
  <1> USE DEF IInv
  <1>1. TypeOK /\ UNCHANGED <<now, server, client, begun>> /\ faults' \in 0 .. MaxFaults
    BY FaultCounted DEF LimitByFallback
  <1>2. LimiterTypeOK' /\ PassedCounted'
    BY <1>1, LimiterStep DEF LimitByFallback, Admission, TypeOK
  <1> QED BY <1>1, <1>2, StepAdvance DEF LimitByFallback, Steps

\* An answer that writes nothing: a refusal, a read.
LEMMA StepReply ==
    ASSUME IInv, NEW m \in wire, NEW code \in Answers, wire' = Replied(m, code),
           UNCHANGED <<limiterVars, now, server, client, begun>>,
           faults' \in 0 .. MaxFaults
    PROVE  IInv'
  <1>1. TypeOK
    BY DEF IInv
  <1>2. PICK X : Handed(m, X) /\ \A n \in X : n.at = "answered"
    BY <1>1, RepliedHanded
  <1>3. \A n \in X : ~InExchange(n)
    BY <1>2 DEF InExchange
  <1> QED BY <1>2, <1>3, LimiterStays, Passing

\* The user is known, or turned away.
LEMMA StepUpsertUser == ASSUME IInv, NEW m \in wire, UpsertUser(m) PROVE IInv'
  <1>1. CASE active
    <2>1. /\ wire' = Advanced(m, "known") /\ InExchange(m)
          /\ UNCHANGED <<limiterVars, now, server, client, begun>>
          /\ faults' \in 0 .. MaxFaults
      BY <1>1 DEF UpsertUser, InExchange, IInv, TypeOK
    <2> QED BY <2>1, StepAdvance, LimiterStays DEF Steps
  <1>2. CASE ~active
    BY <1>2, StepReply DEF UpsertUser, Answers, IInv, TypeOK
  <1> QED BY <1>1, <1>2

\* The new PIN was checked, or refused.
LEMMA StepCheckPin == ASSUME IInv, NEW m \in wire, CheckPin(m) PROVE IInv'
  <1>1. CASE wire' = Replied(m, "401")
    BY <1>1, StepReply DEF CheckPin, Answers, IInv, TypeOK
  <1>2. ASSUME NEW new \in Pins,
               wire' = (wire \ {m}) \cup {[m EXCEPT !.at = "checked", !.pin = new]}
        PROVE  IInv'
    <2> DEFINE n == [m EXCEPT !.at = "checked", !.pin = new]
    <2>1. m \in Request
      BY DEF IInv, TypeOK
    <2>2. /\ n \in Request /\ n.page = m.page /\ n.load = m.load /\ n.task = m.task
          /\ n.token = m.token /\ n.got = m.got /\ n.at = "checked"
      BY <2>1 DEF Request
    <2>3. wire' = (wire \ {m}) \cup {n}
      BY <1>2
    <2> HIDE DEF n
    <2>4. Handed(m, {n})
      BY <2>2, <2>3 DEF Handed
    <2>5. ~InExchange(n)
      BY <2>2 DEF InExchange
    <2>6. /\ UNCHANGED <<limiterVars, now, server, client, begun>>
          /\ faults' \in 0 .. MaxFaults
      BY DEF CheckPin, IInv, TypeOK
    <2> QED BY <2>4, <2>5, <2>6, LimiterStays, Passing
  <1> QED BY <1>1, <1>2 DEF CheckPin

\* A request, its answer, or the answer that it will have is lost.
LEMMA StepLose == ASSUME IInv, NEW m \in wire, Lose(m) PROVE IInv'
  <1>1. TypeOK /\ m \in Request /\ faults' \in 0 .. MaxFaults
    BY FaultCounted DEF IInv, TypeOK, Lose
  <1>2. CASE wire' = Replied(m, "error")
    BY <1>1, <1>2, StepReply DEF Lose, Answers
  <1>3. CASE /\ m.at # "answered"
             /\ wire' = Replied(m, "error") \cup {[m EXCEPT !.load = 0]}
    <2> DEFINE a == [m EXCEPT !.at = "answered", !.ans = "error", !.got = NoToken]
               z == [m EXCEPT !.load = 0]
    <2>1. /\ a \in Request /\ a.page = m.page /\ a.load = m.load /\ a.task = m.task
          /\ a.token = m.token /\ a.got = NoToken /\ a.at = "answered"
      BY <1>1 DEF Request, Answers, NoToken
    <2>2. /\ z \in Request /\ z.page = m.page /\ z.load = 0 /\ z.task = m.task
          /\ z.token = m.token /\ z.got = m.got /\ z.at = m.at
      BY <1>1, LostTyped
    <2>3. Awaited(m)
      BY DEF Lose
    <2>4. wire' = (wire \ {m}) \cup {a, z}
      BY <1>3, <2>3 DEF Replied, Answered
    <2> HIDE DEF a, z
    <2>5. m.load # 0
      BY <2>3 DEF IInv, WireSound, Awaited
    <2>6. Handed(m, {a, z})
      BY <1>3, <2>1, <2>2, <2>3, <2>4, <2>5 DEF Handed, Awaited, InExchange
    <2>7. \A n \in {a, z} : InExchange(n) => InExchange(m)
      BY <2>1, <2>2 DEF InExchange
    <2>8. UNCHANGED <<limiterVars, now, server, client, begun>>
      BY DEF Lose
    <2> QED BY <1>1, <2>6, <2>7, <2>8, LimiterStays, Passing
  <1> QED BY <1>2, <1>3 DEF Lose

\* An exchange that is fresh and has no claim is claimed: no exchange of its page is past
\* the claim, for its claim would be there, or the initData would be too old.
LEMMA StepClaim == ASSUME IInv, NEW m \in wire, ClaimExchange(m) PROVE IInv'
  <1> USE DEF IInv
  <1> DEFINE p == m.page
             c == [page |-> p, until |-> now + ReplayTtl]
             n == [m EXCEPT !.at = "claimed"]
  <1>1. /\ m \in Request /\ p \in Pages /\ now \in Nat /\ issued[p] \in Nat
        /\ {MaxAge, Skew, ReplayTtl} \subseteq Nat
    BY RequestFields DEF TypeOK, LimiterTypeOK
  <1>2. /\ n \in Request /\ n.page = p /\ n.at = "claimed" /\ wire' = (wire \ {m}) \cup {n}
    BY <1>1, Moved DEF Steps, ClaimExchange, Advanced
  <1>3. Handed(m, {n})
    BY AdvancedHanded DEF TypeOK, ClaimExchange, Steps
  <1>4. /\ claims' = claims \cup {c}
        /\ UNCHANGED <<limiterVars, now, active, pin, pinBy, sessions, client, begun, faults>>
    BY DEF ClaimExchange
  <1>5. c.page = p /\ c.until = now + ReplayTtl /\ c.until \in Nat
    BY <1>1
  <1> HIDE DEF n, c
  <1>6. TypeOK'
    <2>1. c \in [page : Pages, until : Nat]
      BY <1>1 DEF c
    <2> QED BY <1>4, <2>1, HandedTyped, <1>3, LimiterStays DEF TypeOK, client
  <1>7. WireSound' /\ OneAwaited' /\ ReauthAwaited' /\ InOrder'
    BY <1>3, <1>4, HandedClient, SessionsAre
  <1>8. ~UsedUp(p)
    <2>1. now - issued[p] <= MaxAge /\ ~\E d \in claims : d.page = p
      BY DEF ClaimExchange, Fresh, Claimed
    <2>2. ~(now > issued[p] + MaxAge)
      BY <1>1, <2>1, SMT
    <2> QED BY <1>1, <2>1, <2>2 DEF Remembered
  <1>9. Exclusive'
    BY <1>2, <1>4, <1>8 DEF Exclusive, UsedUp, OneSessionPerInitData
  <1>10. c.until >= issued[p] + MaxAge
    <2>1. issued[p] - now <= Skew
      BY DEF ClaimExchange, Fresh
    <2> QED BY <1>1, <1>5, <2>1, SMT
  <1>11. Remembered'
    <2>1. loads[p] >= 1
      BY DEF WireSound
    <2>2. ASSUME NEW q \in Pages, q # p, UsedUp(q)' PROVE UsedUp(q)
      BY <1>2, <1>4, <2>2 DEF UsedUp
    <2> QED BY <1>4, <1>5, <1>10, <2>1, <2>2 DEF Remembered, client
  <1>12. PinKept'
    <2>1. now' = now /\ now' >= now /\ UNCHANGED <<pinBy, sessions>>
      BY <1>1, <1>4, SMT
    <2> QED BY <1>1, <2>1, PinStays
  <1> QED BY <1>4, <1>6, <1>7, <1>9, <1>11, <1>12, LimiterStays

\* A session is the end of the exchange it was made by.
LEMMA StepCreateSession == ASSUME IInv, NEW m \in wire, CreateSession(m) PROVE IInv'
  <1> USE DEF IInv
  <1> DEFINE p == m.page
             row == SessionRow(p)
             R == [page : Pages, until : Nat, revoked : BOOLEAN]
  <1>1. /\ m \in Request /\ p \in Pages /\ now \in Nat /\ SessionTtl \in Nat
    BY RequestFields DEF TypeOK, LimiterTypeOK
  <1>2. row \in R /\ row.page = p
    BY <1>1 DEF SessionRow
  <1>3. /\ sessions' = Append(sessions, row) /\ wire' = Answered(m, "ok", Len(sessions) + 1)
        /\ UNCHANGED <<limiterVars, now, active, pin, pinBy, claims, client, begun, faults>>
    BY DEF CreateSession, FreshToken
  <1>4. sessions \in Seq(R) /\ Len(sessions) \in Nat /\ DOMAIN sessions = 1 .. Len(sessions)
    BY SessionsAre DEF TypeOK
  <1> HIDE DEF row, R
  <1>5. /\ sessions' \in Seq(R) /\ Len(sessions') = Len(sessions) + 1
        /\ DOMAIN sessions' = 1 .. Len(sessions) + 1
        /\ \A s \in 1 .. Len(sessions) : sessions'[s] = sessions[s]
        /\ sessions'[Len(sessions) + 1] = row
    BY <1>2, <1>3, <1>4, SMT
  <1>6. Len(sessions') >= Len(sessions) /\ Len(sessions) + 1 \in 1 .. Len(sessions')
        /\ Len(sessions') \in Nat
    BY <1>4, <1>5, SMT
  <1>7. PICK X : Handed(m, X) /\ \A n \in X : n.at = "answered"
    BY <1>3, <1>4, <1>6, AnsweredHanded DEF Answers
  <1>8. WireSound' /\ OneAwaited' /\ ReauthAwaited' /\ InOrder'
    BY <1>3, <1>6, <1>7, HandedClient
  <1>9. TypeOK'
    <2>1. token' \in [Pages -> 0 .. Len(sessions')]
      <3>1. 0 .. Len(sessions) \subseteq 0 .. Len(sessions')
        BY <1>4, <1>5, SMT
      <3>2. token \in [Pages -> 0 .. Len(sessions)] /\ token' = token
        BY <1>3 DEF TypeOK, client
      <3> QED BY <3>1, <3>2
    <2>2. wire' \subseteq Request
      BY <1>7, HandedTyped
    <2>3. sessions' \in Seq([page : Pages, until : Nat, revoked : BOOLEAN])
      BY <1>5 DEF R
    <2> QED BY <1>3, <2>1, <2>2, <2>3, LimiterStays DEF TypeOK, client
  <1>10. InExchange(m) /\ \A n \in wire' : InExchange(n) => n \in wire /\ n # m
    BY <1>7 DEF Handed, CreateSession, InExchange
  <1>11. \A n \in wire' : InExchange(n) => n.page # p
    BY <1>10 DEF Exclusive
  <1>12. \A s \in DOMAIN sessions : sessions[s].page # p
    BY <1>10 DEF Exclusive
  <1>13. \A s \in DOMAIN sessions' : \/ s \in DOMAIN sessions /\ sessions'[s] = sessions[s]
                                     \/ s = Len(sessions) + 1 /\ sessions'[s].page = p
    BY <1>2, <1>4, <1>5, SMT
  <1>14. Exclusive'
    BY <1>10, <1>11, <1>12, <1>13 DEF Exclusive, OneSessionPerInitData
  <1>15. \A q \in Pages : UsedUp(q)' => UsedUp(q)
    BY <1>10, <1>13 DEF UsedUp
  <1>16. Remembered'
    BY <1>3, <1>15 DEF Remembered, client
  <1>17. PinKept'
    <2>1. pinBy.among \in Nat /\ pinBy.among <= Len(sessions)
      BY DEF TypeOK, PinKept
    <2>2. ASSUME NEW s \in 1 .. pinBy.among, s # pinBy.session PROVE ~Live(s)'
      <3>1. s \in 1 .. Len(sessions)
        BY <1>4, <2>1, SMT
      <3>2. sessions'[s] = sessions[s] /\ now' = now
        BY <1>3, <1>5, <3>1
      <3> QED BY <2>2, <3>2 DEF PinKept, PinChangeEndsOthers, Live
    <2>3. pinBy.among <= Len(sessions')
      BY <1>4, <1>5, <2>1, SMT
    <2> QED BY <1>3, <2>2, <2>3 DEF PinKept, PinChangeEndsOthers
  <1> QED BY <1>3, <1>8, <1>9, <1>14, <1>16, <1>17, LimiterStays

\* A function over the first numbers is a sequence.
LEMMA FunctionIsSeq ==
    ASSUME NEW S, NEW f, NEW n \in Nat, f = [i \in 1 .. n |-> f[i]],
           \A i \in 1 .. n : f[i] \in S
    PROVE  f \in Seq(S) /\ Len(f) = n
  BY SMTT(30)

\* A new PIN is stored with every other session revoked.
LEMMA StepStorePin == ASSUME IInv, NEW m \in wire, StorePin(m) PROVE IInv'
  <1> USE DEF IInv
  <1> DEFINE R == [page : Pages, until : Nat, revoked : BOOLEAN]
  <1>1. /\ m \in Request /\ m.token \in Nat /\ m.pin \in Pins \cup {NoPin} /\ now \in Nat
    BY RequestFields DEF TypeOK, LimiterTypeOK
  <1>2. /\ sessions' = OthersRevoked(m.token) /\ wire' = Replied(m, "ok") /\ pin' = m.pin
        /\ pinBy' = [session |-> m.token, among |-> Len(sessions)]
        /\ UNCHANGED <<limiterVars, now, active, claims, client, begun, faults>>
    BY DEF StorePin
  <1>3. /\ Len(sessions) \in Nat /\ DOMAIN sessions = 1 .. Len(sessions)
        /\ \A s \in DOMAIN sessions : sessions[s] \in R
    BY SessionsAre
  <1>4. ASSUME NEW s \in DOMAIN sessions
        PROVE  LET new == sessions[s].revoked \/ (s # m.token /\ Live(s))
               IN  /\ sessions'[s] = [sessions[s] EXCEPT !.revoked = new]
                   /\ sessions'[s] \in R /\ sessions'[s].page = sessions[s].page
                   /\ sessions'[s].until = sessions[s].until
                   /\ sessions'[s].revoked = new
    BY <1>2, <1>3 DEF OthersRevoked
  <1>5. DOMAIN sessions' = DOMAIN sessions
    BY <1>2 DEF OthersRevoked
  <1>6. sessions' \in Seq(R) /\ Len(sessions') = Len(sessions)
    <2>1. sessions' = [s \in 1 .. Len(sessions) |-> sessions'[s]]
      BY <1>2, <1>3 DEF OthersRevoked
    <2>2. \A s \in 1 .. Len(sessions) : sessions'[s] \in R
      BY <1>3, <1>4
    <2> HIDE DEF R
    <2> QED BY <1>3, <2>1, <2>2, FunctionIsSeq
  <1>7. PICK X : Handed(m, X) /\ \A n \in X : n.at = "answered"
    BY <1>2, RepliedHanded DEF Answers
  <1>8. WireSound' /\ OneAwaited' /\ ReauthAwaited' /\ InOrder'
    BY <1>2, <1>3, <1>6, <1>7, HandedClient, SMT
  <1>9. TypeOK'
    <2>1. wire' \subseteq Request
      BY <1>7, HandedTyped
    <2>2. pinBy' \in [session : Nat, among : Nat]
      BY <1>1, <1>2, <1>3
    <2> QED BY <1>1, <1>2, <1>6, <2>1, <2>2, LimiterStays DEF TypeOK, client
  <1>10. Exclusive' /\ Remembered'
    <2>1. \A n \in X : ~InExchange(n)
      BY <1>7 DEF InExchange
    <2>2. UNCHANGED <<now, claims, issued, loads>>
      BY <1>2 DEF client
    <2> QED BY <1>4, <1>5, <1>7, <2>1, <2>2, HandedExchange
  <1>11. PinKept'
    <2>1. ASSUME NEW s \in 1 .. pinBy'.among, s # pinBy'.session PROVE ~Live(s)'
      <3>1. s \in DOMAIN sessions /\ s # m.token
        BY <1>2, <1>3, <2>1
      <3>2. /\ sessions'[s].until = sessions[s].until
            /\ sessions'[s].revoked = (sessions[s].revoked \/ (s # m.token /\ Live(s)))
        BY <1>4, <3>1
      <3>3. now' = now
        BY <1>2
      <3> QED BY <3>1, <3>2, <3>3 DEF Live
    <2>2. pinBy'.among <= Len(sessions')
      BY <1>2, <1>3, <1>6, SMT
    <2> QED BY <2>1, <2>2 DEF PinKept, PinChangeEndsOthers
  <1> QED BY <1>2, <1>8, <1>9, <1>10, <1>11, LimiterStays

\* The steps of the server.
LEMMA StepServe == ASSUME IInv, NEW m \in wire, Serve(m) PROVE IInv'
  <1>1. TypeOK /\ faults \in 0 .. MaxFaults
    BY DEF IInv, TypeOK
  <1>2. CASE RefuseExchange(m) \/ RefuseCall(m)
    BY <1>1, <1>2, StepReply DEF RefuseExchange, RefuseCall, Answers
  <1>3. CASE AnswerGet(m)
    BY <1>1, <1>3, StepReply DEF AnswerGet, Answers
  <1>4. CASE ResolvePin(m)
    <2>1. /\ wire' = Advanced(m, "resolved") /\ faults' \in 0 .. MaxFaults
          /\ UNCHANGED <<limiterVars, now, server, client, begun>>
      BY <1>1, <1>4 DEF ResolvePin
    <2> QED BY <2>1, StepAdvance, LimiterStays DEF Steps
  <1> QED BY <1>2, <1>3, <1>4, StepLimitExchange, StepClaim, StepUpsertUser,
             StepCreateSession, StepCheckPin, StepStorePin DEF Serve

----------------------------------------------------------------------------
(* The clock, the administrator, the processes *)

\* Claims of the past are removed: their initData is too old by then.
LEMMA StepCleanup == ASSUME IInv, CleanupExpired PROVE IInv'
  <1> USE DEF IInv
  <1>1. /\ claims' = {c \in claims : c.until >= now}
        /\ UNCHANGED <<limiterVars, now, active, pin, pinBy, sessions, wire, client, begun, faults>>
    BY DEF CleanupExpired
  <1>2. TypeOK'
    BY <1>1, LimiterStays DEF TypeOK, client
  <1>3. WireSound' /\ OneAwaited' /\ ReauthAwaited' /\ InOrder' /\ Exclusive'
    BY <1>1 DEF WireSound, OneAwaited, Asked, Awaited, ReauthAwaited, InOrder, Started,
                Exclusive, OneSessionPerInitData, client
  <1>4. ASSUME NEW p \in Pages, UsedUp(p)'
        PROVE  /\ loads'[p] >= 1
               /\ \/ \E c \in claims' : c.page = p /\ c.until >= issued'[p] + MaxAge
                  \/ now' > issued'[p] + MaxAge
    <2>1. UsedUp(p)
      BY <1>1, <1>4 DEF UsedUp
    <2>2. loads[p] >= 1
      BY <2>1 DEF Remembered
    <2>3. now \in Nat /\ issued[p] \in Nat /\ MaxAge \in Nat
          /\ \A c \in claims : c.until \in Nat
      BY DEF TypeOK, LimiterTypeOK
    <2>4. CASE now > issued[p] + MaxAge
      BY <1>1, <2>2, <2>4 DEF client
    <2>5. ASSUME NEW c \in claims, c.page = p, c.until >= issued[p] + MaxAge
          PROVE  c \in claims' \/ now > issued[p] + MaxAge
      BY <1>1, <2>3, <2>5, SMT
    <2> QED BY <1>1, <2>1, <2>2, <2>5 DEF Remembered, client
  <1>5. PinKept'
    <2>1. now \in Nat
      BY DEF TypeOK, LimiterTypeOK
    <2>2. now' = now /\ now' >= now /\ UNCHANGED <<pinBy, sessions>>
      BY <1>1, <2>1, SMT
    <2> QED BY <2>1, <2>2, PinStays
  <1> QED BY <1>1, <1>2, <1>3, <1>4, <1>5, LimiterStays DEF Remembered

\* Nothing happens but that time passes, that a user is switched off or on, or that a
\* process forgets what it counted.
LEMMA Around ==
    ASSUME IInv, UNCHANGED <<pin, pinBy, claims, sessions, wire, client, begun>>,
           now' \in Nat, now' >= now, active' \in BOOLEAN, faults' \in 0 .. MaxFaults,
           LimiterTypeOK', PassedCounted'
    PROVE  IInv'
  <1> USE DEF IInv, client
  <1>1. TypeOK'
    BY DEF TypeOK
  <1>2. WireSound' /\ OneAwaited' /\ ReauthAwaited' /\ InOrder'
    BY DEF WireSound, OneAwaited, Asked, Awaited, ReauthAwaited, InOrder, Started
  <1>3. Exclusive' /\ Remembered'
    BY ExchangeKept
  <1>4. PinKept'
    BY PinStays
  <1> QED BY <1>1, <1>2, <1>3, <1>4

\* The clock ticks.
LEMMA StepTick == ASSUME IInv, Tick PROVE IInv'
  <1>1. now \in 0 .. MaxTime /\ now' = now + 1 /\ now < MaxTime
    BY DEF IInv, TypeOK, LimiterTypeOK, Tick
  <1>2. now' \in Nat /\ now' >= now /\ now' \in 0 .. MaxTime
    BY <1>1, SMT
  <1>3. LimiterTypeOK' /\ PassedCounted'
    BY <1>2 DEF Tick, limiterVars, IInv, TypeOK, LimiterTypeOK, PassedCounted
  <1>4. UNCHANGED <<active, pin, pinBy, claims, sessions, wire, client, begun, faults>>
    BY DEF Tick, server
  <1> QED BY <1>2, <1>3, <1>4, Around DEF IInv, TypeOK

\* A user is switched off or on; a process starts again.
LEMMA StepFaults ==
    ASSUME IInv, SetUserActive \/ \E i \in Instances : RestartInstance(i) PROVE IInv'
  <1>1. TypeOK /\ now \in Nat /\ active \in BOOLEAN
    <2>1. TypeOK /\ LimiterTypeOK /\ active \in BOOLEAN
      BY DEF IInv, TypeOK
    <2> QED BY <2>1, SMT DEF LimiterTypeOK
  <1>2. now' = now /\ faults' \in 0 .. MaxFaults /\ active' \in BOOLEAN
    BY <1>1, FaultCounted DEF SetUserActive, RestartInstance, server
  <1>3. now' \in Nat /\ now' >= now
    BY <1>1, <1>2, SMT
  <1>4. UNCHANGED <<pin, pinBy, claims, sessions, wire, client, begun>>
    BY DEF SetUserActive, RestartInstance, server
  <1>5. LimiterTypeOK' /\ PassedCounted'
    <2>1. CASE SetUserActive
      BY <2>1, LimiterStays DEF SetUserActive
    <2>2. CASE \E i \in Instances : RestartInstance(i)
      BY <1>1, <1>2, <2>2, LimiterStep DEF RestartInstance, Admission, IInv, TypeOK
    <2> QED BY <2>1, <2>2
  <1> QED BY <1>2, <1>3, <1>4, <1>5, Around

----------------------------------------------------------------------------
(* The page *)

\* What is on screen is of a run, or of none.
LEMMA ShownTyped == ASSUME TypeOK, NEW p \in Pages PROVE shown[p] \in Nat
  <1>1. shown[p] \in Gets \cup {0}
    BY DEF TypeOK, NoRun
  <1>2. \A r \in Gets : r \in Nat
    BY GetsAre
  <1> QED BY <1>1, <1>2

\* The runs of a hook that have begun are the first ones, as many as Latest counts.
LEMMA LatestRun ==
    ASSUME IInv, NEW p \in Pages
    PROVE  /\ Started(p) = 1 .. Latest(p) /\ Latest(p) \in Gets \cup {NoRun}
           /\ Latest(p) \in Nat /\ shown[p] <= Latest(p)
  <1>1. PICK k \in Gets \cup {NoRun} : Started(p) = 1 .. k /\ shown[p] <= k
    BY DEF IInv, InOrder
  <1>2. k \in Nat
    BY GetsAre, SMT DEF NoRun
  <1>3. Cardinality(1 .. k) = k
    BY <1>2, FS_Interval, SMT
  <1>4. Latest(p) = Cardinality(Started(p))
    BY DEF Latest, Started
  <1> QED BY <1>1, <1>2, <1>3, <1>4

\* An answer that is there is the one its coroutine waits for, which has no other.
LEMMA MineAwaited ==
    ASSUME IInv, NEW m \in wire, Mine(m)
    PROVE  /\ m \in Request /\ m.page \in Pages /\ m.task \in Tasks /\ m.got \in 0 .. Len(sessions)
           /\ m \in Asked(m.page, m.task) /\ task[m.page][m.task].at = "sent"
           /\ Asked(m.page, m.task) = {m} /\ loads[m.page] >= 1
  <1>1. m \in Request /\ m.page \in Pages /\ m.task \in Tasks /\ m.got \in Nat
    BY RequestFields DEF IInv, TypeOK
  <1>2. Awaited(m) /\ loads[m.page] >= 1 /\ m.got <= Len(sessions)
    BY DEF IInv, WireSound, Mine
  <1>3. m \in Asked(m.page, m.task)
    BY <1>2 DEF Asked
  <1>4. task[m.page][m.task].at = "sent" /\ Asked(m.page, m.task) = {m}
    BY <1>1, <1>3 DEF IInv, OneAwaited
  <1>5. m.got \in 0 .. Len(sessions)
    BY <1>1, <1>2, SessionsAre DEF IInv
  <1> QED BY <1>1, <1>2, <1>3, <1>4, <1>5

\* Page p takes back the answers Back and sends the requests of the tasks T.
Moves(p, Back, T, tok) ==
    /\ Back \subseteq wire /\ \A m \in Back : m.page = p /\ m.at = "answered"
    /\ wire' = (wire \ Back) \cup {Sends(p, t, tok) : t \in T}
    /\ task' \in [Pages -> [Tasks -> Coroutine]]
    /\ \A q \in Pages : q # p => task'[q] = task[q]
    /\ \A t \in Tasks : task'[p][t].at = "sent" <=>
          t \in T \/ (task[p][t].at = "sent" /\ \A m \in Back : m.task # t)
    /\ \A t \in T : task[p][t].at # "sent" \/ \E m \in Back : m.task = t

\* Whatever a page takes back and sends, each of its coroutines that has asked has one
\* request, and the others have none.
LEMMA MovesAsked ==
    ASSUME IInv, NEW p \in Pages, NEW Back, NEW T \in SUBSET Tasks, NEW tok \in 0 .. Len(sessions),
           Moves(p, Back, T, tok), loads[p] >= 1, UNCHANGED <<loads, sessions>>
    PROVE  WireSound' /\ OneAwaited' /\ wire' \subseteq Request
  <1> USE DEF IInv
  <1>1. tok \in Nat /\ tok <= Len(sessions) /\ Len(sessions) \in Nat /\ loads[p] \in Nat
    BY SessionsAre, SMT DEF TypeOK
  <1>2. ASSUME NEW t \in T
        PROVE  /\ Sends(p, t, tok) \in Request
               /\ Sends(p, t, tok).page = p /\ Sends(p, t, tok).task = t
               /\ Sends(p, t, tok).load = loads[p] /\ Sends(p, t, tok).token = tok
               /\ Sends(p, t, tok).at = "sent" /\ Sends(p, t, tok).got = NoToken
    BY <1>1, SendsTyped
  <1>3. wire' \subseteq Request
    BY <1>2 DEF Moves, TypeOK
  <1>4. WireSound'
    <2>1. ASSUME NEW m \in wire', m \in wire
          PROVE  /\ loads'[m.page] >= 1 /\ m.load <= loads'[m.page]
                 /\ m.token <= Len(sessions') /\ m.got <= Len(sessions')
                 /\ m.at = "answered" => Awaited(m)'
      BY <2>1 DEF WireSound, Awaited
    <2>2. ASSUME NEW m \in wire', NEW t \in T, m = Sends(p, t, tok)
          PROVE  /\ loads'[m.page] >= 1 /\ m.load <= loads'[m.page]
                 /\ m.token <= Len(sessions') /\ m.got <= Len(sessions')
                 /\ m.at = "answered" => Awaited(m)'
      <3>1. /\ m.page = p /\ m.load = loads[p] /\ m.token = tok
            /\ m.at = "sent" /\ m.got = 0
        BY <1>2, <2>2 DEF NoToken
      <3> QED BY <1>1, <3>1, SMT
    <2>3. \A m \in wire' : m \in wire \/ \E t \in T : m = Sends(p, t, tok)
      BY DEF Moves
    <2> QED BY <2>1, <2>2, <2>3 DEF WireSound
  <1>5. ASSUME NEW q \in Pages, NEW t \in Tasks
        PROVE  IF task'[q][t].at = "sent" THEN \E m \in wire' : Asked(q, t)' = {m}
                                          ELSE Asked(q, t)' = {}
    <2>1. CASE q # p
      <3>1. Asked(q, t)' = Asked(q, t)
        BY <1>2, <2>1 DEF Asked, Awaited, Moves
      <3> QED BY <2>1, <3>1 DEF OneAwaited, Asked, Moves
    <2>2. CASE q = p /\ t \in T
      <3>1. Asked(p, t) \ Back = {}
        <4>1. CASE task[p][t].at # "sent"
          BY <4>1 DEF OneAwaited
        <4>2. ASSUME NEW m \in Back, m.task = t PROVE Asked(p, t) \ Back = {}
          <5>1. m \in wire /\ Mine(m) /\ m.page = p
            BY <4>2 DEF Moves, Mine
          <5> QED BY <4>2, <5>1, MineAwaited
        <4> QED BY <2>2, <4>1, <4>2 DEF Moves
      <3>2. Sends(p, t, tok) \in wire' /\ task'[p][t].at = "sent"
        BY <2>2 DEF Moves
      <3>3. Asked(p, t)' = {Sends(p, t, tok)}
        <4>1. \A m \in wire' : m \in wire \ Back \/ \E u \in T : m = Sends(p, u, tok)
          BY DEF Moves
        <4> QED BY <1>2, <2>2, <3>1, <3>2, <4>1 DEF Asked, Awaited
      <3>4. \E m \in wire' : Asked(p, t)' = {m}
        BY <3>2, <3>3
      <3> QED BY <2>2, <3>2, <3>4
    <2>3. CASE q = p /\ t \notin T
      <3>1. Asked(p, t)' = Asked(p, t) \ Back
        <4>1. \A m \in wire' : m \in wire \ Back \/ \E u \in T : m = Sends(p, u, tok)
          BY DEF Moves
        <4>2. wire \ Back \subseteq wire'
          BY DEF Moves
        <4> QED BY <1>2, <2>3, <4>1, <4>2 DEF Asked, Awaited
      <3>2. CASE \E m \in Back : m.task = t
        <4>1. PICK m \in Back : m.task = t
          BY <3>2
        <4>2. m \in wire /\ Mine(m) /\ m.page = p
          BY DEF Moves, Mine
        <4>3. Asked(p, t) = {m}
          BY <4>1, <4>2, MineAwaited
        <4> QED BY <2>3, <3>1, <3>2, <4>3 DEF Moves
      <3>3. CASE \A m \in Back : m.task # t
        <4>1. Asked(p, t)' = Asked(p, t)
          BY <3>1, <3>3 DEF Asked
        <4> QED BY <2>3, <3>3, <4>1 DEF Moves, OneAwaited, Asked
      <3> QED BY <3>2, <3>3
    <2> QED BY <2>1, <2>2, <2>3
  <1>6. OneAwaited'
    BY <1>5 DEF OneAwaited
  <1> QED BY <1>3, <1>4, <1>6

\* What a coroutine is.
LEMMA CoroutineTyped ==
    /\ First \in Coroutine /\ Again \in Coroutine /\ Idle \in Coroutine
    /\ First.at = "sent" /\ Again.at = "sent" /\ Idle.at = "idle"
  BY DEF Coroutine, First, Again, Idle

\* What it is when it is settled, or waits.
LEMMA SettledTyped ==
    ASSUME NEW c \in Coroutine, NEW end \in {"waiting", "ok", "failed"}
    PROVE  [c EXCEPT !.at = end] \in Coroutine /\ [c EXCEPT !.at = end].at = end
  BY DEF Coroutine

\* A step of a page does not touch the server, nor the exchanges it is in.
LEMMA PageStep ==
    ASSUME IInv, UNCHANGED <<limiterVars, now, server, issued, loads, faults>>,
           TypeOK', WireSound', OneAwaited', ReauthAwaited', InOrder',
           \A m \in wire' : m \in wire \/ m.at = "sent"
    PROVE  IInv'
  <1> USE DEF IInv, server
  <1>1. now \in Nat
    BY DEF TypeOK, LimiterTypeOK
  <1>2. now' = now /\ now' \in Nat /\ now' >= now
    BY <1>1, SMT
  <1>3. \A m \in wire' : InExchange(m) => m \in wire
    BY DEF InExchange
  <1>4. Exclusive' /\ Remembered'
    BY <1>2, <1>3, ExchangeKept
  <1>5. PinKept'
    BY <1>2, PinStays
  <1> QED BY <1>4, <1>5, LimiterStays

\* A page sends the request of a task that has none.
LEMMA SendMoves ==
    ASSUME IInv, NEW p \in Pages, NEW t \in Tasks, Send(p, t), task[p][t].at # "sent"
    PROVE  /\ Moves(p, {}, {t}, token[p]) /\ token[p] \in 0 .. Len(sessions)
           /\ task'[p][t].at = "sent"
           /\ \A u \in Tasks : u # t => task'[p][u] = task[p][u]
           /\ \A m \in wire' : m \in wire \/ m.at = "sent"
  <1>1. task \in [Pages -> [Tasks -> Coroutine]] /\ token[p] \in 0 .. Len(sessions)
    BY DEF IInv, TypeOK
  <1>2. task' = [task EXCEPT ![p][t] = First] /\ wire' = wire \cup {Sends(p, t, token[p])}
    BY DEF Send
  <1>3. /\ task' \in [Pages -> [Tasks -> Coroutine]] /\ task'[p][t] = First
        /\ \A u \in Tasks : u # t => task'[p][u] = task[p][u]
        /\ \A q \in Pages : q # p => task'[q] = task[q]
    BY <1>1, <1>2, CoroutineTyped
  <1>4. Sends(p, t, token[p]).at = "sent"
    BY DEF Sends
  <1> QED BY <1>1, <1>2, <1>3, <1>4, CoroutineTyped DEF Moves

\* What a page shows of the hooks is as before.
LEMMA OrderKept ==
    ASSUME IInv, UNCHANGED <<loads, shown>>, \A q \in Pages : Started(q)' = Started(q),
           NEW p \in Pages, loads[p] >= 1, \A q \in Pages : q # p => screen'[q] = screen[q]
    PROVE  InOrder'
  BY DEF IInv, InOrder

\* An error screen is tried again.
LEMMA StepRetryBoot == ASSUME IInv, NEW p \in Pages, RetryBoot(p) PROVE IInv'
  <1> USE DEF IInv
  <1>1. /\ Send(p, Boot) /\ task[p][Boot].at # "sent" /\ screen[p] = "error"
        /\ begun < MaxBegun /\ begun' = begun + 1
        /\ screen' = [screen EXCEPT ![p] = "loading"]
        /\ UNCHANGED <<limiterVars, now, server, issued, loads, refused, token, shown, faults>>
    BY DEF RetryBoot, InFlight
  <1>2. /\ Moves(p, {}, {Boot}, token[p]) /\ token[p] \in 0 .. Len(sessions)
        /\ task'[p][Boot].at = "sent"
        /\ \A u \in Tasks : u # Boot => task'[p][u] = task[p][u]
        /\ \A m \in wire' : m \in wire \/ m.at = "sent"
    BY <1>1, SendMoves, TasksAre
  <1>3. loads[p] >= 1
    BY <1>1 DEF InOrder
  <1>4. WireSound' /\ OneAwaited' /\ wire' \subseteq Request
    BY <1>1, <1>2, <1>3, MovesAsked, TasksAre DEF server
  <1>5. TypeOK'
    <2>1. begun' \in 0 .. MaxBegun
      BY <1>1, SMT DEF TypeOK
    <2> QED BY <1>1, <1>2, <1>4, <2>1, LimiterStays DEF TypeOK, server, Moves
  <1>6. ReauthAwaited'
    BY <1>2, TasksAre DEF ReauthAwaited, Moves
  <1>7. \A q \in Pages : Started(q)' = Started(q)
    BY <1>2, TasksAre DEF Started, Moves
  <1>8. InOrder'
    BY <1>1, <1>3, <1>7, OrderKept DEF TypeOK
  <1> QED BY <1>1, <1>2, <1>4, <1>5, <1>6, <1>8, PageStep

\* The PIN form is sent.
LEMMA StepBeginPin == ASSUME IInv, NEW p \in Pages, BeginPin(p) PROVE IInv'
  <1> USE DEF IInv
  <1>1. /\ Send(p, SetPin) /\ task[p][SetPin].at # "sent" /\ screen[p] = "ready"
        /\ begun < MaxBegun /\ begun' = begun + 1
        /\ UNCHANGED <<limiterVars, now, server, issued, loads, refused, screen, token, shown, faults>>
    BY DEF BeginPin
  <1>2. /\ Moves(p, {}, {SetPin}, token[p]) /\ token[p] \in 0 .. Len(sessions)
        /\ task'[p][SetPin].at = "sent"
        /\ \A u \in Tasks : u # SetPin => task'[p][u] = task[p][u]
        /\ \A m \in wire' : m \in wire \/ m.at = "sent"
    BY <1>1, SendMoves, TasksAre
  <1>3. loads[p] >= 1
    BY <1>1 DEF InOrder
  <1>4. WireSound' /\ OneAwaited' /\ wire' \subseteq Request
    BY <1>1, <1>2, <1>3, MovesAsked, TasksAre DEF server
  <1>5. TypeOK'
    <2>1. begun' \in 0 .. MaxBegun
      BY <1>1, SMT DEF TypeOK
    <2> QED BY <1>1, <1>2, <1>4, <2>1, LimiterStays DEF TypeOK, server, Moves
  <1>6. ReauthAwaited'
    BY <1>2, TasksAre DEF ReauthAwaited, Moves
  <1>7. \A q \in Pages : Started(q)' = Started(q)
    BY <1>2, TasksAre DEF Started, Moves
  <1>8. InOrder'
    BY <1>1, <1>3, <1>7 DEF InOrder
  <1> QED BY <1>1, <1>2, <1>4, <1>5, <1>6, <1>8, PageStep

\* A hook runs again: its run is the next one.
LEMMA StepBeginGet == ASSUME IInv, NEW p \in Pages, BeginGet(p) PROVE IInv'
  <1> USE DEF IInv
  <1> DEFINE k == Latest(p)
             t == Get(k + 1)
  <1>1. /\ k + 1 \in Gets /\ Send(p, t) /\ screen[p] = "ready"
        /\ begun < MaxBegun /\ begun' = begun + 1
        /\ UNCHANGED <<limiterVars, now, server, issued, loads, refused, screen, token, shown, faults>>
    BY DEF BeginGet
  <1>2. /\ Started(p) = 1 .. k /\ k \in Nat /\ shown[p] <= k
    BY LatestRun
  <1> HIDE DEF k
  <1>3. t \in Tasks /\ t # Reauth /\ \A r \in Gets : Get(r) = t <=> r = k + 1
    BY <1>1, TasksAre
  <1>4. task[p][t].at = "idle"
    <2>1. k + 1 \notin Started(p)
      BY <1>2, SMT
    <2> QED BY <1>1, <2>1 DEF Started
  <1> HIDE DEF t
  <1>5. /\ Moves(p, {}, {t}, token[p]) /\ token[p] \in 0 .. Len(sessions)
        /\ task'[p][t].at = "sent"
        /\ \A u \in Tasks : u # t => task'[p][u] = task[p][u]
        /\ \A m \in wire' : m \in wire \/ m.at = "sent"
    BY <1>1, <1>3, <1>4, SendMoves
  <1>6. loads[p] >= 1
    BY <1>1 DEF InOrder
  <1>7. WireSound' /\ OneAwaited' /\ wire' \subseteq Request
    BY <1>1, <1>3, <1>5, <1>6, MovesAsked DEF server
  <1>8. TypeOK'
    <2>1. begun' \in 0 .. MaxBegun
      BY <1>1, SMT DEF TypeOK
    <2> QED BY <1>1, <1>5, <1>7, <2>1, LimiterStays DEF TypeOK, server, Moves
  <1>9. ReauthAwaited'
    BY <1>3, <1>5, TasksAre DEF ReauthAwaited, Moves
  <1>10. Started(p)' = 1 .. k + 1
    <2>1. Started(p)' = Started(p) \cup {k + 1}
      BY <1>1, <1>3, <1>5, TasksAre DEF Started
    <2> QED BY <1>2, <2>1, SMT
  <1>11. \A q \in Pages : q # p => Started(q)' = Started(q)
    BY <1>5 DEF Started, Moves
  <1>12. shown[p] <= k + 1
    BY <1>2, ShownTyped, SMT
  <1>13. InOrder'
    BY <1>1, <1>6, <1>10, <1>11, <1>12 DEF InOrder
  <1> QED BY <1>1, <1>5, <1>7, <1>8, <1>9, <1>13, PageStep

\* A coroutine that was asked for is settled: its answer is taken back.
LEMMA SettledMoves ==
    ASSUME IInv, NEW m \in wire, Mine(m), NEW end \in {"ok", "failed"},
           task' = Settled(task, m.page, m.task, end), wire' = wire \ {m}
    PROVE  /\ Moves(m.page, {m}, {}, NoToken)
           /\ task'[m.page][m.task].at = end
           /\ \A u \in Tasks : u # m.task => task'[m.page][u] = task[m.page][u]
           /\ \A q \in Pages : Started(q)' = Started(q)
           /\ ReauthAwaited' \/ m.task = Reauth
  <1> DEFINE p == m.page
             t == m.task
  <1>1. /\ p \in Pages /\ t \in Tasks /\ task[p][t].at = "sent"
        /\ task \in [Pages -> [Tasks -> Coroutine]]
    BY MineAwaited DEF IInv, TypeOK
  <1>2. m.at = "answered" /\ m \in wire
    BY DEF Mine
  <1> HIDE DEF p, t
  <1>3. task' = [task EXCEPT ![p][t].at = end]
    BY DEF Settled, p, t
  <1>4. /\ [task[p][t] EXCEPT !.at = end] \in Coroutine
        /\ [task[p][t] EXCEPT !.at = end].at = end
    <2>1. task[p][t] \in Coroutine
      BY <1>1
    <2> QED BY <2>1, SettledTyped
  <1>5. /\ task' \in [Pages -> [Tasks -> Coroutine]] /\ task'[p][t].at = end
        /\ \A u \in Tasks : u # t => task'[p][u] = task[p][u]
        /\ \A q \in Pages : q # p => task'[q] = task[q]
    BY <1>1, <1>3, <1>4
  <1>6. Moves(p, {m}, {}, NoToken)
    BY <1>1, <1>2, <1>5 DEF Moves, p, t
  <1>7. \A q \in Pages, u \in Tasks : (task'[q][u].at # "idle") <=> (task[q][u].at # "idle")
    BY <1>1, <1>5
  <1>8. \A q \in Pages : Started(q)' = Started(q)
    BY <1>7, TasksAre DEF Started
  <1>9. ASSUME t # Reauth PROVE ReauthAwaited'
    BY <1>1, <1>5, <1>9, TasksAre DEF ReauthAwaited, IInv
  <1> QED BY <1>5, <1>6, <1>8, <1>9 DEF p, t

\* What a step keeps that takes one answer back and sends nothing.
LEMMA SettledKeeps ==
    ASSUME IInv, NEW m \in wire, Mine(m), NEW end \in {"ok", "failed"},
           task' = Settled(task, m.page, m.task, end), wire' = wire \ {m},
           UNCHANGED <<loads, sessions>>
    PROVE  WireSound' /\ OneAwaited' /\ wire' \subseteq Request
  <1>1. m.page \in Pages /\ loads[m.page] >= 1 /\ NoToken \in 0 .. Len(sessions)
    BY MineAwaited, SessionsAre, SMT DEF NoToken, IInv
  <1>2. Moves(m.page, {m}, {}, NoToken)
    BY SettledMoves
  <1> QED BY <1>1, <1>2, MovesAsked

\* A query or a PIN change has its answer: a query that was superseded shows nothing.
LEMMA StepReceiveCall == ASSUME IInv, NEW m \in wire, ReceiveCall(m) PROVE IInv'
  <1> USE DEF IInv
  <1>1. /\ Mine(m) /\ m.task \notin Exchanges /\ wire' = wire \ {m}
        /\ shown' = IF m.ans = "ok" THEN Shown(m.page, m.task) ELSE shown
        /\ UNCHANGED <<limiterVars, now, server, issued, loads, refused, screen, token, begun, faults>>
    BY DEF ReceiveCall
  <1>2. PICK end \in {"ok", "failed"} : task' = Settled(task, m.page, m.task, end)
    BY DEF ReceiveCall
  <1>3. WireSound' /\ OneAwaited' /\ wire' \subseteq Request
    BY <1>1, <1>2, SettledKeeps DEF server
  <1>4. /\ Moves(m.page, {m}, {}, NoToken) /\ ReauthAwaited'
        /\ \A q \in Pages : Started(q)' = Started(q)
    BY <1>1, <1>2, SettledMoves DEF Exchanges
  <1>5. m.page \in Pages /\ m.task \in Tasks
    BY <1>1, MineAwaited
  <1>6. \/ shown' = shown
        \/ \E r \in Gets : r = Latest(m.page) /\ shown' = [shown EXCEPT ![m.page] = r]
    <2>1. CASE m.ans = "ok" /\ m.task[1] = "get" /\ m.task[2] = Latest(m.page)
      BY <1>1, <1>5, <2>1, TaskOfGet DEF Shown
    <2>2. CASE ~(m.ans = "ok" /\ m.task[1] = "get" /\ m.task[2] = Latest(m.page))
      BY <1>1, <1>5, <2>2 DEF Shown, TypeOK
    <2> QED BY <2>1, <2>2
  <1>7. shown' \in [Pages -> Gets \cup {NoRun}]
    BY <1>6 DEF TypeOK
  <1>8. TypeOK'
    BY <1>1, <1>3, <1>4, <1>7, LimiterStays DEF TypeOK, server, Moves
  <1>9. ASSUME NEW q \in Pages
        PROVE  \E k \in Gets \cup {NoRun} : Started(q)' = 1 .. k /\ shown'[q] <= k
    <2>1. /\ Started(q) = 1 .. Latest(q) /\ Latest(q) \in Gets \cup {NoRun}
          /\ Latest(q) \in Nat /\ shown[q] <= Latest(q)
      BY LatestRun
    <2>2. shown'[q] = shown[q] \/ shown'[q] = Latest(q)
      BY <1>6 DEF TypeOK
    <2>3. Latest(q) <= Latest(q)
      BY <2>1, SMT
    <2> QED BY <1>4, <2>1, <2>2, <2>3
  <1>10. InOrder'
    BY <1>1, <1>9 DEF InOrder
  <1>11. \A n \in wire' : n \in wire
    BY <1>1
  <1> QED BY <1>1, <1>3, <1>4, <1>8, <1>10, <1>11, PageStep

\* What a session token is that came with an answer.
LEMMA AuthenticatedTyped ==
    ASSUME IInv, NEW m \in wire, Mine(m)
    PROVE  /\ Authenticated(m) \in 0 .. Len(sessions)
           /\ Screen(Authenticated(m)) \in {"closed", "loading", "ready", "error"}
  BY MineAwaited, SessionsAre, SMT DEF Authenticated, Screen, NoToken, IInv

\* The sign-in of the provider has its answer.
LEMMA StepReceiveBoot == ASSUME IInv, NEW m \in wire, ReceiveBoot(m) PROVE IInv'
  <1> USE DEF IInv
  <1> DEFINE p == m.page
  <1>1. p \in Pages /\ loads[p] >= 1 /\ Authenticated(m) \in 0 .. Len(sessions)
        /\ Screen(Authenticated(m)) \in {"closed", "loading", "ready", "error"}
    BY MineAwaited, AuthenticatedTyped DEF ReceiveBoot
  <1>2. /\ Mine(m) /\ m.task = Boot /\ wire' = wire \ {m}
        /\ token' = [token EXCEPT ![p] = Authenticated(m)]
        /\ screen' = [screen EXCEPT ![p] = Screen(Authenticated(m))]
        /\ UNCHANGED <<limiterVars, now, server, issued, loads, refused, shown, begun, faults>>
    BY <1>1 DEF ReceiveBoot, TypeOK
  <1>3. PICK end \in {"ok", "failed"} : task' = Settled(task, p, m.task, end)
    BY <1>2 DEF ReceiveBoot
  <1>4. WireSound' /\ OneAwaited' /\ wire' \subseteq Request
    BY <1>2, <1>3, SettledKeeps DEF server
  <1>5. /\ Moves(p, {m}, {}, NoToken) /\ ReauthAwaited'
        /\ \A q \in Pages : Started(q)' = Started(q)
    BY <1>2, <1>3, SettledMoves, TasksAre
  <1> HIDE DEF p
  <1>6. TypeOK'
    BY <1>1, <1>2, <1>4, <1>5, LimiterStays DEF TypeOK, server, Moves
  <1>7. InOrder'
    BY <1>1, <1>2, <1>5, OrderKept DEF TypeOK
  <1>8. \A n \in wire' : n \in wire
    BY <1>2
  <1> QED BY <1>2, <1>4, <1>5, <1>6, <1>7, <1>8, PageStep

\* A coroutine waits for the re-authentication, and starts it when there is none.
LEMMA StepAwaitReauth == ASSUME IInv, NEW m \in wire, AwaitReauth(m) PROVE IInv'
  <1> USE DEF IInv
  <1> DEFINE p == m.page
             t == m.task
             w == [task EXCEPT ![p][t].at = "waiting"]
  <1>1. /\ Mine(m) /\ m.at = "answered"
        /\ UNCHANGED <<limiterVars, now, server, issued, loads, screen, token, shown, begun, faults>>
        /\ refused' \subseteq Pages
    <2>1. m.page \in Pages
      BY RequestFields DEF TypeOK
    <2> QED BY <2>1 DEF AwaitReauth, Mine, TypeOK
  <1>2. /\ p \in Pages /\ t \in Tasks /\ task[p][t].at = "sent" /\ loads[p] >= 1
        /\ task \in [Pages -> [Tasks -> Coroutine]] /\ token[p] \in 0 .. Len(sessions)
    BY <1>1, MineAwaited DEF TypeOK
  <1>3. \/ task[p][Reauth].at \in InFlight /\ task' = w /\ wire' = wire \ {m}
        \/ /\ task[p][Reauth].at \notin InFlight /\ task' = [w EXCEPT ![p][Reauth] = First]
           /\ wire' = (wire \ {m}) \cup {Sends(p, Reauth, token[p])}
    BY DEF AwaitReauth
  <1> HIDE DEF p, t
  <1>4. /\ w \in [Pages -> [Tasks -> Coroutine]] /\ w[p][t].at = "waiting"
        /\ \A u \in Tasks : u # t => w[p][u] = task[p][u]
        /\ \A q \in Pages : q # p => w[q] = task[q]
    <2>1. task[p][t] \in Coroutine
      BY <1>2
    <2>2. /\ [task[p][t] EXCEPT !.at = "waiting"] \in Coroutine
          /\ [task[p][t] EXCEPT !.at = "waiting"].at = "waiting"
      BY <2>1, SettledTyped
    <2> QED BY <1>2, <2>2
  <1> HIDE DEF w
  <1>5. \E T \in SUBSET {Reauth} :
            /\ Moves(p, {m}, T, token[p]) /\ \A n \in wire' : n \in wire \/ n.at = "sent"
            /\ task'[p][Reauth].at \in InFlight
            /\ \A u \in Tasks \ {Reauth} : (task'[p][u].at # "idle") <=> (task[p][u].at # "idle")
    <2>1. CASE task[p][Reauth].at \in InFlight /\ task' = w /\ wire' = wire \ {m}
      <3>1. Moves(p, {m}, {}, token[p])
        BY <1>1, <1>2, <1>4, <2>1 DEF Moves, p, t
      <3>2. task'[p][Reauth].at \in InFlight
        BY <1>2, <1>4, <2>1, TasksAre DEF InFlight
      <3> QED BY <1>2, <1>4, <2>1, <3>1, <3>2
    <2>2. CASE /\ task[p][Reauth].at \notin InFlight /\ task' = [w EXCEPT ![p][Reauth] = First]
               /\ wire' = (wire \ {m}) \cup {Sends(p, Reauth, token[p])}
      <3>1. t # Reauth /\ task[p][Reauth].at # "sent"
        BY <1>2, <2>2 DEF InFlight
      <3>2. /\ task' \in [Pages -> [Tasks -> Coroutine]] /\ task'[p][Reauth].at = "sent"
            /\ \A u \in Tasks : u # Reauth => task'[p][u] = w[p][u]
            /\ \A q \in Pages : q # p => task'[q] = task[q]
        BY <1>2, <1>4, <2>2, TasksAre, CoroutineTyped
      <3>3. Moves(p, {m}, {Reauth}, token[p])
        BY <1>1, <1>2, <1>4, <2>2, <3>1, <3>2 DEF Moves, p, t
      <3>4. Sends(p, Reauth, token[p]).at = "sent"
        BY DEF Sends
      <3> QED BY <1>2, <1>4, <2>2, <3>2, <3>3, <3>4 DEF InFlight
    <2> QED BY <1>3, <2>1, <2>2
  <1>6. PICK T \in SUBSET {Reauth} :
            /\ Moves(p, {m}, T, token[p]) /\ \A n \in wire' : n \in wire \/ n.at = "sent"
            /\ task'[p][Reauth].at \in InFlight
            /\ \A u \in Tasks \ {Reauth} : (task'[p][u].at # "idle") <=> (task[p][u].at # "idle")
    BY <1>5
  <1>7. T \in SUBSET Tasks
    BY TasksAre
  <1>8. WireSound' /\ OneAwaited' /\ wire' \subseteq Request
    BY <1>1, <1>2, <1>6, <1>7, MovesAsked DEF server
  <1>9. TypeOK'
    BY <1>1, <1>6, <1>8, LimiterStays DEF TypeOK, server, Moves
  <1>10. ReauthAwaited'
    BY <1>6 DEF ReauthAwaited, Moves
  <1>11. \A q \in Pages : Started(q)' = Started(q)
    BY <1>6, TasksAre DEF Started, Moves
  <1>12. InOrder'
    BY <1>1, <1>2, <1>11, OrderKept
  <1> QED BY <1>1, <1>6, <1>8, <1>9, <1>10, <1>12, PageStep

\* The re-authentication settles, and whoever waited for it goes on.
LEMMA StepReceiveReauth == ASSUME IInv, NEW m \in wire, ReceiveReauth(m) PROVE IInv'
  <1> USE DEF IInv
  <1> DEFINE p == m.page
             tok == Authenticated(m)
  <1>1. p \in Pages /\ loads[p] >= 1 /\ tok \in 0 .. Len(sessions)
        /\ Screen(tok) \in {"closed", "loading", "ready", "error"}
        /\ m.task = Reauth /\ task[p][Reauth].at = "sent"
        /\ task \in [Pages -> [Tasks -> Coroutine]] /\ m.at = "answered"
    BY MineAwaited, AuthenticatedTyped DEF ReceiveReauth, TypeOK, Mine
  <1>2. /\ token' = [token EXCEPT ![p] = tok] /\ screen' = [screen EXCEPT ![p] = Screen(tok)]
        /\ UNCHANGED <<limiterVars, now, server, issued, loads, refused, shown, begun, faults>>
    BY DEF ReceiveReauth
  <1>3. \/ /\ wire' = wire \ {m}
           /\ task' = [task EXCEPT ![p] = [t \in Tasks |->
                 IF t \in Waiting(p) \cup {Reauth} THEN [task[p][t] EXCEPT !.at = "failed"]
                 ELSE task[p][t]]]
        \/ /\ wire' = (wire \ {m}) \cup {Sends(p, t, tok) : t \in Waiting(p)}
           /\ task' = [task EXCEPT ![p] = [t \in Tasks |->
                 IF t = Reauth THEN [task[p][t] EXCEPT !.at = "ok"]
                 ELSE IF t \in Waiting(p) THEN Again ELSE task[p][t]]]
    BY <1>1 DEF ReceiveReauth
  <1> HIDE DEF p, tok
  <1>4. /\ \A t \in Waiting(p) : t \in Tasks /\ task[p][t].at = "waiting" /\ t # Reauth
        /\ \A t \in Tasks \ Waiting(p) : task[p][t].at # "waiting"
    BY <1>1 DEF Waiting
  <1>5. /\ \A t \in Tasks : task[p][t] \in Coroutine
        /\ \A t \in Tasks : /\ [task[p][t] EXCEPT !.at = "ok"] \in Coroutine
                             /\ [task[p][t] EXCEPT !.at = "ok"].at = "ok"
        /\ \A t \in Tasks : /\ [task[p][t] EXCEPT !.at = "failed"] \in Coroutine
                             /\ [task[p][t] EXCEPT !.at = "failed"].at = "failed"
    <2>1. \A t \in Tasks : task[p][t] \in Coroutine
      BY <1>1
    <2>2. ASSUME NEW t \in Tasks
          PROVE  /\ [task[p][t] EXCEPT !.at = "ok"] \in Coroutine
                 /\ [task[p][t] EXCEPT !.at = "ok"].at = "ok"
      BY <2>1 DEF Coroutine
    <2>3. ASSUME NEW t \in Tasks
          PROVE  /\ [task[p][t] EXCEPT !.at = "failed"] \in Coroutine
                 /\ [task[p][t] EXCEPT !.at = "failed"].at = "failed"
      BY <2>1 DEF Coroutine
    <2> QED BY <2>1, <2>2, <2>3
  <1>6. \E T \in SUBSET Waiting(p) :
            /\ Moves(p, {m}, T, tok) /\ \A n \in wire' : n \in wire \/ n.at = "sent"
            /\ \A t \in Tasks : /\ task'[p][t].at # "waiting"
                                /\ (task'[p][t].at # "idle") <=> (task[p][t].at # "idle")
    <2>1. CASE /\ wire' = wire \ {m}
               /\ task' = [task EXCEPT ![p] = [t \in Tasks |->
                     IF t \in Waiting(p) \cup {Reauth} THEN [task[p][t] EXCEPT !.at = "failed"]
                     ELSE task[p][t]]]
      <3>1. /\ task' \in [Pages -> [Tasks -> Coroutine]]
            /\ \A q \in Pages : q # p => task'[q] = task[q]
            /\ \A t \in Waiting(p) \cup {Reauth} : task'[p][t].at = "failed"
            /\ \A t \in Tasks \ (Waiting(p) \cup {Reauth}) : task'[p][t] = task[p][t]
        BY <1>1, <1>4, <1>5, <2>1, TasksAre
      <3>2. Moves(p, {m}, {}, tok)
        BY <1>1, <1>4, <2>1, <3>1 DEF Moves, p
      <3> QED BY <1>1, <1>4, <2>1, <3>1, <3>2
    <2>2. CASE /\ wire' = (wire \ {m}) \cup {Sends(p, t, tok) : t \in Waiting(p)}
               /\ task' = [task EXCEPT ![p] = [t \in Tasks |->
                     IF t = Reauth THEN [task[p][t] EXCEPT !.at = "ok"]
                     ELSE IF t \in Waiting(p) THEN Again ELSE task[p][t]]]
      <3>1. /\ task' \in [Pages -> [Tasks -> Coroutine]]
            /\ \A q \in Pages : q # p => task'[q] = task[q]
            /\ task'[p][Reauth].at = "ok"
            /\ \A t \in Waiting(p) : task'[p][t].at = "sent"
            /\ \A t \in Tasks \ (Waiting(p) \cup {Reauth}) : task'[p][t] = task[p][t]
        BY <1>1, <1>4, <1>5, <2>2, TasksAre, CoroutineTyped
      <3>2. Moves(p, {m}, Waiting(p), tok)
        <4>1. \A t \in Tasks : task'[p][t].at = "sent" <=>
                 t \in Waiting(p) \/ (task[p][t].at = "sent" /\ t # Reauth)
          BY <1>4, <3>1, TasksAre
        <4>2. m \in wire /\ m.page = p
          BY DEF p
        <4> QED BY <1>1, <1>4, <2>2, <3>1, <4>1, <4>2 DEF Moves
      <3>3. \A n \in wire' : n \in wire \/ n.at = "sent"
        BY <2>2 DEF Sends
      <3>4. \A t \in Tasks : /\ task'[p][t].at # "waiting"
                             /\ (task'[p][t].at # "idle") <=> (task[p][t].at # "idle")
        BY <1>1, <1>4, <3>1
      <3>5. Waiting(p) \in SUBSET Waiting(p)
        OBVIOUS
      <3> QED BY <3>2, <3>3, <3>4, <3>5
    <2> QED BY <1>3, <2>1, <2>2
  <1>7. PICK T \in SUBSET Waiting(p) :
            /\ Moves(p, {m}, T, tok) /\ \A n \in wire' : n \in wire \/ n.at = "sent"
            /\ \A t \in Tasks : /\ task'[p][t].at # "waiting"
                                /\ (task'[p][t].at # "idle") <=> (task[p][t].at # "idle")
    BY <1>6
  <1>8. T \in SUBSET Tasks
    BY <1>4
  <1>9. WireSound' /\ OneAwaited' /\ wire' \subseteq Request
    BY <1>1, <1>2, <1>7, <1>8, MovesAsked DEF server
  <1>10. TypeOK'
    BY <1>1, <1>2, <1>7, <1>9, LimiterStays DEF TypeOK, server, Moves
  <1>11. ReauthAwaited'
    BY <1>7 DEF ReauthAwaited, Moves
  <1>12. \A q \in Pages : Started(q)' = Started(q)
    BY <1>7, TasksAre DEF Started, Moves
  <1>13. InOrder'
    BY <1>1, <1>2, <1>12, OrderKept DEF TypeOK
  <1> QED BY <1>2, <1>7, <1>9, <1>10, <1>11, <1>13, PageStep

\* A page is loaded: what it had asked for before is awaited no more.
LEMMA StepLoad == ASSUME IInv, NEW p \in Pages, Load(p) PROVE IInv'
  <1> USE DEF IInv
  <1> DEFINE b == [Sends(p, Boot, NoToken) EXCEPT !.load = loads[p] + 1]
  <1>1. /\ loads' = [loads EXCEPT ![p] = @ + 1]
        /\ screen' = [screen EXCEPT ![p] = "loading"]
        /\ token' = [token EXCEPT ![p] = NoToken] /\ shown' = [shown EXCEPT ![p] = NoRun]
        /\ task' = [task EXCEPT ![p] = [t \in Tasks |-> IF t = Boot THEN First ELSE Idle]]
        /\ wire' = {m \in wire : m.page = p => m.task[1] # "get" /\ m.at # "answered"} \cup {b}
        /\ UNCHANGED <<limiterVars, now, server, begun, faults>> /\ refused' \subseteq Pages
    BY DEF Load, TypeOK
  <1>2. \/ loads[p] = 0 /\ \E ahead \in 0 .. Skew + 1 : issued' = [issued EXCEPT ![p] = now + ahead]
        \/ loads[p] # 0 /\ issued' = issued
    BY DEF Load
  <1>3. loads \in [Pages -> Nat] /\ now \in Nat /\ Len(sessions) \in Nat
    BY SessionsAre DEF TypeOK, LimiterTypeOK
  <1>4. /\ loads' \in [Pages -> Nat] /\ loads'[p] = loads[p] + 1 /\ loads'[p] >= 1
        /\ \A q \in Pages : q # p => loads'[q] = loads[q]
    BY <1>1, <1>3, SMTT(30)
  <1>5. /\ b \in Request /\ b.page = p /\ b.task = Boot /\ b.load = loads[p] + 1
        /\ b.token = NoToken /\ b.got = NoToken /\ b.at = "sent"
    <2>1. Boot \in Tasks /\ loads[p] + 1 \in Nat
      BY <1>3, TasksAre
    <2> QED BY <2>1 DEF Sends, Request, Answers, NoToken
  <1> HIDE DEF b
  <1>6. /\ task' \in [Pages -> [Tasks -> Coroutine]]
        /\ task'[p][Boot].at = "sent" /\ \A t \in Tasks : t # Boot => task'[p][t].at = "idle"
        /\ \A q \in Pages : q # p => task'[q] = task[q]
    BY <1>1, TasksAre, CoroutineTyped DEF TypeOK
  <1>7. ASSUME NEW m \in wire, m \in wire'
        PROVE  /\ m.page = p => m.at # "answered" \/ m = b
               /\ m.page \in Pages /\ m.load <= loads[m.page] /\ loads[m.page] >= 1
               /\ m.load \in Nat
    BY <1>1, <1>7, RequestFields DEF TypeOK, WireSound
  <1>8. \A m \in wire' : m \in wire \/ m = b
    BY <1>1
  <1>9. WireSound'
    <2>1. ASSUME NEW m \in wire, m \in wire'
          PROVE  /\ loads'[m.page] >= 1 /\ m.load <= loads'[m.page]
                 /\ m.token <= Len(sessions') /\ m.got <= Len(sessions')
                 /\ m.at = "answered" => m.load = loads'[m.page]
      <3>1. m.token <= Len(sessions') /\ m.got <= Len(sessions')
        BY <1>1, <2>1 DEF WireSound, server
      <3>2. loads'[m.page] >= 1 /\ m.load <= loads'[m.page]
        <4>1. CASE m.page # p
          BY <1>4, <1>7, <2>1, <4>1
        <4>2. CASE m.page = p
          BY <1>3, <1>4, <1>7, <2>1, <4>2, SMT
        <4> QED BY <4>1, <4>2
      <3>3. m.at = "answered" => m.load = loads'[m.page]
        BY <1>4, <1>5, <1>7, <2>1 DEF WireSound, Awaited
      <3> QED BY <3>1, <3>2, <3>3
    <2>2. /\ loads'[b.page] >= 1 /\ b.load <= loads'[b.page]
          /\ b.token <= Len(sessions') /\ b.got <= Len(sessions') /\ b.at # "answered"
      BY <1>1, <1>3, <1>4, <1>5, SMT DEF NoToken, server
    <2> QED BY <1>8, <2>1, <2>2 DEF WireSound, Awaited
  <1>10. ASSUME NEW q \in Pages, NEW t \in Tasks
         PROVE  IF task'[q][t].at = "sent" THEN \E m \in wire' : Asked(q, t)' = {m}
                                           ELSE Asked(q, t)' = {}
    <2>1. CASE q # p
      <3>1. Asked(q, t)' = Asked(q, t)
        BY <1>1, <1>4, <1>5, <2>1 DEF Asked, Awaited
      <3>2. Asked(q, t) \subseteq wire'
        BY <3>1 DEF Asked
      <3> QED BY <1>6, <2>1, <3>1, <3>2 DEF OneAwaited
    <2>2. CASE q = p
      <3>1. \A m \in wire' : m.page = p /\ m.load = loads'[p] => m = b
        BY <1>3, <1>4, <1>7, <1>8, SMT
      <3>2. b \in wire' /\ b.load = loads'[p]
        BY <1>1, <1>4, <1>5
      <3>3. CASE t = Boot
        BY <1>5, <1>6, <2>2, <3>1, <3>2, <3>3 DEF Asked, Awaited
      <3>4. CASE t # Boot
        BY <1>5, <1>6, <2>2, <3>1, <3>4 DEF Asked, Awaited
      <3> QED BY <3>3, <3>4
    <2> QED BY <2>1, <2>2
  <1>11. OneAwaited'
    BY <1>10 DEF OneAwaited
  <1>12. ReauthAwaited'
    BY <1>6, TasksAre DEF ReauthAwaited
  <1>13. InOrder'
    <2>1. Started(p)' = 1 .. 0 /\ shown'[p] <= 0 /\ NoRun = 0
      <3>1. Started(p)' = {}
        BY <1>6, TasksAre DEF Started
      <3>2. shown'[p] = 0
        BY <1>1 DEF TypeOK, NoRun
      <3> QED BY <3>1, <3>2, SMT DEF NoRun
    <2>2. \A q \in Pages : q # p => Started(q)' = Started(q)
      BY <1>6 DEF Started
    <2>3. \A q \in Pages : q # p => shown'[q] = shown[q] /\ screen'[q] = screen[q]
      BY <1>1 DEF TypeOK
    <2> QED BY <1>4, <2>1, <2>2, <2>3 DEF InOrder
  <1>14. TypeOK'
    <2>1. issued' \in [Pages -> Nat]
      <3>1. \A ahead \in 0 .. Skew + 1 : now + ahead \in Nat
        BY <1>3, SMT
      <3>2. issued \in [Pages -> Nat]
        BY DEF TypeOK
      <3>3. ASSUME NEW ahead \in 0 .. Skew + 1, issued' = [issued EXCEPT ![p] = now + ahead]
            PROVE  issued' \in [Pages -> Nat]
        BY <3>1, <3>2, <3>3
      <3> QED BY <1>2, <3>2, <3>3
    <2>2. token' \in [Pages -> 0 .. Len(sessions')]
      BY <1>1, <1>3, SMT DEF TypeOK, NoToken, server
    <2>3. wire' \subseteq Request
      BY <1>1, <1>5 DEF TypeOK
    <2> QED BY <1>1, <1>4, <1>6, <2>1, <2>2, <2>3, LimiterStays DEF TypeOK, server, NoRun
  <1>15. now' = now /\ now' \in Nat /\ now' >= now
    BY <1>1, <1>3, SMT
  <1>16. Exclusive' /\ Remembered'
    <2>1. \A m \in wire' : InExchange(m) => m \in wire
      BY <1>5, <1>8 DEF InExchange
    <2>2. \A q \in Pages : loads[q] >= 1 => issued'[q] = issued[q] /\ loads'[q] >= 1
      <3>1. issued \in [Pages -> Nat] /\ (loads[p] >= 1 => issued' = issued)
        BY <1>2, <1>3, SMT DEF TypeOK
      <3>2. \A q \in Pages : q # p => issued'[q] = issued[q]
        BY <1>2, <3>1
      <3> QED BY <1>4, <3>1, <3>2
    <2> QED BY <1>1, <1>15, <2>1, <2>2, ExchangeKept DEF server
  <1>17. PinKept'
    BY <1>1, <1>15, PinStays DEF server
  <1> QED BY <1>1, <1>9, <1>11, <1>12, <1>13, <1>14, <1>16, <1>17, LimiterStays

----------------------------------------------------------------------------
(* The theorems *)

\* The initial state satisfies the inductive invariant: no page is open.
LEMMA InitIInv == Init => IInv
  <1> SUFFICES ASSUME Init PROVE IInv
    OBVIOUS
  <1> USE DEF Init, LimiterInit
  <1>1. LimiterTypeOK /\ PassedCounted
    <2>1. NeverHit \in [window : Windows, hits : 0 .. Limit + 1] /\ 0 \in 0 .. Limit + 1
          /\ 0 \in 0 .. MaxTime /\ 0 <= Limit
      BY SMT DEF NeverHit, Windows
    <2> QED BY <2>1 DEF LimiterTypeOK, PassedCounted
  <1>2. TypeOK
    <2>1. sessions \in Seq([page : Pages, until : Nat, revoked : BOOLEAN]) /\ Len(sessions) = 0
      OBVIOUS
    <2>2. token \in [Pages -> 0 .. Len(sessions)]
      BY <2>1 DEF NoToken
    <2>3. faults \in 0 .. MaxFaults /\ begun \in 0 .. MaxBegun
      BY SMT
    <2> QED BY <1>1, <2>1, <2>2, <2>3, CoroutineTyped DEF TypeOK, NoToken
  <1>3. WireSound /\ OneAwaited /\ ReauthAwaited
    BY CoroutineTyped, TasksAre DEF WireSound, OneAwaited, Asked, ReauthAwaited
  <1>4. InOrder
    <2>1. \A p \in Pages : Started(p) = 1 .. 0 /\ shown[p] <= 0
      <3>1. \A p \in Pages : Started(p) = {}
        BY CoroutineTyped, TasksAre DEF Started
      <3>2. 1 .. 0 = {} /\ 0 <= 0
        BY SMT
      <3> QED BY <3>1, <3>2 DEF NoRun
    <2> QED BY <2>1 DEF InOrder, NoRun
  <1>5. DOMAIN sessions = {} /\ Len(sessions) = 0
    OBVIOUS
  <1>6. Exclusive /\ Remembered
    BY <1>5 DEF Exclusive, OneSessionPerInitData, Remembered, UsedUp
  <1>7. PinKept
    BY <1>5, SMT DEF PinKept, PinChangeEndsOthers
  <1> QED BY <1>1, <1>2, <1>3, <1>4, <1>6, <1>7 DEF IInv

\* Every step keeps the inductive invariant.
LEMMA Inductive == IInv /\ [Next]_vars => IInv'
  <1> SUFFICES ASSUME IInv, [Next]_vars PROVE IInv'
    OBVIOUS
  <1>1. CASE UNCHANGED vars
    <2>1. now \in Nat /\ active \in BOOLEAN /\ faults \in 0 .. MaxFaults
      BY DEF IInv, TypeOK, LimiterTypeOK
    <2>2. now' = now /\ now' \in Nat /\ now' >= now
      BY <1>1, <2>1, SMT DEF vars
    <2> QED BY <1>1, <2>1, <2>2, Around, LimiterStays DEF vars, server
  <1>2. ASSUME NEW m \in wire, Serve(m) \/ Receive(m) PROVE IInv'
    BY <1>2, StepServe, StepReceiveCall, StepReceiveBoot, StepAwaitReauth, StepReceiveReauth
       DEF Receive
  <1>3. CASE CleanupExpired \/ SetUserActive \/ Tick
    BY <1>3, StepCleanup, StepFaults, StepTick
  <1>4. ASSUME NEW p \in Pages, Load(p) \/ RetryBoot(p) \/ BeginGet(p) \/ BeginPin(p)
        PROVE  IInv'
    BY <1>4, StepLoad, StepRetryBoot, StepBeginGet, StepBeginPin
  <1>5. ASSUME NEW m \in wire, LimitByFallback(m) \/ Lose(m) PROVE IInv'
    BY <1>5, StepLimitByFallback, StepLose
  <1>6. ASSUME NEW i \in Instances, RestartInstance(i) PROVE IInv'
    BY <1>6, StepFaults
  <1> QED BY <1>1, <1>2, <1>3, <1>4, <1>5, <1>6 DEF Next

\* Every reachable state satisfies the inductive invariant.
LEMMA Invariant == Spec => []IInv
  BY InitIInv, Inductive, PTL DEF Spec

\* Every variable keeps its type; a page's token is NoToken or one of a session that
\* exists.
THEOREM TypeCorrect == Spec => []TypeOK
  <1>1. IInv => TypeOK
    BY DEF IInv
  <1> QED BY <1>1, Invariant, PTL

\* However many processes count, forget or lose the database, the shared counter lets no
\* more than the limit pass in any window.
THEOREM LimitKept == Spec => []LimitHolds
  <1>1. IInv => LimitHolds
    BY DEF IInv, PassedCounted, LimitHolds
  <1> QED BY <1>1, Invariant, PTL

\* One initData payload mints one session at most, whatever is retried, reloaded, lost or
\* cleaned up, for any lifetimes with MaxAge + Skew <= ReplayTtl.
THEOREM OneSession == Spec => []OneSessionPerInitData
  <1>1. IInv => OneSessionPerInitData
    BY DEF IInv, Exclusive
  <1> QED BY <1>1, Invariant, PTL

\* Setting the PIN ends every other session that was open then, for good.
THEOREM PinEndsOthers == Spec => []PinChangeEndsOthers
  <1>1. IInv => PinChangeEndsOthers
    BY DEF IInv, PinKept
  <1> QED BY <1>1, Invariant, PTL

\* The re-authentications that await themselves are those answered with a 401.
Jams == \A p \in Pages : p \in refused <=> task[p][Reauth].at = "waiting"

\* A coroutine settles as told, and no other moves.
LEMMA SettledAt ==
    ASSUME task \in [Pages -> [Tasks -> Coroutine]], NEW p \in Pages, NEW t \in Tasks, NEW end
    PROVE  \A q \in Pages, u \in Tasks :
              Settled(task, p, t, end)[q][u].at = IF q = p /\ u = t THEN end ELSE task[q][u].at
  BY CoroutineTyped DEF Settled

\* Only a page that sends, receives or is loaded again moves its re-authentication, and
\* only a 401 to the re-authentication itself makes it wait.
LEMMA JamsKept == ASSUME IInv, Jams, [Next]_vars PROVE Jams'
  <1>0. /\ task \in [Pages -> [Tasks -> Coroutine]]
        /\ \A m \in wire : m.page \in Pages /\ m.task \in Tasks
    BY RequestFields DEF IInv, TypeOK
  <1>1. ASSUME UNCHANGED <<task, refused>> PROVE Jams'
    BY <1>1 DEF Jams
  <1>2. ASSUME NEW m \in wire, ReceiveCall(m) \/ ReceiveBoot(m) PROVE Jams'
    <2>1. /\ m.task # Reauth /\ UNCHANGED refused
          /\ \E end : task' = Settled(task, m.page, m.task, end)
      BY <1>2, TasksAre DEF ReceiveCall, ReceiveBoot, Exchanges
    <2> QED BY <1>0, <2>1, SettledAt, TasksAre DEF Jams
  <1>3. ASSUME NEW m \in wire, AwaitReauth(m) PROVE Jams'
    <2> DEFINE p == m.page
               w == [task EXCEPT ![p][m.task].at = "waiting"]
    <2>1. p \in Pages /\ m.task \in Tasks /\ task[p][m.task].at = "sent" /\ Reauth \in Tasks
      BY <1>0, <1>3, MineAwaited, TasksAre DEF AwaitReauth
    <2>2. /\ refused' = IF m.task = Reauth THEN refused \cup {p} ELSE refused
          /\ \/ task[p][Reauth].at \in InFlight /\ task' = w
             \/ task[p][Reauth].at \notin InFlight /\ task' = [w EXCEPT ![p][Reauth] = First]
      BY <1>3 DEF AwaitReauth
    <2>3. \A q \in Pages : w[q][Reauth].at = IF q = p /\ m.task = Reauth THEN "waiting"
                                             ELSE task[q][Reauth].at
      BY <1>0, <2>1, CoroutineTyped
    <2>4. w \in [Pages -> [Tasks -> Coroutine]]
      BY <1>0, <2>1 DEF Coroutine
    <2> HIDE DEF w
    <2>5. CASE task' = w
      BY <2>2, <2>3, <2>5 DEF Jams
    <2>6. CASE task[p][Reauth].at \notin InFlight /\ task' = [w EXCEPT ![p][Reauth] = First]
      <3>1. m.task # Reauth /\ task[p][Reauth].at # "waiting"
        BY <2>1, <2>6 DEF InFlight
      <3>2. \A q \in Pages : task'[q][Reauth].at = IF q = p THEN "sent" ELSE w[q][Reauth].at
        BY <2>1, <2>4, <2>6 DEF First
      <3> QED BY <2>2, <2>3, <3>1, <3>2 DEF Jams
    <2> QED BY <2>2, <2>5, <2>6
  <1>4. ASSUME NEW m \in wire, ReceiveReauth(m) PROVE Jams'
    <2>1. m.page \in Pages /\ m.task = Reauth /\ task[m.page][Reauth].at = "sent" /\ Reauth \in Tasks
      BY <1>0, <1>4, MineAwaited, TasksAre DEF ReceiveReauth
    <2>2. /\ UNCHANGED refused
          /\ \E f : task' = [task EXCEPT ![m.page] = f] /\ f[Reauth].at \in {"ok", "failed"}
      <3> DEFINE p == m.page
                 bad  == [t \in Tasks |-> IF t \in Waiting(p) \cup {Reauth}
                                         THEN [task[p][t] EXCEPT !.at = "failed"] ELSE task[p][t]]
                 good == [t \in Tasks |-> IF t = Reauth THEN [task[p][t] EXCEPT !.at = "ok"]
                                         ELSE IF t \in Waiting(p) THEN Again ELSE task[p][t]]
      <3>1. /\ UNCHANGED refused
            /\ task' = [task EXCEPT ![p] = bad] \/ task' = [task EXCEPT ![p] = good]
        BY <1>0, <1>4, <2>1 DEF ReceiveReauth
      <3>2. task[p][Reauth] \in Coroutine
        BY <1>0, <2>1
      <3>3. bad[Reauth].at = "failed" /\ good[Reauth].at = "ok"
        BY <2>1, <3>2 DEF Coroutine
      <3> HIDE DEF bad, good
      <3> QED BY <3>1, <3>3
    <2> QED BY <1>0, <2>1, <2>2 DEF Jams
  <1>5. ASSUME NEW p \in Pages, Load(p) PROVE Jams'
    <2>1. /\ refused' = refused \ {p} /\ Reauth \in Tasks /\ Reauth # Boot
          /\ task' = [task EXCEPT ![p] = [t \in Tasks |-> IF t = Boot THEN First ELSE Idle]]
      BY <1>5, TasksAre DEF Load
    <2>2. \A q \in Pages : task'[q][Reauth] = IF q = p THEN Idle ELSE task[q][Reauth]
      BY <1>0, <2>1
    <2> QED BY <2>1, <2>2 DEF Jams, Idle
  <1>6. ASSUME NEW p \in Pages, RetryBoot(p) \/ BeginGet(p) \/ BeginPin(p) PROVE Jams'
    <2>1. UNCHANGED refused /\ \E t \in Tasks \ {Reauth} : task' = [task EXCEPT ![p][t] = First]
      BY <1>6, TasksAre, TaskOfGet DEF RetryBoot, BeginGet, BeginPin, Send
    <2>2. \A q \in Pages : task'[q][Reauth] = task[q][Reauth]
      BY <1>0, <2>1, TasksAre
    <2> QED BY <2>1, <2>2 DEF Jams
  <1>7. ASSUME NEW m \in wire, Serve(m) PROVE UNCHANGED <<task, refused>>
    BY <1>7 DEF Serve, LimitExchange, RefuseExchange, ClaimExchange, UpsertUser, CreateSession,
                RefuseCall, AnswerGet, ResolvePin, CheckPin, StorePin, client
  <1>8. ASSUME NEW m \in wire, LimitByFallback(m) \/ Lose(m) PROVE UNCHANGED <<task, refused>>
    BY <1>8 DEF LimitByFallback, Lose, client
  <1>9. ASSUME \/ CleanupExpired \/ SetUserActive \/ Tick
               \/ \E i \in Instances : RestartInstance(i)
               \/ UNCHANGED vars
        PROVE  UNCHANGED <<task, refused>>
    BY <1>9 DEF CleanupExpired, SetUserActive, Tick, RestartInstance, vars, client
  <1> QED BY <1>1, <1>2, <1>3, <1>4, <1>5, <1>6, <1>7, <1>8, <1>9 DEF Next, Receive

\* A coroutine that has asked has one request that can answer it, and one that waits for
\* the re-authentication has its request to wait for, unless that was answered with a 401:
\* then, and only then, it waits for a promise that waits for itself.
THEOREM NoneForgotten == Spec => []NobodyForgotten
  <1>1. ASSUME IInv, NEW p \in Pages, NEW t \in Tasks, task[p][t].at = "sent"
        PROVE  Cardinality({m \in wire : m.page = p /\ m.task = t /\ Awaited(m)}) = 1
    <2>1. PICK m : Asked(p, t) = {m}
      BY <1>1 DEF IInv, OneAwaited
    <2>2. Cardinality({m}) = 1
      BY FS_Singleton
    <2> QED BY <2>1, <2>2 DEF Asked
  <1>2. IInv /\ Jams => NobodyForgotten
    BY <1>1 DEF IInv, ReauthAwaited, Jams, InFlight, NobodyForgotten
  <1>3. Init => Jams
    BY TasksAre DEF Init, Jams, Idle
  <1>4. IInv /\ Jams /\ [Next]_vars => Jams'
    BY JamsKept
  <1> QED BY <1>2, <1>3, <1>4, Invariant, PTL DEF Spec

\* Until a page is loaded again, what its hook shows is never of an older run than before.
ShowsNewer == \A p \in Pages : loads'[p] = loads[p] => shown'[p] >= shown[p]

\* Every step keeps to that: only the latest run is shown, and none shown is later.
LEMMA NextShows == IInv /\ [Next]_vars => [ShowsNewer]_vars
  <1> SUFFICES ASSUME IInv, Next PROVE ShowsNewer
    OBVIOUS
  <1>1. ASSUME NEW p \in Pages
        PROVE  shown[p] \in Nat /\ loads[p] \in Nat /\ shown[p] <= Latest(p) /\ Latest(p) \in Nat
    BY ShownTyped, LatestRun DEF IInv, TypeOK
  <1>2. CASE UNCHANGED shown
    BY <1>1, <1>2, SMT DEF ShowsNewer
  <1>3. ASSUME NEW m \in wire, ReceiveCall(m) PROVE ShowsNewer
    <2>1. m.page \in Pages /\ shown \in [Pages -> Gets \cup {NoRun}]
      BY <1>3, MineAwaited DEF ReceiveCall, IInv, TypeOK
    <2>2. \A q \in Pages : shown'[q] = shown[q] \/ shown'[q] = Latest(q)
      BY <1>3, <2>1 DEF ReceiveCall, Shown
    <2> QED BY <1>1, <2>2, SMT DEF ShowsNewer
  <1>4. ASSUME NEW p \in Pages, Load(p) PROVE ShowsNewer
    <2>1. /\ loads' = [loads EXCEPT ![p] = @ + 1] /\ shown' = [shown EXCEPT ![p] = NoRun]
          /\ loads \in [Pages -> Nat] /\ shown \in [Pages -> Gets \cup {NoRun}]
      BY <1>4 DEF Load, IInv, TypeOK
    <2>2. loads'[p] # loads[p] /\ \A q \in Pages : q # p => shown'[q] = shown[q]
      BY <2>1, SMT
    <2> QED BY <1>1, <2>2, SMT DEF ShowsNewer
  <1>5. ASSUME NEW m \in wire, Serve(m) \/ ReceiveBoot(m) \/ AwaitReauth(m) \/ ReceiveReauth(m)
        PROVE  UNCHANGED shown
    BY <1>5 DEF Serve, LimitExchange, RefuseExchange, ClaimExchange, UpsertUser, CreateSession,
                RefuseCall, AnswerGet, ResolvePin, CheckPin, StorePin, ReceiveBoot, AwaitReauth,
                ReceiveReauth, client
  <1>6. ASSUME NEW m \in wire, LimitByFallback(m) \/ Lose(m) PROVE UNCHANGED shown
    BY <1>6 DEF LimitByFallback, Lose, client
  <1>7. CASE CleanupExpired \/ SetUserActive \/ Tick \/ \E i \in Instances : RestartInstance(i)
    BY <1>2, <1>7 DEF CleanupExpired, SetUserActive, Tick, RestartInstance, client
  <1>8. ASSUME NEW p \in Pages, RetryBoot(p) \/ BeginGet(p) \/ BeginPin(p) PROVE UNCHANGED shown
    BY <1>8 DEF RetryBoot, BeginGet, BeginPin
  <1> QED BY <1>2, <1>3, <1>4, <1>5, <1>6, <1>7, <1>8 DEF Next, Receive

\* A slow response never overwrites a newer one on the screen.
THEOREM ShownInOrder == Spec => NewestShown
  BY Invariant, NextShows, PTL DEF Spec, NewestShown, ShowsNewer

-----------------------------------------------------------------------------
(* Steps: what is true of each, and that a function goes through them. *)

\* A set of numbers has a least one.
LEMMA LeastNumber ==
    ASSUME NEW S, S \subseteq Nat, S # {}
    PROVE  \E i \in S : \A j \in S : i <= j
<1>1. PICK i \in S : \A j \in S : <<j, i>> \notin OpToRel(<, Nat)
    BY WFMin, NatLessThanWellFounded
<1>2. ASSUME NEW j \in S PROVE i <= j
    <2>1. <<j, i>> \notin {ss \in Nat \X Nat : ss[1] < ss[2]}
        BY <1>1 DEF OpToRel
    <2>2. i \in Nat /\ j \in Nat
        OBVIOUS
    <2> QED BY <2>1, <2>2
<1> QED BY <1>2

\* What is true at first and stays true step by step is true of every step.
LEMMA StepByStep ==
    ASSUME NEW n \in Nat, NEW Good, 0 \in Good, \A i \in 1..n : i - 1 \in Good => i \in Good
    PROVE  0..n \subseteq Good
<1> DEFINE Bad == {i \in 0..n : i \notin Good}
<1> SUFFICES ASSUME Bad # {} PROVE FALSE
  OBVIOUS
<1>1. PICK i \in Bad : \A j \in Bad : i <= j
  <2>1. Bad \subseteq Nat
    OBVIOUS
  <2> HIDE DEF Bad
  <2> QED  BY <2>1, LeastNumber
<1>2. i \in 0..n /\ i # 0 /\ i \notin Good
  BY <1>1
<1>3. i - 1 \in 0..n /\ i \in 1..n /\ i - 1 \notin Bad
  BY <1>1, <1>2
<1> QED  BY <1>2, <1>3

\* What each step makes of what the last one left, within a set it does not leave.
Recurs(f, n, base, next) ==
    f = [i \in 0..n |-> IF i = 0 THEN base ELSE next[<<f[i - 1], i>>]]

LEMMA StepsExist ==
    ASSUME NEW S, NEW base \in S, NEW n \in Nat, NEW next \in [S \X (1..n) -> S]
    PROVE  \E f \in [0..n -> S] : Recurs(f, n, base, next)
<1> DEFINE Starts(k) == \E f \in [0..k -> S] : Recurs(f, k, base, next)
           Good == {k \in 0..n : Starts(k)}
<1>1. 0 \in Good
  <2> DEFINE f == [i \in 0..0 |-> base]
  <2>1. f \in [0..0 -> S] /\ f = [i \in 0..0 |-> IF i = 0 THEN base ELSE next[<<f[i - 1], i>>]]
    OBVIOUS
  <2>2. Starts(0)
    BY <2>1 DEF Recurs
  <2> QED  BY <2>2
<1>2. ASSUME NEW k \in 1..n, k - 1 \in Good PROVE k \in Good
  <2>1. PICK g \in [0..(k - 1) -> S] : Recurs(g, k - 1, base, next)
    BY <1>2
  <2> DEFINE last == next[<<g[k - 1], k>>]
             f == [i \in 0..k |-> IF i = k THEN last ELSE g[i]]
  <2>2. last \in S
    <3>1. g[k - 1] \in S
      OBVIOUS
    <3>2. <<g[k - 1], k>> \in S \X (1..n)
      BY <3>1
    <3> QED  BY <3>2
  <2>3. \A i \in 0..(k - 1) : i \in 0..k /\ i # k
    OBVIOUS
  <2>4. \A i \in 0..(k - 1) : g[i] = IF i = 0 THEN base ELSE next[<<g[i - 1], i>>]
    BY <2>1 DEF Recurs
  <2> HIDE DEF last
  <2>5. f \in [0..k -> S] /\ f[k] = last /\ \A i \in 0..(k - 1) : f[i] = g[i]
    BY <2>2, <2>3
  <2>6. ASSUME NEW i \in 0..k PROVE f[i] = IF i = 0 THEN base ELSE next[<<f[i - 1], i>>]
    <3>1. i # 0 => i - 1 \in 0..(k - 1)
      OBVIOUS
    <3>2. i # 0 => f[i - 1] = g[i - 1]
      BY <2>5, <3>1
    <3>3. i = k \/ i \in 0..(k - 1)
      OBVIOUS
    <3> HIDE DEF f
    <3>4. CASE i = k
      <4>1. i # 0 /\ i - 1 = k - 1 /\ f[i] = last
        BY <2>5, <3>4
      <4>2. f[i - 1] = g[k - 1]
        BY <3>2, <4>1
      <4>3. last = next[<<f[i - 1], i>>]
        BY <3>4, <4>2 DEF last
      <4> QED  BY <4>1, <4>3
    <3>5. CASE i \in 0..(k - 1)
      BY <2>4, <2>5, <3>2, <3>5
    <3> QED  BY <3>3, <3>4, <3>5
  <2>7. f = [i \in 0..k |-> IF i = 0 THEN base ELSE next[<<f[i - 1], i>>]]
    BY <2>6
  <2> HIDE DEF f
  <2>8. Starts(k)
    BY <2>5, <2>7 DEF Recurs
  <2> QED  BY <2>8
<1> HIDE DEF Good
<1>3. 0..n \subseteq Good
  BY <1>1, <1>2, StepByStep
<1>4. n \in Good
  BY <1>3
<1> QED  BY <1>4 DEF Good

-----------------------------------------------------------------------------
(* The database underneath: whose rows a transaction reads and writes. *)

\* The settings of a connection in the pool: each is unset or the empty string.
Pooled == [user : {A!Unset, ""}, admin : {A!Unset, ""}]

\* One user's or administrator's transaction, or one of the system; users are any values
\* but the empty setting and nobody.
AnyTransaction(tx) ==
    \/ /\ tx.kind = "user" /\ tx.user \notin {A!Unset, "", A!None} /\ tx.admin \in BOOLEAN
    \/ tx.kind \in {"system", "enqueue"} /\ tx.user = A!None /\ tx.admin = FALSE

\* A connection that comes back from the pool has forgotten whose transactions it carried:
\* it starts unset, every transaction leaves it unset or empty, and of such a connection the
\* next one acts as whom it was begun for and nobody else (client.ts, 0001_foundation.sql).
THEOREM ConnectionsForget ==
  /\ A!Fresh \in Pooled
  /\ \A conn \in Pooled : \A tx : AnyTransaction(tx) =>
         A!Returned(conn, tx) \in Pooled /\ A!ActsAsBegunFor(conn, tx)
<1>1. A!Fresh \in Pooled
  BY DEF A!Fresh, A!Unset, Pooled
<1>2. ASSUME NEW conn \in Pooled, NEW tx, AnyTransaction(tx)
      PROVE  A!Returned(conn, tx) \in Pooled /\ A!ActsAsBegunFor(conn, tx)
  <2>1. conn.user \in {A!Unset, ""} /\ conn.admin \in {A!Unset, ""}
    BY <1>2 DEF Pooled
  <2>2. A!Returned(conn, tx) \in Pooled
    BY <1>2, <2>1 DEF A!Returned, A!Begun, A!Unset, Pooled, AnyTransaction, A!None
  <2>3. A!ActsAsBegunFor(conn, tx)
    BY <1>2, <2>1 DEF A!ActsAsBegunFor, A!Begun, A!Identity, A!Unset, Pooled, AnyTransaction, A!None
  <2> QED BY <2>2, <2>3
<1> QED BY <1>1, <1>2

\* The settings a connection goes through, along the transactions it carries.
CarriedAlong(carried, c) ==
    c = [i \in 0..Len(carried) |->
            IF i = 0 THEN A!Fresh ELSE A!Returned(c[i - 1], carried[i])]

LEMMA CarriedAlongExists ==
  ASSUME NEW Txs, \A tx \in Txs : AnyTransaction(tx), NEW carried \in Seq(Txs)
  PROVE  \E c : CarriedAlong(carried, c)
<1> DEFINE n == Len(carried)
           next == [p \in Pooled \X (1..n) |-> A!Returned(p[1], carried[p[2]])]
<1>1. n \in Nat /\ \A i \in 1..n : AnyTransaction(carried[i])
  OBVIOUS
<1>2. \A conn \in Pooled, i \in 1..n :
         next[<<conn, i>>] = A!Returned(conn, carried[i]) /\ next[<<conn, i>>] \in Pooled
  BY <1>1, ConnectionsForget
<1>3. next \in [Pooled \X (1..n) -> Pooled]
  BY <1>2
<1>4. A!Fresh \in Pooled
  BY ConnectionsForget
<1> HIDE DEF n, next, Pooled
<1>5. PICK c \in [0..n -> Pooled] : Recurs(c, n, A!Fresh, next)
  BY <1>1, <1>3, <1>4, StepsExist
<1>6. ASSUME NEW i \in 0..n
      PROVE  c[i] = IF i = 0 THEN A!Fresh ELSE A!Returned(c[i - 1], carried[i])
  <2>1. c[i] = IF i = 0 THEN A!Fresh ELSE next[<<c[i - 1], i>>]
    BY <1>5 DEF Recurs
  <2>2. i # 0 => i \in 1..n /\ i - 1 \in 0..n
    BY <1>1
  <2>3. i # 0 => c[i - 1] \in Pooled
    BY <2>2
  <2> QED  BY <1>2, <2>1, <2>2, <2>3
<1>7. c = [i \in 0..n |-> IF i = 0 THEN A!Fresh ELSE A!Returned(c[i - 1], carried[i])]
  BY <1>5, <1>6 DEF Recurs
<1> QED  BY <1>7 DEF CarriedAlong, n

\* However long a pooled connection was used, and by whomever: the next transaction acts
\* as whom it was begun for and as nobody else.
THEOREM IdentitiesNeverLeak ==
  ASSUME NEW Txs, \A tx \in Txs : AnyTransaction(tx), NEW carried \in Seq(Txs),
         NEW tx, AnyTransaction(tx)
  PROVE  A!IdentityNeverLeaks(carried, tx)
<1> DEFINE n == Len(carried)
           c == CHOOSE d : CarriedAlong(carried, d)
           Good == {i \in 0..n : c[i] \in Pooled}
<1>1. n \in Nat /\ \A i \in 1..n : AnyTransaction(carried[i])
  OBVIOUS
<1>2. CarriedAlong(carried, c)
  BY CarriedAlongExists
<1>3. A!Used(carried) = c[n]
  BY DEF A!Used, CarriedAlong
<1> HIDE DEF c
<1>4. 0 \in Good /\ \A i \in 1..n : i - 1 \in Good => i \in Good
  <2>1. c[0] = A!Fresh
    BY <1>1, <1>2, SMTT(30) DEF CarriedAlong
  <2>2. ASSUME NEW i \in 1..n, c[i - 1] \in Pooled PROVE c[i] \in Pooled
    <3>1. c[i] = A!Returned(c[i - 1], carried[i])
      BY <1>1, <1>2, SMTT(30) DEF CarriedAlong
    <3> QED  BY <1>1, <2>2, <3>1, ConnectionsForget
  <2> QED  BY <1>1, <2>1, <2>2, ConnectionsForget
<1>5. 0..n \subseteq Good
  <2> HIDE DEF Good, n
  <2> QED  BY <1>1, <1>4, StepByStep
<1>6. c[n] \in Pooled
  BY <1>1, <1>5
<1> QED  BY <1>3, <1>6, ConnectionsForget DEF A!IdentityNeverLeaks

\* The tables the row policies cover are not those the application role is kept out of.
LEMMA PlanesApart ==
  ASSUME NEW t \in A!SystemPlane
  PROVE  /\ t \notin A!Quotes \cup A!Counters \cup {"assets", "app_settings", "jobs", "audit_logs"}
         /\ t \in A!AdminRead => /\ t \in A!Owned /\ t \notin {"users", "categories"}
                                /\ t \notin A!OfWallet
BY DEF A!SystemPlane, A!Owned, A!AdminRead, A!Profiles, A!OfWallet, A!Quotes, A!Counters

\* Besides the owner and the system, a policy of these tables admits only who reads a
\* category of the system's, and an administrator, who only reads the financial ones.
LEMMA AdmitsWhom ==
  ASSUME NEW t \in A!SystemPlane, NEW cmd, NEW ctx, NEW row, ~A!IsSystem(ctx), ~A!Own(ctx, row)
  PROVE  A!Admits(t, cmd, ctx, row) =>
            \/ ctx.admin /\ (t \in A!AdminRead => cmd = "select")
            \/ t = "categories" /\ row.system
BY PlanesApart DEF A!Admits, A!OfWallet

\* The application role has every command on the tables the policies cover.
LEMMA CommandsGranted ==
  ASSUME NEW t \in A!SystemPlane, NEW cmd PROVE A!Granted(t, cmd)
BY PlanesApart DEF A!Granted

\* Of anybody's table, and whatever its rows hold: a user reads, changes, removes and makes
\* rows of their own only (0003_rls.sql and later policies).
THEOREM OwnRowsAlone ==
  ASSUME NEW t \in A!SystemPlane, NEW ctx, NEW old, NEW new
  PROVE  A!OwnOnly(t, ctx, old, new)
<1> SUFFICES ASSUME ~A!IsSystem(ctx), ~ctx.admin, ~old.system, old.owner # ctx.user
             PROVE  /\ ~A!Visible(t, "select", ctx, old)
                    /\ A!Updated(t, ctx, old, new) = "nothing"
                    /\ A!Deleted(t, ctx, old) = "nothing"
                    /\ A!Inserted(t, ctx, old, FALSE) # "done"
                    /\ A!Updated(t, ctx, new, old) # "done"
  BY DEF A!OwnOnly
<1>1. \A cmd : ~A!Admits(t, cmd, ctx, old) /\ A!Granted(t, cmd)
  BY AdmitsWhom, CommandsGranted DEF A!Own
<1>2. \A cmd : ~A!Visible(t, cmd, ctx, old)
  BY <1>1 DEF A!Visible
<1>3. A!Updated(t, ctx, old, new) = "nothing" /\ A!Deleted(t, ctx, old) = "nothing"
  BY <1>1, <1>2 DEF A!Updated, A!Deleted
<1>4. A!Inserted(t, ctx, old, FALSE) # "done"
  BY <1>1 DEF A!Inserted
<1>5. A!Updated(t, ctx, new, old) # "done"
  BY <1>1, <1>2 DEF A!Updated
<1> QED BY <1>2, <1>3, <1>4, <1>5

\* An administrator reads everybody's financial rows and writes none of them.
THEOREM AdministratorsInspect ==
  ASSUME NEW t \in A!AdminRead, NEW ctx, ctx.user # A!None, NEW old, NEW new
  PROVE  A!InspectsOnly(t, ctx, old, new)
<1> SUFFICES ASSUME ctx.admin, old.owner # ctx.user
             PROVE  /\ A!Visible(t, "select", ctx, old)
                    /\ A!Updated(t, ctx, old, new) = "nothing"
                    /\ A!Deleted(t, ctx, old) = "nothing"
                    /\ A!Updated(t, ctx, new, old) # "done"
  BY DEF A!InspectsOnly
<1>1. t \in A!SystemPlane /\ t \in A!AdminRead
  BY DEF A!SystemPlane, A!AdminRead
<1>2. \A cmd : A!Granted(t, cmd) /\ (cmd # "select" => ~A!Admits(t, cmd, ctx, old))
  BY <1>1, AdmitsWhom, CommandsGranted, PlanesApart DEF A!Own, A!IsSystem
<1>3. A!Visible(t, "select", ctx, old)
  BY <1>1, <1>2 DEF A!Visible, A!Admits
<1>4. ~A!Visible(t, "update", ctx, old) /\ ~A!Visible(t, "delete", ctx, old)
  BY <1>2 DEF A!Visible
<1>5. A!Updated(t, ctx, old, new) = "nothing" /\ A!Deleted(t, ctx, old) = "nothing"
  BY <1>2, <1>4 DEF A!Updated, A!Deleted
<1>6. A!Updated(t, ctx, new, old) # "done"
  BY <1>2, <1>4 DEF A!Updated
<1> QED BY <1>3, <1>5, <1>6

\* Nobody, the system included, changes or removes an entry of the audit trail.
THEOREM TrailKept ==
  ASSUME NEW ctx, NEW old, NEW new PROVE A!NotRewritten(ctx, old, new)
BY DEF A!NotRewritten, A!Updated, A!Deleted, A!Granted

-----------------------------------------------------------------------------
(* The statements the services run. *)

\* Who a statement runs as, and the row it touches, of a statement as of whom and of whose.
As(as) == [user |-> IF as = "system" THEN A!None ELSE "alice", admin |-> as = "admin"]
RowOf(of) ==
    [owner |-> IF of = "own" THEN "alice" ELSE IF of = "other" THEN "bob" ELSE A!None,
     system |-> FALSE]

LEMMA RanIs ==
    ASSUME NEW t, NEW cmd, NEW as, NEW of
    PROVE  /\ A!Ran(A!Statement(t, "select", as, of)) = "done"
                <=> A!Visible(t, "select", As(as), RowOf(of))
           /\ A!Ran(A!Statement(t, "insert", as, of)) = A!Inserted(t, As(as), RowOf(of), TRUE)
           /\ A!Ran(A!Statement(t, "log", as, of)) = A!Inserted(t, As(as), RowOf(of), FALSE)
           /\ A!Ran(A!Statement(t, "upsert", as, of)) = A!Upserted(t, As(as), RowOf(of), RowOf(of))
           /\ A!Ran(A!Statement(t, "update", as, of)) = A!Updated(t, As(as), RowOf(of), RowOf(of))
           /\ A!Ran(A!Statement(t, "delete", as, of)) = A!Deleted(t, As(as), RowOf(of))
BY DEF A!Ran, A!Statement, As, RowOf

Commands == {"select", "insert", "update", "delete"}

\* The policies admit these commands, of a statement as of whom on whose row.
Open(t, cmds, as, of) ==
    \A cmd \in cmds : A!Granted(t, cmd) /\ A!Admits(t, cmd, As(as), RowOf(of))

\* A statement is served if what it needs is open: an insert that returns its row and an
\* update read it, and an upsert does both.
LEMMA ServedIfOpen ==
    ASSUME NEW t, NEW as, NEW of
    PROVE  /\ Open(t, {"select"}, as, of) => A!Ran(A!Statement(t, "select", as, of)) = "done"
           /\ Open(t, {"insert"}, as, of) => A!Ran(A!Statement(t, "log", as, of)) = "done"
           /\ Open(t, {"select", "insert"}, as, of) =>
                A!Ran(A!Statement(t, "insert", as, of)) = "done"
           /\ Open(t, {"select", "update"}, as, of) =>
                A!Ran(A!Statement(t, "update", as, of)) = "done"
           /\ Open(t, {"select", "insert", "update"}, as, of) =>
                A!Ran(A!Statement(t, "upsert", as, of)) = "done"
           /\ Open(t, {"select", "delete"}, as, of) =>
                A!Ran(A!Statement(t, "delete", as, of)) = "done"
BY RanIs DEF Open, A!Visible, A!Inserted, A!Updated, A!Upserted, A!Deleted

LEMMA SystemOpen ==
    /\ \A t \in A!SystemPlane : \A of : Open(t, Commands, "system", of)
    /\ \A t \in A!Counters : \A of : Open(t, Commands, "system", of)
    /\ \A t \in {"jobs", "app_settings"} : \A of : Open(t, Commands, "system", of)
    /\ \A t \in A!Quotes : \A of : Open(t, {"select", "insert"}, "system", of)
<1>1. A!IsSystem(As("system"))
  BY DEF As, A!IsSystem
<1>2. \A t \in A!SystemPlane \cup A!Counters \cup A!Quotes \cup {"jobs", "app_settings"} :
        \A cmd : A!Granted(t, cmd)
  BY DEF A!Granted, A!SystemPlane, A!Counters, A!Quotes, A!Owned, A!Profiles, A!OfWallet
<1>3. ASSUME NEW t \in A!SystemPlane \cup A!Counters \cup A!Quotes \cup {"jobs", "app_settings"},
             NEW cmd, NEW of, cmd \in {"select", "insert"} \/ t \notin A!Quotes
      PROVE  A!Granted(t, cmd) /\ A!Admits(t, cmd, As("system"), RowOf(of))
  <2>1. t \in A!SystemPlane \cup A!Counters \cup {"jobs", "app_settings"} =>
           A!Admits(t, cmd, As("system"), RowOf(of))
    BY <1>1 DEF A!Admits
  <2>2. t \in A!Quotes /\ cmd \in {"select", "insert"} =>
           A!Admits(t, cmd, As("system"), RowOf(of))
    BY <1>1 DEF A!Admits
  <2> QED  BY <1>2, <1>3, <2>1, <2>2
<1>4. {"select", "insert"} \subseteq Commands
  BY DEF Commands
<1>5. \A t \in A!SystemPlane \cup A!Counters \cup {"jobs", "app_settings"} : t \notin A!Quotes
  BY DEF A!SystemPlane, A!Owned, A!Profiles, A!OfWallet, A!Counters, A!Quotes
<1> QED  BY <1>3, <1>5 DEF Open

LEMMA UserOpen ==
    /\ \A t \in A!Owned \cup A!Profiles : Open(t, Commands, "user", "own")
    /\ Open("audit_logs", {"insert"}, "user", "own") /\ Open("audit_logs", {"insert"}, "admin", "own")
    /\ Open("assets", {"select"}, "user", "none")
<1>1. A!Own(As("user"), RowOf("own")) /\ A!Own(As("admin"), RowOf("own"))
  BY DEF As, RowOf, A!Own, A!None
<1>2. \A t \in A!Owned \cup A!Profiles : \A cmd : A!Granted(t, cmd)
  BY DEF A!Granted, A!Owned, A!Profiles
<1>3. \A t \in A!Owned \cup A!Profiles : \A cmd : A!Admits(t, cmd, As("user"), RowOf("own"))
  BY <1>1 DEF A!Admits
<1>4. A!Granted("audit_logs", "insert") /\ A!Granted("assets", "select")
  BY DEF A!Granted
<1>5. \A as \in {"user", "admin"} : A!Admits("audit_logs", "insert", As(as), RowOf("own"))
  BY <1>1 DEF A!Admits
<1>6. A!Admits("assets", "select", As("user"), RowOf("none"))
  BY DEF A!Admits
<1> QED  BY <1>2, <1>3, <1>4, <1>5, <1>6 DEF Open

LEMMA AdminOpen ==
    /\ Open("users", {"select", "update"}, "admin", "other")
    /\ Open("audit_logs", {"select"}, "admin", "other")
<1>1. As("admin").admin
  BY DEF As
<1>2. \A cmd : A!Granted("users", cmd)
  BY DEF A!Granted
<1>3. A!Granted("audit_logs", "select")
  BY DEF A!Granted
<1> QED  BY <1>1, <1>2, <1>3 DEF Open, A!Admits

LEMMA TablesInPlanes ==
    /\ {"users", "sessions", "user_settings", "notification_preferences", "wallets",
        "notifications"} \subseteq A!SystemPlane
    /\ {"sessions", "wallets", "user_settings"} \subseteq A!Owned \cup A!Profiles
    /\ A!Profiles = {"user_settings", "notification_preferences"}
    /\ A!Counters = {"processed_events", "api_rate_limits"} /\ "exchange_rates" \in A!Quotes
BY DEF A!SystemPlane, A!Owned, A!Profiles, A!Counters, A!Quotes

\* Every statement a service runs is one that the policies let it run.
THEOREM ServicesServed == A!ServicesAreServed
<1> DEFINE Served(t, cmd, as, of) == A!Ran(A!Statement(t, cmd, as, of)) = "done"
<1>1. ASSUME NEW t, NEW of, Open(t, Commands, "system", of)
      PROVE  \A cmd \in {"select", "log", "insert", "update", "upsert", "delete"} :
                Served(t, cmd, "system", of)
  BY <1>1, ServedIfOpen DEF Open, Commands
<1>2. ASSUME NEW t, Open(t, Commands, "user", "own")
      PROVE  \A cmd \in {"select", "log", "insert", "update", "upsert", "delete"} :
                Served(t, cmd, "user", "own")
  BY <1>2, ServedIfOpen DEF Open, Commands
<1>3. \A t \in {"users", "sessions", "user_settings", "notification_preferences", "wallets",
                "notifications", "processed_events", "api_rate_limits", "jobs", "app_settings"} :
         \A of : Open(t, Commands, "system", of)
  BY SystemOpen, TablesInPlanes
<1>4. \A t \in {"sessions", "wallets", "user_settings"} : Open(t, Commands, "user", "own")
  BY UserOpen, TablesInPlanes
<1>5. /\ Served("audit_logs", "log", "user", "own") /\ Served("audit_logs", "log", "admin", "own")
      /\ Served("assets", "select", "user", "none")
  BY UserOpen, ServedIfOpen
<1>6. Served("exchange_rates", "insert", "system", "none")
  BY SystemOpen, TablesInPlanes, ServedIfOpen
<1>7. /\ Served("users", "select", "admin", "other") /\ Served("users", "update", "admin", "other")
      /\ Served("audit_logs", "select", "admin", "other")
  <2>1. Open("users", {"select"}, "admin", "other")
    BY AdminOpen DEF Open
  <2> QED  BY <2>1, AdminOpen, ServedIfOpen
<1> DEFINE Done(s) == A!Ran(s) = "done"
<1>8. \A s \in A!AuthStatements : Done(s)
  <2>1. /\ Done(A!Statement("sessions", "select", "system", "other"))
        /\ Done(A!Statement("users", "select", "system", "other"))
        /\ \A t \in {"processed_events", "users"} \cup A!Profiles :
              Done(A!Statement(t, "upsert", "system", "other"))
        /\ \A cmd \in {"insert", "update"} : Done(A!Statement("sessions", cmd, "user", "own"))
        /\ \A cmd \in {"select", "update"} : Done(A!Statement("user_settings", cmd, "user", "own"))
        /\ Done(A!Statement("audit_logs", "log", "user", "own"))
    BY <1>1, <1>2, <1>3, <1>4, <1>5, TablesInPlanes
  <2> HIDE DEF Done
  <2> QED  BY <2>1 DEF A!AuthStatements
<1>9. \A s \in A!WalletStatements : Done(s)
  <2>1. /\ \A cmd \in {"insert", "select"} : Done(A!Statement("wallets", cmd, "user", "own"))
        /\ Done(A!Statement("audit_logs", "log", "user", "own"))
        /\ Done(A!Statement("jobs", "upsert", "system", "none"))
        /\ Done(A!Statement("assets", "select", "user", "none"))
    BY <1>1, <1>2, <1>3, <1>4, <1>5
  <2> HIDE DEF Done
  <2> QED  BY <2>1 DEF A!WalletStatements
<1>10. \A s \in A!AdminStatements : Done(s)
  <2>1. /\ \A t \in {"users", "audit_logs"} : Done(A!Statement(t, "select", "admin", "other"))
        /\ Done(A!Statement("users", "update", "admin", "other"))
        /\ Done(A!Statement("audit_logs", "log", "admin", "own"))
        /\ \A t \in {"jobs", "app_settings"}, cmd \in {"select", "upsert"} :
              Done(A!Statement(t, cmd, "system", "none"))
        /\ Done(A!Statement("exchange_rates", "insert", "system", "none"))
        /\ \A cmd \in {"select", "update"} : Done(A!Statement("wallets", cmd, "system", "other"))
    BY <1>1, <1>3, <1>5, <1>6, <1>7
  <2> HIDE DEF Done
  <2> QED  BY <2>1 DEF A!AdminStatements
<1>11. \A s \in A!WorkerStatements : Done(s)
  <2>1. /\ \A t \in A!Counters \cup {"jobs", "sessions"} : Done(A!Statement(t, "delete", "system", "other"))
        /\ \A cmd \in {"upsert", "update"} : Done(A!Statement("notifications", cmd, "system", "other"))
        /\ Done(A!Statement("api_rate_limits", "upsert", "system", "none"))
    BY <1>1, <1>3, TablesInPlanes
  <2> HIDE DEF Done
  <2> QED  BY <2>1 DEF A!WorkerStatements
<1> QED  BY <1>8, <1>9, <1>10, <1>11 DEF A!ServicesAreServed

-----------------------------------------------------------------------------
(* The migrations (module Migrations). *)

\* What deployments leave: each version once, and the schema made of the recorded bodies.
Deployed(Bodies) ==
    {db \in [table : Seq(M!Versions \X Bodies), schema : Seq(Bodies)] :
        /\ \A i, j \in DOMAIN db.table : i # j => db.table[i][1] # db.table[j][1]
        /\ db.schema = [i \in DOMAIN db.table |-> db.table[i][2]]}

Runs(Bodies) == [db : Deployed(Bodies), stopped : {"no", "checksum", "died", "conflict"}]

Extends(table, before) ==
    Len(before) <= Len(table) /\ \A i \in 1..Len(before) : table[i] = before[i]

HasRow(table, version, body) == \E i \in DOMAIN table : table[i] = <<version, body>>

\* Of versions that occur once, the recorded body is the one of the row.
LEMMA OneBody ==
    ASSUME NEW Bodies, NEW table \in Seq(M!Versions \X Bodies),
           \A i, j \in DOMAIN table : i # j => table[i][1] # table[j][1],
           NEW version, version \in M!Applied(table)
    PROVE  HasRow(table, version, M!Checksum(table, version))
<1>1. M!Range(table) = {table[i] : i \in DOMAIN table}
  BY DEF M!Range
<1>2. PICK i \in DOMAIN table : table[i][1] = version
  BY <1>1 DEF M!Applied
<1>3. DOMAIN table = 1..Len(table) /\ \A k \in DOMAIN table : table[k] \in M!Versions \X Bodies
  OBVIOUS
<1>4. table[i] = <<version, table[i][2]>>
  BY <1>2, <1>3
<1> DEFINE rows == {r \in M!Range(table) : r[1] = version}
           bodies == {row[2] : row \in rows}
<1>5. ASSUME NEW r \in rows PROVE r = table[i]
  <2>1. PICK k \in DOMAIN table : r = table[k]
    BY <1>1
  <2> QED  BY <1>2, <2>1
<1>6. table[i] \in rows
  BY <1>1, <1>2
<1> HIDE DEF rows
<1>7. bodies = {table[i][2]}
  BY <1>5, <1>6
<1>8. M!Checksum(table, version) = CHOOSE body \in bodies : TRUE
  BY DEF M!Checksum, rows
<1> HIDE DEF bodies
<1>9. M!Checksum(table, version) = table[i][2]
  BY <1>7, <1>8
<1> QED  BY <1>4, <1>9 DEF HasRow

LEMMA RowIsBody ==
    ASSUME NEW Bodies, NEW table \in Seq(M!Versions \X Bodies),
           \A i, j \in DOMAIN table : i # j => table[i][1] # table[j][1],
           NEW version, NEW body, HasRow(table, version, body)
    PROVE  version \in M!Applied(table) /\ M!Checksum(table, version) = body
<1>1. PICK i \in DOMAIN table : table[i] = <<version, body>>
  BY DEF HasRow
<1>2. M!Range(table) = {table[k] : k \in DOMAIN table}
  BY DEF M!Range
<1>3. version \in M!Applied(table)
  <2>1. table[i] \in M!Range(table) /\ table[i][1] = version
    BY <1>1, <1>2
  <2> QED  BY <2>1 DEF M!Applied
<1>4. PICK j \in DOMAIN table : table[j] = <<version, M!Checksum(table, version)>>
  BY <1>3, OneBody DEF HasRow
<1>5. table[i][1] = version /\ table[j][1] = version
  BY <1>1, <1>4
<1>6. i = j
  BY <1>5
<1> QED  BY <1>1, <1>3, <1>4, <1>6

\* A version that is not applied may be recorded after the others.
LEMMA RecordedNext ==
    ASSUME NEW Bodies, NEW db \in Deployed(Bodies), NEW version \in M!Versions,
           version \notin M!Applied(db.table), NEW body \in Bodies
    PROVE  LET next == [table  |-> Append(db.table, <<version, body>>),
                        schema |-> Append(db.schema, body)]
           IN  /\ next \in Deployed(Bodies) /\ Extends(next.table, db.table)
               /\ HasRow(next.table, version, body)
<1> DEFINE R == M!Versions \X Bodies
           t == db.table
           n == Len(t)
           u == Append(t, <<version, body>>)
           s == Append(db.schema, body)
<1>1. /\ t \in Seq(R) /\ db.schema \in Seq(Bodies)
      /\ \A i, j \in DOMAIN t : i # j => t[i][1] # t[j][1]
      /\ db.schema = [i \in DOMAIN t |-> t[i][2]]
  BY DEF Deployed
<1>2. <<version, body>> \in R
  OBVIOUS
<1> HIDE DEF R, t
<1>3. /\ u \in Seq(R) /\ n \in Nat /\ Len(u) = n + 1 /\ DOMAIN u = 1..(n + 1) /\ DOMAIN t = 1..n
      /\ u[n + 1] = <<version, body>> /\ \A i \in 1..n : u[i] = t[i]
  BY <1>1, <1>2
<1>4. /\ s \in Seq(Bodies) /\ DOMAIN db.schema = 1..n /\ Len(db.schema) = n
      /\ DOMAIN s = 1..(n + 1) /\ s[n + 1] = body /\ \A i \in 1..n : s[i] = db.schema[i]
  BY <1>1, <1>3
<1>5. \A i \in 1..n : t[i][1] # version
  <2>1. ASSUME NEW i \in 1..n PROVE t[i][1] \in M!Applied(t)
    BY <1>3 DEF M!Applied, M!Range
  <2> QED  BY <2>1 DEF t
<1> HIDE DEF u, s
<1>6. ASSUME NEW i \in DOMAIN u, NEW j \in DOMAIN u, i # j PROVE u[i][1] # u[j][1]
  <2>1. u[n + 1][1] = version
    BY <1>3
  <2>2. (i \in 1..n \/ i = n + 1) /\ (j \in 1..n \/ j = n + 1)
    BY <1>3
  <2> HIDE DEF n
  <2> QED  BY <1>1, <1>3, <1>5, <1>6, <2>1, <2>2
<1>7. s = [i \in DOMAIN u |-> u[i][2]]
  <2>1. ASSUME NEW i \in 1..(n + 1) PROVE s[i] = u[i][2]
    <3>1. u[n + 1][2] = body
      BY <1>3
    <3>2. i \in 1..n \/ i = n + 1
      BY <1>3
    <3>3. ASSUME i \in 1..n PROVE db.schema[i] = t[i][2]
      BY <1>1, <1>3, <3>3
    <3> HIDE DEF n
    <3> QED  BY <1>3, <1>4, <3>1, <3>2, <3>3
  <2>2. s = [i \in 1..(n + 1) |-> s[i]]
    BY <1>4
  <2> QED  BY <1>3, <2>1, <2>2
<1>8. Extends(u, t) /\ HasRow(u, version, body)
  <2>1. n + 1 \in DOMAIN u
    BY <1>3
  <2> QED  BY <1>3, <2>1, SMTT(30) DEF Extends, HasRow
<1>9. [table |-> u, schema |-> s] \in Deployed(Bodies)
  <2> DEFINE next == [table |-> u, schema |-> s]
             Tables == Seq(R)
             Schemas == Seq(Bodies)
  <2>1. u \in Tables /\ s \in Schemas
    BY <1>3, <1>4
  <2> HIDE DEF Tables, Schemas
  <2>2. next \in [table : Tables, schema : Schemas] /\ next.table = u /\ next.schema = s
    BY <2>1
  <2> HIDE DEF next
  <2>3. next \in Deployed(Bodies)
    BY <1>6, <1>7, <2>2 DEF Deployed, Tables, Schemas, R
  <2> QED  BY <2>3 DEF next
<1> QED  BY <1>8, <1>9 DEF u, s, t


LEMMA ExtendsOn ==
    ASSUME NEW R, NEW a \in Seq(R), NEW b \in Seq(R), NEW c \in Seq(R)
    PROVE  /\ Extends(a, a)
           /\ Extends(b, a) /\ Extends(c, b) => Extends(c, a)
           /\ Extends(b, a) => \A version, body :
                 HasRow(a, version, body) => HasRow(b, version, body)
<1>1. /\ Len(a) \in Nat /\ Len(b) \in Nat /\ Len(c) \in Nat
      /\ DOMAIN a = 1..Len(a) /\ DOMAIN b = 1..Len(b) /\ DOMAIN c = 1..Len(c)
  OBVIOUS
<1>2. ASSUME Extends(b, a) PROVE 1..Len(a) \subseteq 1..Len(b)
  BY <1>1, <1>2 DEF Extends
<1>3. ASSUME Extends(b, a), Extends(c, b) PROVE Extends(c, a)
  BY <1>1, <1>2, <1>3 DEF Extends
<1>4. ASSUME Extends(b, a), NEW version, NEW body, HasRow(a, version, body)
      PROVE  HasRow(b, version, body)
  BY <1>1, <1>2, <1>4 DEF Extends, HasRow
<1>5. Extends(a, a)
  BY <1>1 DEF Extends
<1> QED  BY <1>3, <1>4, <1>5

\* The first rows of a table, as a function.
LEMMA FirstRows ==
    ASSUME NEW R, NEW s \in Seq(R), NEW m \in Nat, m <= Len(s)
    PROVE  SubSeq(s, 1, m) = [i \in 1..m |-> s[i]]
<1>1. Len(s) \in Nat /\ s \in [1..Len(s) -> R]
  OBVIOUS
<1> QED  BY <1>1

\* What a deployment read is the beginning of what is there.
LEMMA ReadIsBeginning ==
    ASSUME NEW Bodies, NEW db \in Deployed(Bodies), NEW n \in Nat
    PROVE  LET seen == M!Read(db.table, n)
           IN  /\ seen \in Seq(M!Versions \X Bodies) /\ Extends(db.table, seen)
               /\ \A i, j \in DOMAIN seen : i # j => seen[i][1] # seen[j][1]
<1> DEFINE R == M!Versions \X Bodies
           t == db.table
           m == IF n < Len(t) THEN n ELSE Len(t)
           seen == M!Read(t, n)
<1>1. t \in Seq(R) /\ \A i, j \in DOMAIN t : i # j => t[i][1] # t[j][1]
  BY DEF Deployed
<1>2. seen = SubSeq(t, 1, m)
  BY DEF M!Read
<1> HIDE DEF R, t, seen
<1>3. /\ Len(t) \in Nat /\ DOMAIN t = 1..Len(t) /\ m \in 0..Len(t)
      /\ \A i \in 1..m : i \in 1..Len(t) /\ t[i] \in R
  BY <1>1
<1> HIDE DEF m
<1>4. seen = [i \in 1..m |-> t[i]]
  BY <1>1, <1>2, <1>3, FirstRows
<1>5. seen \in Seq(R) /\ Len(seen) = m /\ DOMAIN seen = 1..m
  <2>1. seen \in [1..m -> R] /\ m \in Nat
    BY <1>3, <1>4
  <2> QED  BY <2>1
<1>6. Extends(t, seen)
  BY <1>3, <1>4, <1>5 DEF Extends
<1>7. \A i, j \in DOMAIN seen : i # j => seen[i][1] # seen[j][1]
  BY <1>1, <1>3, <1>4, <1>5
<1> QED  BY <1>5, <1>6, <1>7 DEF seen, t, R

\* One file, whatever the deployment read and however far it got.
LEMMA FileMigrates ==
    ASSUME NEW Bodies, NEW db \in Deployed(Bodies), NEW n \in Nat, NEW diesAt,
           NEW run \in Runs(Bodies), Extends(run.db.table, db.table),
           NEW Disk \in SUBSET M!Versions, NEW files \in [Disk -> Bodies], NEW version \in Disk
    PROVE  LET next == M!MigrateFile(run, version, files, M!Read(db.table, n), diesAt)
           IN  /\ next \in Runs(Bodies) /\ Extends(next.db.table, run.db.table)
               /\ next.stopped = "no" =>
                    run.stopped = "no" /\ HasRow(next.db.table, version, files[version])
<1> DEFINE seen == M!Read(db.table, n)
           next == M!MigrateFile(run, version, files, seen, diesAt)
           R == M!Versions \X Bodies
           D == Deployed(Bodies)
           grown == [table  |-> Append(run.db.table, <<version, files[version]>>),
                     schema |-> Append(run.db.schema, files[version])]
<1>1. files[version] \in Bodies /\ version \in M!Versions
  OBVIOUS
<1>2. /\ seen \in Seq(R) /\ Extends(db.table, seen)
      /\ \A i, j \in DOMAIN seen : i # j => seen[i][1] # seen[j][1]
  BY ReadIsBeginning
<1>3. /\ db.table \in Seq(R) /\ run.db \in D /\ run.db.table \in Seq(R)
      /\ run.stopped \in {"no", "checksum", "died", "conflict"} /\ run = [db |-> run.db, stopped |-> run.stopped]
  BY DEF Deployed, Runs
<1>4. \A d \in D, s \in {"no", "checksum", "died", "conflict"} : [db |-> d, stopped |-> s] \in Runs(Bodies)
  <2> HIDE DEF D
  <2> QED  BY DEF Runs, D
<1>5. Extends(run.db.table, run.db.table)
  BY <1>3, ExtendsOn
<1>6. next = IF run.stopped # "no" THEN run
             ELSE IF version \in M!Applied(seen)
                  THEN IF M!Checksum(seen, version) = files[version] THEN run
                       ELSE [db |-> run.db, stopped |-> "checksum"]
             ELSE IF version = diesAt THEN [db |-> run.db, stopped |-> "died"]
             ELSE IF version \in M!Applied(run.db.table) THEN [db |-> run.db, stopped |-> "conflict"]
             ELSE [db |-> grown, stopped |-> run.stopped]
  <2>1. \A s : [run EXCEPT !.stopped = s] = [db |-> run.db, stopped |-> s]
    BY <1>3
  <2>2. \A g : [run EXCEPT !.db = g] = [db |-> g, stopped |-> run.stopped]
    BY <1>3
  <2>3. next = IF run.stopped # "no" THEN run
               ELSE IF version \in M!Applied(seen)
                    THEN IF M!Checksum(seen, version) = files[version] THEN run
                         ELSE [run EXCEPT !.stopped = "checksum"]
               ELSE IF version = diesAt THEN [run EXCEPT !.stopped = "died"]
               ELSE IF version \in M!Applied(run.db.table) THEN [run EXCEPT !.stopped = "conflict"]
               ELSE [run EXCEPT !.db = grown]
    BY DEF M!MigrateFile
  <2> HIDE DEF seen, next, grown
  <2> QED  BY <2>1, <2>2, <2>3
<1>7. ASSUME run.stopped = "no", version \in M!Applied(seen), M!Checksum(seen, version) = files[version]
      PROVE  HasRow(run.db.table, version, files[version])
  <2>1. HasRow(seen, version, files[version])
    <3> HIDE DEF seen
    <3> QED  BY <1>2, <1>7, OneBody DEF R
  <2> HIDE DEF seen, R
  <2>2. Extends(run.db.table, seen)
    BY <1>2, <1>3, ExtendsOn
  <2> QED  BY <1>2, <1>3, <2>1, <2>2, ExtendsOn
<1>8. ASSUME version \notin M!Applied(run.db.table)
      PROVE  grown \in D /\ Extends(grown.table, run.db.table) /\ HasRow(grown.table, version, files[version])
  BY <1>1, <1>3, <1>8, RecordedNext
<1> HIDE DEF seen, next, R, D, grown
<1>9. next \in Runs(Bodies) /\ Extends(next.db.table, run.db.table)
  <2>1. "checksum" \in {"no", "checksum", "died", "conflict"} /\ "died" \in {"no", "checksum", "died", "conflict"}
        /\ "conflict" \in {"no", "checksum", "died", "conflict"}
    OBVIOUS
  <2> QED  BY <1>3, <1>4, <1>5, <1>6, <1>8, <2>1
<1>10. next.stopped = "no" => run.stopped = "no" /\ HasRow(next.db.table, version, files[version])
  BY <1>3, <1>6, <1>7, <1>8
<1> QED  BY <1>9, <1>10 DEF next, seen


\* A deployment: any files of any versions, dying anywhere, having read any beginning.
Deployments(Bodies) ==
    [files : UNION {[disk -> Bodies] : disk \in (SUBSET M!Versions) \ {{}}},
            diesAt : Nat, seen : Nat, reset : BOOLEAN, confirm : BOOLEAN,
            appEnv : {"development", "test", "staging", "production"}]

LEMMA NewestIs ==
    ASSUME NEW Disk \in SUBSET M!Versions, Disk # {}, NEW files, DOMAIN files = Disk
    PROVE  /\ M!Newest(files) \in Disk /\ M!Newest(files) \in Nat
           /\ \A version \in Disk : version \in 1..M!Newest(files)
<1> DEFINE bounds == {n \in Nat : \A version \in Disk : version <= n}
<1>1. ASSUME NEW version \in Disk PROVE version \in Nat /\ version >= 1 /\ version <= 9999
  <2>1. version \in 1..9999
    BY DEF M!Versions
  <2> QED  BY <2>1
<1>2. PICK n \in bounds : \A m \in bounds : n <= m
  <2>1. 9999 \in bounds
    BY <1>1
  <2>2. bounds \subseteq Nat
    OBVIOUS
  <2> HIDE DEF bounds
  <2>3. bounds # {}
    BY <2>1
  <2> QED  BY <2>2, <2>3, LeastNumber
<1>3. n \in Disk
  <2>1. SUFFICES ASSUME n \notin Disk PROVE FALSE
    OBVIOUS
  <2>2. PICK version \in Disk : TRUE
    OBVIOUS
  <2>3. n \in Nat /\ version <= n /\ version \in Nat /\ version >= 1
    BY <1>1, <1>2, <2>2
  <2>4. n - 1 \in bounds
    <3>1. \A other \in Disk : other <= n /\ other # n /\ other \in Nat
      BY <1>1, <1>2, <2>1
    <3> QED  BY <2>3, <3>1
  <2> QED  BY <1>2, <2>3, <2>4
<1>4. n \in Nat /\ \A version \in Disk : version <= n
  BY <1>2
<1> HIDE DEF bounds
<1>5. M!Newest(files) \in Disk /\ \A other \in Disk : other <= M!Newest(files)
  <2>1. \E v \in DOMAIN files : \A other \in DOMAIN files : other <= v
    BY <1>3, <1>4
  <2>2. /\ M!Newest(files) \in DOMAIN files
        /\ \A other \in DOMAIN files : other <= M!Newest(files)
    BY <2>1 DEF M!Newest
  <2> QED  BY <2>2
<1> DEFINE newest == M!Newest(files)
<1> HIDE DEF newest
<1>6. newest \in Disk /\ newest \in Nat /\ \A version \in Disk : version \in 1..newest
  BY <1>1, <1>5 DEF newest
<1> QED  BY <1>6 DEF newest

UpAlong(db, d, f) ==
    f = [version \in 0..M!Newest(d.files) |->
            IF version = 0 THEN [db |-> db, stopped |-> "no"]
            ELSE IF version \notin DOMAIN d.files THEN f[version - 1]
            ELSE M!MigrateFile(f[version - 1], version, d.files, M!Read(db.table, d.seen), d.diesAt)]

\* Whatever is deployed, the run is one of a database deployed soundly that extends the
\* one it began with; and if it ends well, every file is in it.
LEMMA MigratesUp ==
    ASSUME NEW Bodies, NEW db \in Deployed(Bodies), NEW Disk \in SUBSET M!Versions, Disk # {},
           NEW d, d.files \in [Disk -> Bodies], d.seen \in Nat
    PROVE  LET run == M!MigrateUp(db, d)
           IN  /\ run \in Runs(Bodies) /\ Extends(run.db.table, db.table)
               /\ run.stopped = "no" =>
                    \A version \in Disk : HasRow(run.db.table, version, d.files[version])
<1> DEFINE n == M!Newest(d.files)
           base == [db |-> db, stopped |-> "no"]
           seen == M!Read(db.table, d.seen)
           File(run, version) == M!MigrateFile(run, version, d.files, seen, d.diesAt)
           S == {run \in Runs(Bodies) : Extends(run.db.table, db.table)}
           next == [p \in S \X (1..n) |-> IF p[2] \notin Disk THEN p[1] ELSE File(p[1], p[2])]
           f == CHOOSE g : UpAlong(db, d, g)
           R == M!Versions \X Bodies
<1>1. /\ n \in Disk /\ n \in Nat /\ DOMAIN d.files = Disk
      /\ \A version \in Disk : version \in 1..n
  BY NewestIs
<1>2. base \in S
  <2>1. base \in Runs(Bodies)
    <3> DEFINE D == Deployed(Bodies)
    <3>1. db \in D
      OBVIOUS
    <3> HIDE DEF D
    <3>2. base \in [db : D, stopped : {"no", "checksum", "died", "conflict"}]
      BY <3>1
    <3> QED  BY <3>2 DEF Runs, D
  <2>2. db.table \in Seq(R)
    BY DEF Deployed
  <2>3. Extends(db.table, db.table)
    BY <2>2, ExtendsOn
  <2> QED  BY <2>1, <2>3
<1>3. \A run \in S : run.db.table \in Seq(R) /\ db.table \in Seq(R)
  BY DEF Runs, Deployed
<1>4. ASSUME NEW run \in S, NEW version \in Disk
      PROVE  /\ File(run, version) \in S /\ Extends(File(run, version).db.table, run.db.table)
             /\ File(run, version).stopped = "no" =>
                  /\ run.stopped = "no"
                  /\ HasRow(File(run, version).db.table, version, d.files[version])
  <2>1. /\ File(run, version) \in Runs(Bodies) /\ Extends(File(run, version).db.table, run.db.table)
        /\ File(run, version).stopped = "no" =>
             run.stopped = "no" /\ HasRow(File(run, version).db.table, version, d.files[version])
    BY FileMigrates
  <2>2. File(run, version).db.table \in Seq(R)
    BY <2>1 DEF Runs, Deployed
  <2>3. Extends(File(run, version).db.table, db.table)
    <3>1. run.db.table \in Seq(R) /\ db.table \in Seq(R) /\ Extends(run.db.table, db.table)
      BY <1>3
    <3> HIDE DEF File
    <3> QED  BY <2>1, <2>2, <3>1, ExtendsOn
  <2> HIDE DEF File
  <2> QED  BY <2>1, <2>3
<1> HIDE DEF S, File, R
<1>5. \A run \in S, version \in 1..n :
         /\ next[<<run, version>>] = (IF version \notin Disk THEN run ELSE File(run, version))
         /\ next[<<run, version>>] \in S
  BY <1>4
<1>6. next \in [S \X (1..n) -> S]
  BY <1>4
<1> HIDE DEF n, base, next
<1>7. UpAlong(db, d, f)
  <2>1. PICK g \in [0..n -> S] : Recurs(g, n, base, next)
    BY <1>1, <1>2, <1>6, StepsExist
  <2>2. ASSUME NEW i \in 0..n
        PROVE  g[i] = IF i = 0 THEN base ELSE IF i \notin Disk THEN g[i - 1] ELSE File(g[i - 1], i)
    <3>1. g[i] = IF i = 0 THEN base ELSE next[<<g[i - 1], i>>]
      BY <2>1 DEF Recurs
    <3>2. i # 0 => i \in 1..n /\ i - 1 \in 0..n
      BY <1>1
    <3>3. i # 0 => g[i - 1] \in S
      BY <3>2
    <3> QED  BY <1>5, <3>1, <3>2, <3>3
  <2>3. g = [i \in 0..n |-> IF i = 0 THEN base ELSE IF i \notin Disk THEN g[i - 1] ELSE File(g[i - 1], i)]
    BY <2>1, <2>2 DEF Recurs
  <2>4. UpAlong(db, d, g)
    BY <1>1, <2>3 DEF UpAlong, n, base, File
  <2> QED  BY <2>4
<1>8. M!MigrateUp(db, d) = f[n]
  BY DEF M!MigrateUp, UpAlong, n
<1> HIDE DEF f
<1>9. \A i \in 0..n : f[i] = IF i = 0 THEN base ELSE IF i \notin Disk THEN f[i - 1] ELSE File(f[i - 1], i)
  <2>1. f = [i \in 0..n |-> IF i = 0 THEN base ELSE IF i \notin Disk THEN f[i - 1] ELSE File(f[i - 1], i)]
    BY <1>1, <1>7 DEF UpAlong, n, base, File
  <2> QED  BY <2>1
<1> DEFINE Recorded(i) == \A version \in Disk : version <= i =>
                             HasRow(f[i].db.table, version, d.files[version])
           Good == {i \in 0..n : f[i] \in S /\ (f[i].stopped = "no" => Recorded(i))}
<1>10. 0 \in Good
  <2>1. 0 \in 0..n /\ f[0] = base
    BY <1>1, <1>9
  <2>2. Recorded(0)
    <3>1. \A version \in Disk : version \in Nat /\ version >= 1
      BY <1>1
    <3>2. \A k \in Nat : k >= 1 => ~ (k <= 0)
      OBVIOUS
    <3> QED  BY <3>1, <3>2
  <2> QED  BY <1>2, <2>1, <2>2
<1>11. ASSUME NEW i \in 1..n, i - 1 \in Good PROVE i \in Good
  <2>1. i \in 0..n /\ i # 0 /\ f[i - 1] \in S /\ (f[i - 1].stopped = "no" => Recorded(i - 1))
    BY <1>1, <1>11
  <2>2. f[i] = IF i \notin Disk THEN f[i - 1] ELSE File(f[i - 1], i)
    BY <1>9, <2>1
  <2>3. \A version \in Disk : version <= i => version = i \/ version <= i - 1
    <3>1. i \in Nat /\ \A version \in Disk : version \in Nat
      BY <1>1
    <3>2. \A k, j \in Nat : k <= j => k = j \/ k <= j - 1
      OBVIOUS
    <3> QED BY <3>1, <3>2
  <2>4. CASE i \notin Disk
    BY <2>1, <2>2, <2>3, <2>4
  <2>5. CASE i \in Disk
    <3>1. /\ f[i] \in S /\ Extends(f[i].db.table, f[i - 1].db.table)
          /\ f[i].stopped = "no" => /\ f[i - 1].stopped = "no"
                                    /\ HasRow(f[i].db.table, i, d.files[i])
      BY <1>4, <2>1, <2>2, <2>5
    <3>2. f[i].db.table \in Seq(R) /\ f[i - 1].db.table \in Seq(R)
      BY <1>3, <2>1, <3>1
    <3>3. \A version : HasRow(f[i - 1].db.table, version, d.files[version])
                          => HasRow(f[i].db.table, version, d.files[version])
      <4> DEFINE t == f[i].db.table
                 s == f[i - 1].db.table
      <4>1. t \in Seq(R) /\ s \in Seq(R) /\ Extends(t, s)
        BY <3>1, <3>2
      <4> HIDE DEF t, s
      <4>2. \A version : HasRow(s, version, d.files[version])
                          => HasRow(t, version, d.files[version])
        BY <4>1, ExtendsOn
      <4> QED  BY <4>2 DEF t, s
    <3>4. f[i].stopped = "no" => Recorded(i)
      BY <2>1, <2>3, <3>1, <3>3
    <3> QED  BY <2>1, <3>1, <3>4
  <2> QED  BY <2>4, <2>5
<1>12. n \in Good
  <2>1. 0..n \subseteq Good
    <3> HIDE DEF Good
    <3> QED  BY <1>1, <1>10, <1>11, StepByStep
  <2>2. n \in Nat => n \in 0..n
    OBVIOUS
  <2> QED  BY <1>1, <2>1, <2>2
<1>13. f[n] \in S /\ (f[n].stopped = "no" =>
          \A version \in Disk : HasRow(f[n].db.table, version, d.files[version]))
  BY <1>1, <1>12
<1> QED  BY <1>8, <1>13 DEF S


\* The same number, named from the module and from here.
LEMMA SameCardinality == \A S : M!Cardinality(S) = Cardinality(S)
BY DEF M!Cardinality, Cardinality, M!IsFiniteSet, IsFiniteSet

LEMMA AppliedOnce ==
    ASSUME NEW Bodies, NEW db \in Deployed(Bodies)
    PROVE  Len(db.table) = Cardinality(M!Applied(db.table))
<1> DEFINE t == db.table
           n == Len(t)
           S == M!Applied(t)
           g == [i \in 1..n |-> t[i][1]]
<1>1. /\ n \in Nat /\ DOMAIN t = 1..n
      /\ \A i, j \in DOMAIN t : i # j => t[i][1] # t[j][1]
  BY DEF Deployed
<1> HIDE DEF t
<1>2. S = {t[i][1] : i \in 1..n}
  BY <1>1 DEF M!Applied, M!Range
<1> HIDE DEF n, S
<1>3. g \in [1..n -> S] /\ \A i, j \in 1..n : i # j => g[i] # g[j]
  BY <1>1, <1>2
<1>4. \A s \in S : \E i \in 1..n : g[i] = s
  BY <1>2
<1> HIDE DEF g
<1>5. g \in Bijection(1..n, S)
  <2>1. g \in Injection(1..n, S)
    BY <1>3 DEF Injection, IsInjective
  <2>2. g \in Surjection(1..n, S)
    BY <1>3, <1>4 DEF Surjection
  <2> QED  BY <2>1, <2>2 DEF Bijection
<1>6. ExistsBijection(1..n, S)
  BY <1>5 DEF ExistsBijection
<1> QED  BY <1>1, <1>6, FS_CountingElements DEF n, S, t

LEMMA PrefixOf ==
    ASSUME NEW R, NEW s \in Seq(R), NEW t \in Seq(R), Extends(t, s)
    PROVE  M!IsPrefix(s, t)
<1> DEFINE n == Len(s)
<1>1. n \in Nat /\ Len(t) \in Nat /\ n <= Len(t) /\ \A i \in 1..n : t[i] = s[i]
  BY DEF Extends
<1>2. SubSeq(s, 1, n) = [i \in 1..n |-> s[i]] /\ SubSeq(t, 1, n) = [i \in 1..n |-> t[i]]
  <2> HIDE DEF n
  <2> QED  BY <1>1, FirstRows
<1>3. SubSeq(s, 1, n) = SubSeq(t, 1, n)
  BY <1>1, <1>2
<1> QED  BY <1>1, <1>3 DEF M!IsPrefix

\* However databases were deployed before, whatever is on disk, wherever the deployment dies
\* and whatever another has applied meanwhile: each version is applied once and recorded with
\* what was run, an end without an error means every file is in, and production keeps what it
\* has (packages/db/src/migrations.ts); and what it leaves can be deployed again.
THEOREM AlwaysDeployedSoundly ==
    ASSUME NEW Bodies
    PROVE  /\ M!Empty \in Deployed(Bodies)
           /\ \A db \in Deployed(Bodies), d \in Deployments(Bodies) :
                 M!DeployedSoundly(db, d) /\ M!Deploy(db, d).db \in Deployed(Bodies)
<1> DEFINE R == M!Versions \X Bodies
<1>1. M!Empty \in Deployed(Bodies)
  <2>1. <<>> \in Seq(R) /\ <<>> \in Seq(Bodies) /\ <<>> = [i \in {} |-> i] /\ DOMAIN <<>> = {}
    OBVIOUS
  <2> DEFINE Tables == Seq(R)
             Schemas == Seq(Bodies)
             e == M!Empty
  <2>2. e = [table |-> <<>>, schema |-> <<>>]
    BY DEF M!Empty
  <2> HIDE DEF Tables, Schemas, R, e
  <2>3. <<>> \in Tables /\ <<>> \in Schemas
    BY <2>1 DEF Tables, Schemas
  <2>4. e \in [table : Tables, schema : Schemas] /\ e.table = <<>> /\ e.schema = <<>>
    BY <2>2, <2>3
  <2>5. e.schema = [i \in DOMAIN e.table |-> e.table[i][2]] /\ DOMAIN e.table = {}
    BY <2>4
  <2> QED  BY <2>4, <2>5 DEF Deployed, Tables, Schemas, R, e
<1>2. ASSUME NEW db \in Deployed(Bodies), NEW d \in Deployments(Bodies)
      PROVE  M!DeployedSoundly(db, d) /\ M!Deploy(db, d).db \in Deployed(Bodies)
  <2> DEFINE run == M!Deploy(db, d)
  <2>1. PICK Disk \in SUBSET M!Versions : Disk # {} /\ d.files \in [Disk -> Bodies]
    BY DEF Deployments
  <2>2. d.seen \in Nat /\ d.reset \in BOOLEAN
    BY DEF Deployments
  <2>3. DOMAIN d.files = Disk
    BY <2>1
  <2>4. ASSUME NEW from \in Deployed(Bodies)
        PROVE  /\ M!MigrateUp(from, d).db \in Deployed(Bodies)
               /\ Extends(M!MigrateUp(from, d).db.table, from.table)
               /\ M!MigrateUp(from, d).stopped = "no" =>
                    \A version \in Disk :
                        HasRow(M!MigrateUp(from, d).db.table, version, d.files[version])
    <3>1. /\ M!MigrateUp(from, d) \in Runs(Bodies)
          /\ Extends(M!MigrateUp(from, d).db.table, from.table)
          /\ M!MigrateUp(from, d).stopped = "no" =>
               \A version \in Disk :
                   HasRow(M!MigrateUp(from, d).db.table, version, d.files[version])
      BY <2>1, <2>2, MigratesUp
    <3>2. M!MigrateUp(from, d).db \in Deployed(Bodies)
      BY <3>1 DEF Runs
    <3> QED  BY <3>1, <3>2
  <2>5. run = IF ~d.reset THEN M!MigrateUp(db, d)
              ELSE IF M!ResetAllowed(d) THEN M!MigrateUp(M!Empty, d)
              ELSE [db |-> db, stopped |-> "refused"]
    BY <2>2 DEF M!Deploy
  <2>6. d.appEnv = "production" => ~M!ResetAllowed(d)
    BY DEF M!ResetAllowed
  <2> HIDE DEF run
  <2>7. db.table \in Seq(R) /\ Extends(db.table, db.table)
    <3>1. db.table \in Seq(R)
      BY DEF Deployed
    <3> QED  BY <3>1, ExtendsOn
  <2>8. /\ run.db \in Deployed(Bodies)
        /\ run.stopped = "no" =>
             \A version \in Disk : HasRow(run.db.table, version, d.files[version])
        /\ d.appEnv = "production" => Extends(run.db.table, db.table)
    BY <1>1, <2>4, <2>5, <2>6, <2>7
  <2>9. /\ run.db.table \in Seq(R)
        /\ \A i, j \in DOMAIN run.db.table : i # j => run.db.table[i][1] # run.db.table[j][1]
        /\ run.db.schema = [i \in DOMAIN run.db.table |-> run.db.table[i][2]]
    BY <2>8 DEF Deployed
  <2>10. Len(run.db.table) = Cardinality(M!Applied(run.db.table))
    BY <2>8, AppliedOnce
  <2>11. ASSUME run.stopped = "no", NEW version \in DOMAIN d.files
         PROVE  M!MigrationStatus(run.db, d.files, version).matches
    <3>1. HasRow(run.db.table, version, d.files[version])
      BY <2>3, <2>8, <2>11
    <3>2. /\ version \in M!Applied(run.db.table)
          /\ M!Checksum(run.db.table, version) = d.files[version]
      BY <2>9, <3>1, RowIsBody DEF R
    <3> QED  BY <3>2 DEF M!MigrationStatus
  <2>12. d.appEnv = "production" => M!IsPrefix(db.table, run.db.table)
    <3> HIDE DEF R
    <3> QED  BY <2>7, <2>8, <2>9, PrefixOf
  <2>13. M!DeployedSoundly(db, d)
    <3> DEFINE Whole(r) ==
                  /\ Len(r.db.table) = Cardinality(M!Applied(r.db.table))
                  /\ r.db.schema = [i \in DOMAIN r.db.table |-> r.db.table[i][2]]
                  /\ r.stopped = "no" =>
                        \A version \in DOMAIN d.files :
                            M!MigrationStatus(r.db, d.files, version).matches
                  /\ d.appEnv = "production" => M!IsPrefix(db.table, r.db.table)
    <3>1. Whole(run)
      BY <2>9, <2>10, <2>11, <2>12
    <3>2. M!DeployedSoundly(db, d) <=> Whole(M!Deploy(db, d))
      BY SameCardinality DEF M!DeployedSoundly
    <3> HIDE DEF Whole
    <3> QED  BY <3>1, <3>2 DEF run
  <2> QED  BY <2>8, <2>13 DEF run
<1> QED  BY <1>1, <1>2

-----------------------------------------------------------------------------
(* The inputs TLC evaluates the functions of Access and Migrations over are among    *)
(* those of the theorems above.                                                      *)

LEMMA TransactionsAreAny ==
    ASSUME NEW tx \in A!Transactions PROVE AnyTransaction(tx)
BY DEF A!Transactions, A!Users, A!Unset, A!None, AnyTransaction

\* No user is nobody, so a transaction has nobody as its user only if it is the system's.
LEMMA ContextsAre ==
    ASSUME NEW ctx \in A!Contexts PROVE ctx.admin => ctx.user # A!None
<1> PICK tx \in A!Transactions : ctx = A!Identity(A!Begun(A!Fresh, tx))
  BY DEF A!Contexts
<1>1. AnyTransaction(tx)
  BY TransactionsAreAny
<1>2. ctx = [user |-> tx.user, admin |-> tx.admin]
  BY <1>1, ConnectionsForget DEF A!ActsAsBegunFor
<1>3. tx.admin => tx.user # A!None
  BY DEF A!Transactions, A!Users, A!None
<1> QED  BY <1>2, <1>3

LEMMA AccessAlwaysHolds == AccessHold
<1>1. ASSUME NEW earlier \in [1..3 -> A!Transactions], NEW tx \in A!Transactions
      PROVE  A!IdentityNeverLeaks(earlier, tx)
  <2>1. earlier \in Seq(A!Transactions)
    <3> DEFINE Txs == A!Transactions
    <3>1. 3 \in Nat /\ earlier = [i \in 1..3 |-> earlier[i]] /\ \A i \in 1..3 : earlier[i] \in Txs
      OBVIOUS
    <3> HIDE DEF Txs
    <3>2. earlier \in Seq(Txs)
      BY <3>1, FunctionIsSeq
    <3> QED  BY <3>2 DEF Txs
  <2> QED  BY <2>1, TransactionsAreAny, IdentitiesNeverLeak
<1>2. A!OwnRowsOnly
  BY OwnRowsAlone DEF A!OwnRowsOnly
<1>3. A!AdminsOnlyInspect
  <2>1. ASSUME NEW t \in A!AdminRead, NEW ctx \in A!Contexts, NEW old, NEW new
        PROVE  A!InspectsOnly(t, ctx, old, new)
    <3>1. CASE ctx.admin
      BY <3>1, ContextsAre, AdministratorsInspect
    <3>2. CASE ~ctx.admin
      BY <3>2 DEF A!InspectsOnly
    <3> QED  BY <3>1, <3>2
  <2> QED  BY <2>1 DEF A!AdminsOnlyInspect
<1>4. A!HistoryIsKept
  BY TrailKept DEF A!HistoryIsKept
<1> QED  BY <1>1, <1>2, <1>3, <1>4, ServicesServed DEF AccessHold

LEMMA DeploysAre == Deploys \subseteq Deployments({"a", "b"})
<1> SUFFICES ASSUME NEW d \in Deploys PROVE d \in Deployments({"a", "b"})
  OBVIOUS
<1> DEFINE Files == UNION {[disk -> {"a", "b"}] : disk \in (SUBSET M!Versions) \ {{}}}
<1>1. Disks \subseteq Files
  <2>1. {{1}, {2}, {1, 2}} \subseteq (SUBSET M!Versions) \ {{}}
    BY DEF M!Versions
  <2> QED  BY <2>1 DEF Disks
<1> HIDE DEF Files
<1>2. d \in [files : Files, diesAt : Nat, seen : Nat, reset : BOOLEAN, confirm : BOOLEAN,
             appEnv : {"development", "test", "staging", "production"}]
  <2>1. /\ d = [files |-> d.files, diesAt |-> d.diesAt, seen |-> d.seen, reset |-> d.reset,
                confirm |-> d.confirm, appEnv |-> d.appEnv]
        /\ d.files \in Disks /\ d.diesAt \in 0..2 /\ d.seen \in 0..2 /\ d.reset \in BOOLEAN
        /\ d.confirm = TRUE /\ d.appEnv \in {"test", "production"}
    BY DEF Deploys
  <2>2. /\ d.files \in Files /\ d.diesAt \in Nat /\ d.seen \in Nat /\ d.confirm \in BOOLEAN
        /\ d.appEnv \in {"development", "test", "staging", "production"}
    <3>1. d.diesAt \in Nat /\ d.seen \in Nat
      BY <2>1
    <3>2. d.files \in Files
      BY <1>1, <2>1
    <3>3. d.confirm \in BOOLEAN /\ d.appEnv \in {"development", "test", "staging", "production"}
      BY <2>1
    <3> QED  BY <3>1, <3>2, <3>3
  <2> HIDE DEF Files
  <2> QED  BY <2>1, <2>2
<1> QED  BY <1>2 DEF Deployments, Files

\* What a run evaluates beside the states of the session holds there: connections forget,
\* rows are their owner's, services are served and deployments sound.
THEOREM DatabaseAlwaysSound == Spec => []DatabaseSound
<1> DEFINE D == Deployed({"a", "b"})
<1>1. M!Empty \in D /\ \A db \in D, d \in Deploys :
         M!DeployedSoundly(db, d) /\ M!Deploy(db, d).db \in D
  BY DeploysAre, AlwaysDeployedSoundly
<1> HIDE DEF D
<1>2. Databases \subseteq D
  BY <1>1 DEF Databases
<1>3. DatabaseHolds
  BY <1>1, <1>2, AccessAlwaysHolds DEF DatabaseHolds
<1>4. DatabaseSound
  BY <1>3 DEF DatabaseSound
<1> QED  BY <1>4, PTL

=============================================================================
