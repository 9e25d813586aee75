------------------------------- MODULE Messages -------------------------------
(***************************************************************************)
(* What a notification says, where its buttons lead, and how the answers   *)
(* of Telegram's Bot API are understood (packages/telegram: templates.ts,  *)
(* links.ts, api.ts), with the payloads that the services queue.           *)
(*                                                                         *)
(* A text is a sequence of tokens: characters, the names of entities (with *)
(* their semicolons), and prefixes of links.  Ids have two groups of one   *)
(* digit, and a start parameter five tokens, instead of five groups and 64 *)
(* characters.                                                             *)
(***************************************************************************)
EXTENDS Integers, FiniteSets, SequencesExt

(* api.ts: escapeHtml *)

\* String.replace, of every c.
Substitute(text, c, by) ==
    FlattenSeq([i \in DOMAIN text |-> IF text[i] = c THEN by ELSE <<text[i]>>])

EscapeHtml(text) ==
    Substitute(Substitute(Substitute(Substitute(
        text, "&", <<"&", "amp">>), "<", <<"&", "lt">>), ">", <<"&", "gt">>),
        "quote", <<"&", "quot">>)

\* What a reader of HTML sees.
Named == [e \in {"amp", "lt", "gt", "quot"} |->
            CASE e = "amp" -> "&" [] e = "lt" -> "<" [] e = "gt" -> ">" [] OTHER -> "quote"]
Reads(html) ==
    LET Entity(i) == i > 1 /\ i <= Len(html) /\ html[i] \in DOMAIN Named /\ html[i - 1] = "&"
    IN  FlattenSeq([i \in DOMAIN html |->
            IF Entity(i) THEN <<Named[html[i]]>> ELSE IF Entity(i + 1) THEN <<>> ELSE <<html[i]>>])

\* Whatever a user called a wallet, the message shows it and is no markup.
EscapeSound(texts) ==
    \A text \in texts :
        /\ Reads(EscapeHtml(text)) = text
        /\ ToSet(EscapeHtml(text)) \cap {"<", ">", "quote"} = {}

-----------------------------------------------------------------------------
(* links.ts: start parameters *)

Hex == {"0", "f"}
Ids == {<<a, "-", b>> : a, b \in Hex}
CompactUuid(id) == Substitute(id, "-", <<>>)

Screens  == {"home", "wallets", "activity", "payments", "settings", "receive", "send"}
RoutePrefix == [transaction |-> "tx", wallet |-> "w", scheduled |-> "sp", expectedIncome |-> "ei"]
Bar == "_"
StartParam(kind, id) == <<RoutePrefix[kind], Bar>> \o CompactUuid(id)
ScreenParam(name)    == <<"s", Bar, name>>

MaxParam == 5
SafeParam(param) == Len(param) \in 1..MaxParam /\ "%" \notin ToSet(param)

Home == <<>>
MiniAppLink(param) == IF SafeParam(param) THEN param ELSE Home

\* What the parser takes: any word of small letters for a screen, and hexadecimal
\* digits of either case.
SmallWords == Screens \cup {"nowhere"}
HexOfAnyCase == Hex \cup {"F"}

Nowhere == [kind |-> "none", value |-> <<>>]
ExpandUuid(text) == IF Len(text) = 2 /\ ToSet(text) \subseteq HexOfAnyCase
                    THEN <<text[1], "-", text[2]>> ELSE <<>>

ParseStartParam(param) ==
    IF ~SafeParam(param) \/ Len(param) < 3 \/ param[2] # Bar THEN Nowhere
    ELSE LET value == SubSeq(param, 3, Len(param))
             kinds == {k \in DOMAIN RoutePrefix : RoutePrefix[k] = param[1]}
         IN  IF param[1] = "s" /\ Len(value) = 1 /\ value[1] \in SmallWords
             THEN [kind |-> "screen", value |-> value]
             ELSE IF kinds # {} /\ ExpandUuid(value) # <<>>
             THEN [kind |-> CHOOSE k \in kinds : TRUE, value |-> ExpandUuid(value)]
             ELSE Nowhere

\* A link opens what it was made for, and what opens something was made for it.
LinksLeadBack(params) ==
    /\ \A kind \in DOMAIN RoutePrefix, id \in Ids :
          ParseStartParam(MiniAppLink(StartParam(kind, id))) = [kind |-> kind, value |-> id]
    /\ \A name \in Screens : ParseStartParam(MiniAppLink(ScreenParam(name))).value = <<name>>
    /\ \A param \in params :
          LET route == ParseStartParam(param)
          IN  route # Nowhere =>
                param = IF route.kind = "screen" THEN ScreenParam(route.value[1])
                        ELSE StartParam(route.kind, route.value)

-----------------------------------------------------------------------------
(* templates.ts *)

\* What a type's text needs, and what its buttons open: a transaction, the entity
\* of the payload's `key`, or the app.  A reason's code stands for its translation.
\* Types that nothing queues (balance_alert, goal_reached, security_alert) are left out.
Says(params, kind, key) == [params |-> params, kind |-> kind, key |-> key]
Templates == [
    crypto_received |-> Says({"amount", "wallet", "value", "network"}, "transaction", "transactionId"),
    crypto_sent |-> Says({"amount", "address", "wallet", "network"}, "transaction", "transactionId"),
    crypto_confirmed |-> Says({"amount", "network"}, "transaction", "transactionId"),
    crypto_failed |-> Says({"amount", "network"}, "transaction", "transactionId"),
    expected_income_due |-> Says({"name", "amount"}, "expectedIncome", "expectedIncomeId"),
    expected_income_overdue |-> Says({"name", "amount", "date"}, "expectedIncome", "expectedIncomeId"),
    scheduled_payment_upcoming |->
        Says({"amount", "address", "network", "time"}, "scheduled", "scheduledPaymentId"),
    scheduled_payment_executed |-> Says({"amount", "address"}, "transaction", "transactionId"),
    scheduled_payment_failed |->
        Says({"amount", "address", "reasonCode"}, "scheduled", "scheduledPaymentId"),
    fx_rate_alert |-> Says({"percent", "rate"}, "app", "")]

\* str: a parameter that is missing or null is blank.
Null == <<>>
Str(payload, key) ==
    IF key \in DOMAIN payload THEN payload[key] ELSE Null
EscapedParams(payload, keys) == [key \in keys |-> EscapeHtml(Str(payload, key))]

Explorer == <<"https">>
OpenApp == [opens |-> Home]

TransactionButtons(payload) ==
    LET id == Str(payload, "transactionId")
        url == Str(payload, "explorerUrl")
        row == (IF id = <<>> THEN {} ELSE {[opens |-> MiniAppLink(StartParam("transaction", id))]})
                 \cup (IF url = Explorer THEN {[opens |-> url]} ELSE {})
    IN  IF row = {} THEN {OpenApp} ELSE row

\* An unknown type still opens the app.
RenderNotification(type, payload) ==
    IF type \notin DOMAIN Templates THEN [says |-> [key \in {} |-> <<>>], buttons |-> {OpenApp}]
    ELSE LET t == Templates[type]
             id == Str(payload, t.key)
         IN  [says |-> EscapedParams(payload, t.params),
              buttons |-> IF t.kind = "transaction" THEN TransactionButtons(payload)
                          ELSE IF t.kind = "app" \/ id = <<>> THEN {OpenApp}
                          ELSE {[opens |-> MiniAppLink(StartParam(t.kind, id))]}]

-----------------------------------------------------------------------------
(* The payloads queued, with `word` for any text and `id` for the row's id *)

With(keys, word, ids) ==
    [key \in keys \cup DOMAIN ids |-> IF key \in keys THEN word ELSE ids[key]]
Told(type, keys, word, set) ==
    {[type |-> type, payload |-> With(keys, word, ids)] : ids \in set}
Explored(txs) == [transactionId : txs, explorerUrl : {Explorer, <<>>}]  \* transactionUrl(...) ?? ''

ScannedTransfer(word, id) ==
    UNION {Told(type, {"amount", "wallet", "network", "address", "value"}, word, Explored({id})) :
             type \in {"crypto_received", "crypto_sent"}}

\* The transaction of a transfer broadcast may not have been recorded.
QueueOutgoing(word, id) ==
    Told("crypto_sent", {"amount", "address", "wallet", "network"}, word, Explored({id, Null}))

ConfirmedOrFailed(word, id) ==
    Told("crypto_confirmed", {"amount", "network"}, word, Explored({id}))
      \cup Told("crypto_failed", {"amount", "network"}, word, [transactionId : {id}])

IncomeReminder(word, id) ==
    Told("expected_income_due", {"name", "amount"}, word, [expectedIncomeId : {id}])
      \cup Told("expected_income_overdue", {"name", "amount", "date"}, word,
                [expectedIncomeId : {id}])

FxAlert(word) ==
    {[type |-> "fx_rate_alert", payload |-> [key \in {"percent", "rate"} |-> word]]}

UpcomingPayment(word, id) ==
    Told("scheduled_payment_upcoming", {"amount", "address", "network", "time"}, word,
         [scheduledPaymentId : {id}])

ExecutedPayment(word, id) ==
    Told("scheduled_payment_executed", {"amount", "address"}, word, Explored({id, Null}))

FailedPayment(word, id) ==
    Told("scheduled_payment_failed", {"amount", "address", "reasonCode"}, word,
         [scheduledPaymentId : {id}])

Queued(word, id) ==
    ScannedTransfer(word, id) \cup QueueOutgoing(word, id) \cup ConfirmedOrFailed(word, id)
      \cup IncomeReminder(word, id) \cup FxAlert(word) \cup UpcomingPayment(word, id)
      \cup ExecutedPayment(word, id) \cup FailedPayment(word, id)

\* Everything queued says all that its text has room for, as it was meant, and a
\* button of it opens the thing it is about whenever the payload names it.
MessagesComplete(words) ==
    \A word \in words, id \in Ids : \A n \in Queued(word, id) :
        LET message == RenderNotification(n.type, n.payload)
            about   == Str(n.payload, Templates[n.type].key)
        IN  /\ \A key \in DOMAIN message.says : Reads(message.says[key]) = word
            /\ message.buttons # {}
            /\ about # <<>> => \E b \in message.buttons : ParseStartParam(b.opens).value = about

-----------------------------------------------------------------------------
(* api.ts: TelegramClient.call, sendMessage *)

NoCode == 0
\* What comes back, and whether Telegram took the message: the envelope, something
\* that is no envelope, an abort after 10 seconds, a broken connection.
Replies ==
    [kind : {"ok"}, message : BOOLEAN, took : {TRUE}]
      \cup [kind : {"refused"}, code : {NoCode, 400, 403, 429, 500}, gone : BOOLEAN,
            wait : {0, 30}, took : {FALSE}]
      \cup [kind : {"garbled", "aborted", "broken"}, took : BOOLEAN]

TelegramApiError(reply) ==
    LET permanent == reply.code \in {400, 403} \/ reply.gone
    IN  [code |-> "SERVICE_UNAVAILABLE", permanent |-> permanent, wait |-> reply.wait]

NoError == [code |-> "none", permanent |-> FALSE, wait |-> 0]
CallError(reply) ==
    CASE reply.kind = "ok"      -> NoError
      [] reply.kind = "refused" -> TelegramApiError(reply)
      [] reply.kind = "aborted" -> [NoError EXCEPT !.code = "TIMEOUT"]
      [] OTHER                  -> [NoError EXCEPT !.code = "SERVICE_UNAVAILABLE"]

\* A result that is no message still counts as sent, with id 0.
SendMessage(reply) ==
    [error |-> CallError(reply),
     messageId |-> IF reply.kind = "ok" /\ reply.message THEN 7 ELSE 0]

\* The answers of Notifications that a reply stands for.
Answer(reply) ==
    LET error == SendMessage(reply).error
    IN  IF error = NoError THEN "accepted"
        ELSE IF error.permanent THEN "permanent"
        ELSE IF reply.took THEN "lost" ELSE "transient"

RetryAfter(reply, backoff) ==
    IF CallError(reply).wait # 0 THEN CallError(reply).wait ELSE backoff

\* Nothing is recorded as sent that Telegram did not take, nor given up as refused
\* that it took; an answer is lost only when Telegram said nothing that can be
\* read; and a rate limit is waited out as told.
RepliesUnderstood ==
    \A reply \in Replies :
        /\ Answer(reply) = "accepted" => reply.took
        /\ Answer(reply) = "permanent" => ~reply.took
        /\ Answer(reply) = "lost" => reply.kind \notin {"ok", "refused"}
        /\ reply.kind = "refused" /\ reply.code = 429 /\ ~reply.gone =>
              /\ Answer(reply) = "transient"
              /\ RetryAfter(reply, 5) = IF reply.wait = 0 THEN 5 ELSE reply.wait
=============================================================================
