------------------------------- MODULE Transfers -------------------------------
(***************************************************************************)
(* What one transfer goes through on each network and in each deployment:  *)
(* the configuration a process starts with, the parts it is wired to, the  *)
(* payload a provider builds, the signature, the broadcast and what asking *)
(* about the transaction says afterwards (packages/core config.ts,         *)
(* context.ts and signer/index.ts, the providers of packages/blockchain).  *)
(*                                                                         *)
(* SendPipeline has the order of these calls among others; here they are   *)
(* functions of the environment and of what nodes and the signer answer.   *)
(***************************************************************************)
EXTENDS Integers, FiniteSets

Covered == {"bsc", "tron", "ton"}
ZeroAddress == "0x0"
Nothing == "none"

-----------------------------------------------------------------------------
(* serverConfigSchema, loadServerConfig.  What a variable says is Absent, "on"   *)
(* (1, true, yes, on) or any other text.                                         *)

Absent == "absent"

\* booleanish: every text but those four is false.
Booleanish(text, default) == IF text = Absent THEN default ELSE text = "on"

\* positiveInt: what is not a positive number is the fallback.
PositiveInt(number, fallback) == IF number > 0 THEN number ELSE fallback

\* keys: an API key of TRON or TON; complete: the token, secrets, pepper, https URL
\* and webhook secret production asks for; cap: the greatest value of a transfer,
\* dollars; fx: the first and the second rate provider.
Parsed(raw) ==
    [raw EXCEPT !.mock = Booleanish(@, TRUE), !.sending = Booleanish(@, FALSE),
                !.pin = Booleanish(@, TRUE), !.cap = PositiveInt(@, 250)]

\* The configuration itself: the providers without a repetition, endpoints and
\* confirmations of the one chain environment, amounts in minor units.
LoadServerConfig(raw) ==
    [Parsed(raw) EXCEPT !.cap = @ * 100,
                        !.fx = IF @[2] \in {Nothing, @[1]} THEN <<@[1]>> ELSE @]

IsProduction(env) == env.app \in {"production", "staging"}

\* What loadServerConfig refuses to start with (ConfigError.issues).
Issues(env) ==
    {i \in {"incomplete", "mock", "hmac", "mockSigner", "pin"} :
        CASE i = "incomplete" -> IsProduction(env) /\ ~env.complete
          [] i = "mock"       -> IsProduction(env) /\ env.mock
          [] i = "hmac"       -> env.sending /\ env.signer = "remote" /\ ~env.hmac
          [] i = "mockSigner" -> env.sending /\ env.signer = "mock" /\ IsProduction(env)
          [] i = "pin"        -> env.sending /\ ~env.pin /\ IsProduction(env)}

SafeMode(env) == ~IsProduction(env)

\* createAppContext: simulated chain data, for every network at once.
UseMock(env) == env.mock \/ (~IsProduction(env) /\ ~env.keys)

UseRemoteSigner(env) ==
    /\ env.signer = "remote" /\ env.sending
    /\ IsProduction(env) \/ env.chain = "testnet"

\* The dashboard's "Test mode: no real funds move".
SafeModeAlert(env) == SafeMode(env) \/ env.chain = "testnet"

-----------------------------------------------------------------------------
(* Building.  A request has from, to, and amount; a payload says what kind it is,    *)
(* whom it pays and how much.                                                    *)

Refusal(network, request) ==
    CASE request.from = request.to -> "SELF_TRANSFER_NOT_ALLOWED"
      [] request.from # request.to /\ network = "bsc" /\ request.to = ZeroAddress ->
           "INVALID_ADDRESS"
      [] OTHER -> IF request.amount <= 0 THEN "AMOUNT_TOO_SMALL" ELSE Nothing

Payload(by, request) == [by |-> by, to |-> request.to, amount |-> request.amount]
NoAnswer  == [from |-> Nothing, to |-> Nothing, amount |-> 0]
NoPayload == Payload(Nothing, NoAnswer)

\* TronProvider.buildTransfer: the node builds the transaction, and what it answers
\* is the payload; node is that answer, NoAnswer an error or an answer without a txID.
TronBuild(request, node) == IF node = NoAnswer THEN NoPayload ELSE Payload("tron", node)

\* TonProvider.buildTransfer: a description, from which the signer is to build.
TonBuild(request) == Payload("ton", request)

\* EvmProvider.buildTransfer: value or ERC-20 call data; Providers has its fees.
EvmBuild(request, node) == IF node = NoAnswer THEN NoPayload ELSE Payload("evm-transaction", request)

\* MockProvider.buildTransfer
MockBuild(request) == Payload("mock", request)

\* The payload, or none with PROVIDER_ERROR.
Build(env, network, request, node) ==
    IF UseMock(env) THEN MockBuild(request)
    ELSE CASE network = "bsc"  -> EvmBuild(request, node)
           [] network = "tron" -> TronBuild(request, node)
           [] network = "ton"  -> TonBuild(request)

-----------------------------------------------------------------------------
(* Signing *)

\* MockSigner.sign
MockSign(payload) == [payload |-> payload, simulated |-> TRUE]

\* signRequestSchema: the networks the service accepts a request for.
AcceptedBySigner == {"tron", "ton"}

\* signTransaction: each network's own payload, but for TON, which needs a cell that
\* no provider builds.
CanSign(network, payload) ==
    \/ network = "bsc" /\ payload.by = "evm-transaction"
    \/ network = "tron" /\ payload.by = "tron"

\* RemoteSigner.sign, of what the service does: it signs if it can, refuses (4xx, ok
\* false or another digest), or is silent (5xx, time-out).
RemoteSign(network, payload, reply) ==
    CASE reply = "silent" -> "SIGNER_UNAVAILABLE"
      [] reply = "refused" -> "SIGNER_REJECTED"
      [] reply = "signed" -> IF network \in AcceptedBySigner /\ CanSign(network, payload)
                              THEN Nothing ELSE "SIGNER_REJECTED"

-----------------------------------------------------------------------------
(* Broadcasting: of the node, whether the transaction is with it - accepted, its  *)
(* answer lost, without a usable hash, known from before - or rejected            *)

Replies == {"accepted", "lost", "odd", "known", "rejected"}
WithNode(reply) == reply # "rejected"

EvmBroadcast(reply) ==
    CASE reply = "accepted" -> Nothing
      [] reply = "lost"     -> "TIMEOUT"
      [] OTHER              -> "PROVIDER_ERROR"

\* A hash missing from the answer is taken from the payload.
TronBroadcast(reply) ==
    CASE reply \in {"accepted", "odd"} -> Nothing
      [] reply = "lost"                -> "TIMEOUT"
      [] OTHER                         -> "SIGNER_REJECTED"

\* The signer's answer to a TON message has no boc.
TonBroadcast(reply) == "SIGNER_REJECTED"

\* The FallbackProvider asks its first provider only.
Broadcast(network, reply) ==
    CASE network = "bsc"  -> EvmBroadcast(reply)
      [] network = "tron" -> TronBroadcast(reply)
      [] network = "ton"  -> TonBroadcast(reply)

\* assertSendingEnabled to the broadcast: [code, simulated, moved], moved being the
\* payload that is with a node.
Send(env, dbEnabled, network, request, node, signature, reply) ==
    LET payload == Build(env, network, request, node)
        refused == RemoteSign(network, payload, signature)
        End(code, simulated, moved) == [code |-> code, simulated |-> simulated, moved |-> moved]
        real    == ~UseMock(env) /\ WithNode(reply)
    IN  CASE ~(env.sending /\ dbEnabled) -> End("SENDING_DISABLED", FALSE, NoPayload)
          [] OTHER ->
               IF Refusal(network, request) # Nothing THEN End(Refusal(network, request), FALSE, NoPayload)
               ELSE IF payload = NoPayload THEN End("PROVIDER_ERROR", FALSE, NoPayload)
               ELSE IF ~UseRemoteSigner(env) THEN End(Nothing, MockSign(payload).simulated, NoPayload)
               ELSE IF refused # Nothing THEN End(refused, FALSE, NoPayload)
               ELSE End(IF UseMock(env) THEN Nothing ELSE Broadcast(network, reply), FALSE,
                        IF real THEN payload ELSE NoPayload)

\* In a process that starts: a send that succeeds is shown as simulated exactly when
\* nothing moved.  Money never moves while the dashboard says that none can, nor on a
\* mainnet because a variable is absent or misspelt, or without the PIN.  What moves is
\* a TRON transfer, the one asked for if the node built what it was asked; and a failure
\* by the signer's code moved nothing, unless TRON knew the transaction already.
SendIsTruthful(raw, dbEnabled, network, request, node, signature, reply) ==
    LET env == LoadServerConfig(raw)
        s   == Send(env, dbEnabled, network, request, node, signature, reply)
    IN  Issues(env) = {} =>
            /\ s.code = Nothing => (s.simulated <=> (s.moved = NoPayload))
            /\ s.moved # NoPayload /\ env.chain = "mainnet" =>
                 /\ ~SafeModeAlert(env) /\ env.complete
                 /\ raw.sending = "on" /\ raw.pin \in {Absent, "on"} /\ env.cap >= 100
            /\ s.moved # NoPayload =>
                 network = "tron" /\ (node = request => s.moved = Payload("tron", request))
            /\ s.code = "SIGNER_REJECTED" /\ s.moved # NoPayload => reply = "known"
            /\ IsProduction(env) => ~s.simulated

-----------------------------------------------------------------------------
(* Asking about a transaction: [found, succeeded, confirmations] *)

Unknown == [found |-> FALSE, succeeded |-> FALSE, confirmations |-> 0]

\* at: the block, 0 while it has none; seen: whether the node knows it unmined.
EvmStatus(tx, head) ==
    IF tx.at = 0 THEN [Unknown EXCEPT !.found = tx.seen]
    ELSE [found |-> TRUE, succeeded |-> tx.ok, confirmations |-> head - tx.at + 1]

\* A mined transaction without a receipt result is a TRX transfer, which succeeded.
TronStatus(tx, head) ==
    IF tx.at = 0 THEN Unknown
    ELSE [found |-> TRUE, succeeded |-> tx.ok,
          confirmations |-> IF head >= tx.at THEN head - tx.at + 1 ELSE 0]

\* TON is only asked for its head: the transaction is taken for final.
TonStatus(required) == [found |-> TRUE, succeeded |-> TRUE, confirmations |-> required]

\* trackConfirmations
Verdict(status, required) ==
    CASE ~status.found -> Nothing
      [] status.found /\ ~status.succeeded -> "failed"
      [] OTHER -> IF status.confirmations >= required THEN "confirmed" ELSE "confirming"

\* On TRON and EVM a transfer is confirmed when it succeeded `required` blocks deep,
\* never by a head that lags behind its block; and a TRON one fails only in a block.
FinalWhenDeep(tx, head, required) ==
    LET evm == Verdict(EvmStatus(tx, head), required)
        tron == Verdict(TronStatus(tx, head), required)
        Deep == tx.at > 0 /\ tx.ok /\ tx.at + required <= head + 1
    IN  /\ (evm = "confirmed") <=> Deep
        /\ (tron = "confirmed") <=> Deep
        /\ tron = "failed" => tx.at > 0 /\ ~tx.ok
        /\ evm = "failed" => ~tx.ok \/ (tx.at = 0 /\ tx.seen)

=============================================================================
