---------------------------- MODULE SignerService ----------------------------
(***************************************************************************)
(* The signing service (apps/signer) and its client: the HMAC-framed calls *)
(* of RemoteSigner (packages/core/src/signer/index.ts), and the managed    *)
(* wallets that WalletService creates over them.                           *)
(*                                                                         *)
(* The signer keeps its nonces, its spend records and its memory of what   *)
(* it answered in process memory, and its keys in one file that it         *)
(* rewrites whole.  /sign runs without an await, so it is one step;        *)
(* /generate awaits the write of the file, so other requests run while it  *)
(* writes.  A request may reach the signer late or twice, its answer may   *)
(* be lost, and the process may stop at any moment.                        *)
(***************************************************************************)
EXTENDS Integers, FiniteSets, FiniteSetsExt

CONSTANTS
    Calls,        \* RemoteSigner.post calls, each with a nonce of its own
    Intents,      \* idempotency keys of the callers
    Values,       \* USD values of the transfers to sign
    TxCap,        \* SIGNER_MAX_USD_PER_TX
    DayCap,       \* SIGNER_MAX_USD_PER_DAY
    Window,       \* the rolling window of the daily cap
    Skew,         \* MAX_CLOCK_SKEW_MS
    Drift,        \* how far ahead of the signer's clock a client's may be
    MaxSeen,      \* nonces kept before the cache is dropped (50 000)
    MaxProcessed, \* answers kept before they are dropped (10 000)
    Deadline,     \* expiresAt of the transactions to sign
    MaxTime,      \* bound: the clock stops here
    MaxArrivals,  \* bound: how often a request reaches the signer
    MaxStarts     \* bound: how often the signer process starts

ASSUME TimesAssumption  == {Window, Drift, Deadline, MaxTime} \subseteq Nat /\ Skew \in Nat /\ Drift < Skew
ASSUME CapsAssumption   == {TxCap, DayCap} \subseteq Nat /\ Values \subseteq Nat
ASSUME MemoryAssumption == {MaxSeen, MaxProcessed} \subseteq Nat /\ {MaxArrivals, MaxStarts} \subseteq Nat

VARIABLES
    now,
    starts,     \* processes started so far
    up,         \* the current process serves
    keys,       \* Keystore.entries: the addresses whose keys the process holds
    writes,     \* calls to Keystore.persist that have not returned
    file,       \* the keystore file
    seen,       \* NonceCache.seen
    spent,      \* SpendTracker.records
    processed,  \* SpendTracker.processed
    minted,     \* keypairs generated so far
    call,       \* per call: what it asks and how it ended for its caller
    arrivals,   \* history: per call, how often its request reached the signer
    wallets,    \* wallets rows of type 'managed'
    signatures, \* history: everything signed
    handled,    \* history: per call, times handled since the nonces were last lost
    repeats,    \* history: per intent, signatures since the answers were last lost
    damaged     \* history: a write of the file overlapped another or was cut short

memory  == <<keys, seen, spent, processed>>
disk    == <<writes, file, damaged>>
history == <<signatures, handled, repeats, arrivals>>
vars == <<now, starts, up, memory, disk, minted, call, wallets, history>>

----------------------------------------------------------------------------
(* What is asked and what is held *)

Unpriced == 0   \* valueUsdMinor: null

\* Requests for a network or an environment that is not the signer's are refused
\* as the ones over the caps are, and are not told apart from them.
SignRequests     == [path : {"/sign"}, key : Intents, value : Values]
GenerateRequests == [path : {"/generate"}, key : Intents, value : {Unpriced}]
NoRequest == [path |-> "none"]

\* A generated key is named by its address, the n-th one minted.  Address 0 is the
\* TRON key that an operator adds with the keystore CLI before the service starts.
Addresses == Nat
Provisioned == 0

NoAddress == -1
CallStates == {"idle", "sent", "ok", "rejected", "unavailable", "stored"}
Untouched == [state |-> "idle", asked |-> NoRequest, at |-> 0, address |-> NoAddress]

\* The file holds the JSON of a set of entries.  A short text written over a
\* longer one leaves the longer one's tail, which does not parse; no more does
\* an empty file.
Truncated == [text |-> {}, parses |-> FALSE]
Overwrite(f, entries) ==
    [text |-> f.text \cup entries, parses |-> f.text \subseteq entries]

Init ==
    /\ now = 0 /\ starts = 0 /\ up = FALSE
    /\ keys = {} /\ seen = {} /\ spent = {} /\ processed = {}
    /\ writes = {} /\ damaged = FALSE
    /\ file \in [text : SUBSET {Provisioned}, parses : {TRUE}]
    /\ minted = 0
    /\ call = [c \in Calls |-> Untouched]
    /\ wallets = {}
    /\ signatures = {} /\ handled = [c \in Calls |-> 0] /\ arrivals = handled
    /\ repeats = [i \in Intents |-> 0]

Tick ==
    /\ now < MaxTime
    /\ now' = now + 1
    /\ UNCHANGED <<starts, up, memory, disk, minted, call, wallets, history>>

----------------------------------------------------------------------------
(* The client: RemoteSigner.post, WalletService.createManagedEvmWallet *)

\* The envelope carries the client's time and a random nonce.
Post(c, q) ==
    /\ call[c] = Untouched
    /\ \E at \in now..now + Drift :
          call' = [call EXCEPT ![c] = [state |-> "sent", asked |-> q, at |-> at,
                                       address |-> NoAddress]]
    /\ UNCHANGED <<now, starts, up, memory, disk, minted, wallets, history>>

\* No answer within timeoutMs, or none at all: SIGNER_UNAVAILABLE, not retried.
GiveUp(c) ==
    /\ call[c].state = "sent"
    /\ call' = [call EXCEPT ![c].state = "unavailable"]
    /\ UNCHANGED <<now, starts, up, memory, disk, minted, wallets, history>>

\* An answer reaches a caller that still waits for it; one that is lost is one
\* that comes after its caller gave up.
Answer(c, state, address) ==
    call' = IF call[c].state = "sent"
            THEN [call EXCEPT ![c].state = state, ![c].address = address]
            ELSE call

WalletRow(c) == [address |-> call[c].address, key |-> call[c].asked.key]

\* wallets_user_address_idx: a second row of an address is WALLET_ALREADY_EXISTS.
AddressTaken(address) == \E w \in wallets : w.address = address

StoreWallet(c) ==
    /\ call[c].state = "ok" /\ call[c].asked.path = "/generate"
    /\ call' = [call EXCEPT ![c].state = "stored"]
    /\ wallets' = IF AddressTaken(call[c].address) THEN wallets ELSE wallets \cup {WalletRow(c)}
    /\ UNCHANGED <<now, starts, up, memory, disk, minted, history>>

----------------------------------------------------------------------------
(* verifySignedRequest *)

InWindow(c) == call[c].at - Skew <= now /\ now <= call[c].at + Skew

\* NonceCache.evict
Remembered ==
    LET live == {s \in seen : s.until > now}
    IN  IF Cardinality(live) > MaxSeen THEN {} ELSE live

Replayed(c) == \E s \in Remembered : s.nonce = c

\* The nonce of a request that is let in is kept for twice the skew.
ClaimNonce(c) ==
    /\ InWindow(c) /\ ~Replayed(c)
    /\ seen' = Remembered \cup {[nonce |-> c, until |-> now + 2 * Skew]}
    /\ handled' = [d \in Calls |->
                     (IF Remembered = {} /\ \E s \in seen : s.until > now THEN 0 ELSE handled[d])
                     + IF d = c THEN 1 ELSE 0]
    /\ arrivals' = [arrivals EXCEPT ![c] = @ + 1]

Arrives(c) == up /\ call[c] # Untouched /\ arrivals[c] < MaxArrivals

\* 401 outside the window, 409 for a nonce already seen.
Refuse(c) ==
    /\ Arrives(c)
    /\ \/ ~InWindow(c) /\ UNCHANGED seen
       \/ InWindow(c) /\ Replayed(c) /\ seen' = Remembered
    /\ arrivals' = [arrivals EXCEPT ![c] = @ + 1]
    /\ Answer(c, "rejected", NoAddress)
    /\ UNCHANGED <<now, starts, up, keys, spent, processed, disk, minted, wallets,
                   signatures, handled, repeats>>

----------------------------------------------------------------------------
(* SpendTracker, enforceSpendPolicy *)

\* A record, and the signature it stands for: the number tells equal ones apart.
SpendRecord(q) ==
    [n |-> Cardinality(signatures) + 1, at |-> now, value |-> q.value, start |-> starts]

Usd(records) == MapThenSumSet(LAMBDA r : r.value, records)

\* prune: records older than the window leave.
Recent == {r \in spent : r.at >= now - Window}
SpentUsd == Usd(Recent)

Permits(q) ==
    /\ q.value # Unpriced
    /\ q.value <= TxCap
    /\ SpentUsd + q.value <= DayCap

PreviousResult(path, key) == {p \in processed : p.path = path /\ p.key = key}

\* rememberResult: one answer too many drops them all first.
RememberResult(path, key, address) ==
    LET kept == IF Cardinality(processed) > MaxProcessed THEN {} ELSE processed
    IN  processed' = {p \in kept : p.path # path \/ p.key # key}
                       \cup {[path |-> path, key |-> key, address |-> address]}

AnswersDropped == Cardinality(processed) > MaxProcessed

----------------------------------------------------------------------------
(* POST /sign *)

\* Keystore.find for the wallet that transfers leave from
HasKey == Provisioned \in keys

\* Expiry, memory, policy and keystore; none of them changes anything.
Signable(q) ==
    /\ Deadline >= now
    /\ PreviousResult("/sign", q.key) = {}
    /\ Permits(q)
    /\ HasKey

\* Mutant: the result is remembered but not what was spent.
HandleSign_NotRecorded(c) ==
    LET q == call[c].asked IN
    /\ Arrives(c) /\ q.path = "/sign" /\ ClaimNonce(c)
    /\ Signable(q)
    /\ RememberResult("/sign", q.key, NoAddress)
    /\ signatures' = signatures \cup {SpendRecord(q)}
    /\ repeats' = [i \in Intents |-> (IF AnswersDropped THEN 0 ELSE repeats[i])
                                      + IF i = q.key THEN 1 ELSE 0]
    /\ Answer(c, "ok", NoAddress)
    /\ UNCHANGED <<now, starts, up, keys, spent, disk, minted, wallets>>

\* Mutant: the memory is written only when the answer could be delivered.
HandleSign_RemembersDelivered(c) ==
    LET q == call[c].asked IN
    /\ Arrives(c) /\ q.path = "/sign" /\ ClaimNonce(c)
    /\ Signable(q)
    /\ spent' = Recent \cup {SpendRecord(q)}
    /\ signatures' = signatures \cup {SpendRecord(q)}
    /\ repeats' = [i \in Intents |-> repeats[i] + IF i = q.key THEN 1 ELSE 0]
    /\ Answer(c, "ok", NoAddress)
    /\ \/ call[c].state = "sent" /\ RememberResult("/sign", q.key, NoAddress)
       \/ call[c].state # "sent" /\ UNCHANGED processed
    /\ UNCHANGED <<now, starts, up, keys, disk, minted, wallets>>

HandleSign(c) ==
    LET q == call[c].asked IN
    /\ Arrives(c) /\ q.path = "/sign" /\ ClaimNonce(c)
    /\ Signable(q)
    /\ spent' = Recent \cup {SpendRecord(q)}
    /\ RememberResult("/sign", q.key, NoAddress)
    /\ signatures' = signatures \cup {SpendRecord(q)}
    /\ repeats' = [i \in Intents |-> (IF AnswersDropped THEN 0 ELSE repeats[i])
                                      + IF i = q.key THEN 1 ELSE 0]
    /\ Answer(c, "ok", NoAddress)
    /\ UNCHANGED <<now, starts, up, keys, disk, minted, wallets>>

RefuseSign(c) ==
    LET q == call[c].asked IN
    /\ Arrives(c) /\ q.path = "/sign" /\ ClaimNonce(c)
    /\ ~Signable(q)
    /\ Answer(c, "rejected", NoAddress)
    /\ UNCHANGED <<now, starts, up, keys, spent, processed, disk, minted, wallets,
                   signatures, repeats>>

----------------------------------------------------------------------------
(* POST /generate *)

\* A key answered before gets its address again.
GenerateAtOnce(c) ==
    LET q == call[c].asked IN
    /\ Arrives(c) /\ q.path = "/generate" /\ ClaimNonce(c)
    /\ \E p \in PreviousResult("/generate", q.key) : Answer(c, "ok", p.address)
    /\ UNCHANGED <<now, starts, up, keys, spent, processed, disk, minted, wallets,
                   signatures, repeats>>

\* Keystore.add: all the entries that the file will hold
WithKey(address) == keys \cup {address}

\* A fresh key joins the entries, and the file is to be rewritten with all of them.
Generate(c) ==
    LET q == call[c].asked
        address == minted + 1
    IN
    /\ Arrives(c) /\ q.path = "/generate" /\ ClaimNonce(c)
    /\ PreviousResult("/generate", q.key) = {}
    /\ minted' = address
    /\ keys' = WithKey(address)
    /\ writes' = writes \cup {[call |-> c, address |-> address, entries |-> WithKey(address),
                               opened |-> FALSE]}
    /\ damaged' = (damaged \/ writes # {})
    /\ UNCHANGED <<now, starts, up, spent, processed, file, call, wallets, signatures, repeats>>

\* writeFile opens the file, which empties it.
OpenFile(w) ==
    /\ ~w.opened
    /\ file' = Truncated
    /\ writes' = (writes \ {w}) \cup {[w EXCEPT !.opened = TRUE]}
    /\ UNCHANGED <<now, starts, up, memory, damaged, minted, call, wallets, history>>

\* Mutant: the address is given out before the file is written.
WriteFails_AnswersAnyway(w) ==
    /\ writes' = writes \ {w}
    /\ damaged' = (damaged \/ w.opened)
    /\ Answer(w.call, "ok", w.address)
    /\ UNCHANGED <<now, starts, up, memory, file, minted, wallets, history>>

\* The disk refuses: the entry stays in memory, and the caller gets an error.
WriteFails(w) ==
    /\ writes' = writes \ {w}
    /\ damaged' = (damaged \/ w.opened)
    /\ Answer(w.call, "unavailable", NoAddress)
    /\ UNCHANGED <<now, starts, up, memory, file, minted, wallets, history>>

\* The write returns: the address is remembered and given out.
WriteEnds(w) ==
    /\ w.opened
    /\ file' = Overwrite(file, w.entries)
    /\ writes' = writes \ {w}
    /\ RememberResult("/generate", call[w.call].asked.key, w.address)
    /\ repeats' = IF AnswersDropped THEN [i \in Intents |-> 0] ELSE repeats
    /\ Answer(w.call, "ok", w.address)
    /\ UNCHANGED <<now, starts, up, keys, seen, spent, damaged, minted, wallets, signatures, handled, arrivals>>

----------------------------------------------------------------------------
(* The process *)

\* Keystore.load, which fails on a file that does not parse
Loadable == file.parses

\* A process that cannot load the keystore exits at once.
Start ==
    /\ ~up /\ starts < MaxStarts /\ Loadable
    /\ up' = TRUE /\ starts' = starts + 1
    /\ keys' = file.text
    /\ UNCHANGED <<now, seen, spent, processed, disk, minted, call, wallets, history>>

\* A deployment, a crash: the memory is gone, a write that has opened the file is
\* cut short.
Stop ==
    /\ up /\ up' = FALSE
    /\ keys' = {} /\ seen' = {} /\ spent' = {} /\ processed' = {}
    /\ handled' = [c \in Calls |-> 0] /\ repeats' = [i \in Intents |-> 0]
    /\ writes' = {}
    /\ damaged' = (damaged \/ \E w \in writes : w.opened)
    /\ UNCHANGED <<now, starts, file, minted, call, wallets, signatures, arrivals>>

Next ==
    \/ Tick \/ Start \/ Stop
    \/ \E c \in Calls :
          \/ \E q \in SignRequests \cup GenerateRequests : Post(c, q)
          \/ GiveUp(c) \/ StoreWallet(c)
          \/ Refuse(c) \/ HandleSign(c) \/ RefuseSign(c)
          \/ GenerateAtOnce(c) \/ Generate(c)
    \/ \E w \in writes : OpenFile(w) \/ WriteEnds(w) \/ WriteFails(w)

Spec == Init /\ [][Next]_vars

----------------------------------------------------------------------------
(* Properties *)

\* What the service, its callers and the database keep has its type: no address is
\* held, written, remembered or given out that was not minted.
Paths == {"/sign", "/generate"}
TypeOK ==
    /\ now \in 0..MaxTime /\ starts \in 0..MaxStarts /\ up \in BOOLEAN /\ minted \in Nat
    /\ keys \subseteq 0..minted
    /\ writes \subseteq [call : Calls, address : 1..minted, entries : SUBSET (0..minted),
                         opened : BOOLEAN]
    /\ file \in [text : SUBSET (0..minted), parses : BOOLEAN] /\ damaged \in BOOLEAN
    /\ seen \subseteq [nonce : Calls, until : Nat]
    /\ processed \subseteq [path : Paths, key : Intents, address : {NoAddress} \cup 1..minted]
    /\ call \in [Calls -> [state : CallStates, asked : SignRequests \cup GenerateRequests \cup {NoRequest},
                           at : Nat, address : {NoAddress} \cup 1..minted]]
    /\ wallets \subseteq [address : 1..minted, key : Intents]
    /\ signatures \subseteq [n : Nat, at : 0..MaxTime, value : Values, start : 0..MaxStarts]
    /\ IsFiniteSet(signatures) /\ spent \subseteq signatures
    /\ {handled, arrivals} \subseteq [Calls -> Nat] /\ repeats \in [Intents -> Nat]

\* A request that arrives late or twice is handled once while its nonce is kept, and
\* the signer signs once per idempotency key for as long as it keeps its answers,
\* whichever calls carry the key and whatever became of the earlier answer.
SignedOnce ==
    /\ \A c \in Calls : handled[c] <= 1
    /\ \A i \in Intents : repeats[i] <= 1

\* One process signs no more than the daily cap within any window of time.
DailyCapHolds ==
    \A s \in signatures :
        LET within == {t \in signatures : t.start = s.start /\ t.at \in (s.at - Window)..s.at}
        IN  Usd(within) <= DayCap

\* The key of every address given out is held by the process and kept in the file,
\* unless writes of the file overlapped or one was cut short.
GivenOut == {w.address : w \in wallets}
              \cup {call[c].address : c \in {d \in Calls : call[d].address # NoAddress}}
KeysKept ==
    ~damaged => /\ up => GivenOut \subseteq keys
                /\ (\A w \in writes : ~w.opened) => file.parses /\ GivenOut \subseteq file.text

=============================================================================
