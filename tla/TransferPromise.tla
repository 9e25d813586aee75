--------------------------- MODULE TransferPromise ---------------------------
(***************************************************************************)
(* What the transfer pipeline promises about money, with no mention of     *)
(* handlers, statuses, signers or retries: under one idempotency key funds *)
(* move at most once, only after the user authorised it, and never once    *)
(* the request was withdrawn.  Nothing is promised about a request that    *)
(* was authorised and then given up on: its transfer may still execute.    *)
(***************************************************************************)
EXTENDS Naturals

CONSTANT Keys

VARIABLES standing,  \* per key: what the user has decided about it
          transfers  \* per key: transfers executed on chain

promiseVars == <<standing, transfers>>

Open == /\ standing = [k \in Keys |-> "open"]
        /\ transfers = [k \in Keys |-> 0]

Authorise(k) ==
    /\ standing[k] = "open"
    /\ standing' = [standing EXCEPT ![k] = "authorised"]
    /\ UNCHANGED transfers

\* Several requests may be withdrawn at once: stale quotes expire in batches.
WithdrawAll(S) ==
    /\ \A k \in S : /\ standing[k] \in {"open", "authorised"}
                    /\ transfers[k] = 0
    /\ standing' = [k \in Keys |-> IF k \in S THEN "withdrawn" ELSE standing[k]]
    /\ UNCHANGED transfers

Transfer(k) ==
    /\ standing[k] = "authorised"
    /\ transfers[k] = 0
    /\ transfers' = [transfers EXCEPT ![k] = 1]
    /\ UNCHANGED standing

Keep == \/ \E k \in Keys : Authorise(k) \/ Transfer(k)
        \/ \E S \in SUBSET Keys : WithdrawAll(S)

Promise == Open /\ [][Keep]_promiseVars
=============================================================================
