---------------------------- MODULE MCChainSync ----------------------------
(* Instances of ChainSync for TLC: one wallet, on each of the networks; and the  *)
(* inputs over which the functions of Providers are evaluated.                   *)
EXTENDS ChainSync, Providers, TLC

Tr == INSTANCE Transfers

Symmetry == Permutations(Scanners) \cup Permutations(Walkers) \cup Permutations(Incoming)

BreakerOptions == {[failureThreshold |-> 2, cooldown |-> 3], [failureThreshold |-> 3, cooldown |-> 2]}
Endings    == {"ok", CodeOf["silent"], CodeOf["throttled"], "INVALID_ADDRESS"}
Chains   == [supportsEip1559 : BOOLEAN, fallbackGasPriceWei : {3}, maxGasPriceWei : {10}]
Nodes    == [price : {Fails, 0, 1, 10, 11}, estimate : {Fails, 0, 1, 79999, 240000, 240001},
             balance : {21003, 63000, 100000, 210001, 299998, 300000, 3000000, 6000000}]

\* Every environment, and every answer of a node and of the signer to a send.
Environments ==
    {raw \in [app : {"development", "staging", "production"}, chain : {"mainnet", "testnet"},
              mock : {Tr!Absent, "on", "no"}, sending : {Tr!Absent, "on", "no"},
              pin : {Tr!Absent, "on", "no"}, signer : {"mock", "remote"}, hmac : BOOLEAN,
              keys : BOOLEAN, complete : BOOLEAN, cap : {0}, fx : {<<"erapi", "erapi">>}] : Tr!Issues(Tr!Parsed(raw)) = {}}
Requests == {[from |-> "a", to |-> to, amount |-> n] : to \in {"a", "b", Tr!ZeroAddress}, n \in 0..1}
Answered == {Tr!NoAnswer} \cup {[from |-> "a", to |-> to, amount |-> 1] : to \in {"b", "c"}}

TransfersHold ==
    /\ \A raw \in Environments, on \in BOOLEAN, net \in Tr!Covered, request \in Requests,
          node \in Answered, signature \in {"signed", "refused", "silent"}, reply \in Tr!Replies :
          Tr!SendIsTruthful(raw, on, net, request, node, signature, reply)
    /\ \A tx \in [at : 0..3, ok : BOOLEAN, seen : BOOLEAN], head \in 0..6, required \in 1..3 :
          Tr!FinalWhenDeep(tx, head, required)

ProvidersHold ==
    /\ TransfersHold
    /\ \A options \in BreakerOptions, seen \in [1..7 -> Endings \cup {"begin"}] :
          PassedOverWhenDead(seen, 1, options)
    /\ \A options \in BreakerOptions, reads \in [1..4 -> [1..2 -> Endings]], step \in 1..2 :
          FailsOver(2, reads, step, options)
    /\ \A gas \in Chains, isToken \in BOOLEAN, amount \in 0..3, node \in Nodes :
          FeesBounded(gas, isToken, amount, node)
    /\ \A cached \in [{"usdt", "usdc", "off"} -> 0..1], held \in [{"usdt", "usdc"} -> 1..2],
          failing \in SUBSET {"usdt", "usdc"},
          listing \in UNION {[1..n -> {"usdt", "usdc", "fake"} \X {Fails, 1, 2}] : n \in 0..2} :
          (\A i, j \in DOMAIN listing :
              /\ listing[i][1] \in DOMAIN held =>
                    listing[i][2] \in {Fails, held[listing[i][1]]}
              /\ i # j => listing[i][1] # listing[j][1])
          => ReconcileSound(cached, held,
                 [a \in DOMAIN held |-> IF a \in failing THEN Fails ELSE held[a]], listing)

AsksOnce == simulates /\ network = (CHOOSE n \in Networks : TRUE) /\ Init

\* However reads overlap and nodes answer: the breaker passes over a provider exactly
\* while it is dead, reads fail over, fees are bounded and paid for, and reconciling
\* invents nothing; what a send reports is what moved.  No state matters to these
\* functions: one initial state asks.
ProvidersSound == AsksOnce => ProvidersHold
============================================================================
