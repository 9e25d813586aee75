--------------------------- MODULE ChainSyncProofs ---------------------------
(***************************************************************************)
(* Proofs about ChainSync, for every wallet, number of scans and walkers,  *)
(* page size, depth and choice of faults.                                  *)
(*                                                                         *)
(* Rows and answers (IInv): a walker's answer may be old by the time it is *)
(* written, but what makes a transfer final stays true as the chain grows  *)
(* (AnswersHold), because a transaction is mined once (MinedOnce); and a   *)
(* settled row admits no other outcome, so that rows and notices agree.    *)
(* This part does not depend on what the listings return.                  *)
(*                                                                         *)
(* Counting (Books): a listing is in order and lists movements of the      *)
(* chain, each numbered by its transaction (Numbered), so that the two     *)
(* gates, which look at transaction and number, let a movement through     *)
(* once; what went through has a row (CountedHasRow).                      *)
(*                                                                         *)
(* The last sections are about what stands between a service and a chain:  *)
(* fees, the breaker, failing over and reconciling (module Providers), and *)
(* a transfer from the configuration to its status (module Transfers).     *)
(* The run's formula (module MCChainSync) is an instance of these.         *)
(***************************************************************************)
EXTENDS MCChainSync, FiniteSetTheorems, WellFoundedInduction, TLAPS

Answers == [key : Listable, verdict : Settled \cup {"confirming"}]

\* The types of the chain, the rows and the walkers.
RowTypes ==
    /\ chain \in Seq([tx : Hashes \cup {None}, ok : BOOLEAN])
    /\ row \in [Keys -> {"none", "pending"} \cup InFlight \cup Settled]
    /\ walk \in [Walkers -> Answers \cup {Resting}]

\* A transaction is mined once.
MinedOnce ==
    \A m, n \in DOMAIN chain : chain[m].tx # None /\ chain[m].tx = chain[n].tx => m = n

Final(h) == Moved(h) /\ Confirmations(h) >= Required

\* A walker that is about to confirm a row is right to do so.
AnswersHold ==
    \A w \in Walkers : walk[w] # Resting /\ walk[w].verdict = "confirmed" /\ network # "ton"
        => Final(walk[w].key.tx)

IInv == RowTypes /\ MinedOnce /\ ToldTheTruth /\ AnswersHold /\ ConfirmedIsFinal

USE HashesAssumption, BoundsAssumption
USE DEF InFlight, Settled, Hashes, Answers, ledger, fixed

\* There is no row, no block and no answer.
LEMMA InitIInv == Init => IInv
<1>. SUFFICES ASSUME Init PROVE IInv
  OBVIOUS
<1>1. RowTypes /\ MinedOnce /\ AnswersHold
  BY DEF Init, RowTypes, MinedOnce, AnswersHold
<1>2. \A k \in Keys : row[k] = "none"
  BY DEF Init
<1>3. ToldTheTruth /\ ConfirmedIsFinal
  BY <1>2 DEF Init, ToldTheTruth, ConfirmedIsFinal, Keys
<1>. QED BY <1>1, <1>3 DEF IInv

\* Steps of scans and administrators that touch neither chain, rows, notices nor
\* walkers keep the invariant.
LEMMA Elsewhere == ASSUME IInv, UNCHANGED <<network, chain, row, notices, walk>> PROVE IInv'
BY DEF IInv, RowTypes, MinedOnce, ToldTheTruth, AnswersHold, ConfirmedIsFinal, Final, Moved,
       Mined, Confirmations, Height

\* A transaction that was final stays final when a block is mined.
LEMMA FinalStays ==
    ASSUME IInv, NEW g \in Hashes, Final(g), NEW h, NEW ok \in BOOLEAN, Mine(h, ok),
           h \in Hashes \cup {None}
    PROVE  Final(g)'
<1>1. /\ chain' = Append(chain, [tx |-> h, ok |-> ok])
      /\ h # None => ~Mined(h)
      /\ Len(chain) \in Nat /\ Len(chain') = Len(chain) + 1
      /\ DOMAIN chain = 1..Len(chain) /\ DOMAIN chain' = 1..(Len(chain) + 1)
      /\ \A n \in DOMAIN chain : chain'[n] = chain[n]
      /\ chain'[Len(chain) + 1] = [tx |-> h, ok |-> ok]
  BY DEF Mine, IInv, RowTypes
<1>2. PICK n \in DOMAIN chain : chain[n] = [tx |-> g, ok |-> TRUE]
  BY DEF Final, Moved
<1>3. g # None /\ g # h
  BY <1>1, <1>2 DEF Mined
<1>4. /\ \A m \in DOMAIN chain : chain[m].tx = g => m = n
      /\ \A m \in DOMAIN chain' : chain'[m].tx = g => m = n
  BY SMT, <1>1, <1>2, <1>3 DEF IInv, MinedOnce
<1>5. Height(g) = n /\ Height(g)' = n
  BY <1>1, <1>2, <1>4 DEF Height
<1>6. Mined(g) /\ Mined(g)' /\ Moved(g)'
  <2>1. chain[n].tx = g /\ n \in DOMAIN chain' /\ chain'[n] = chain[n]
    BY <1>1, <1>2
  <2>. QED BY <1>2, <2>1 DEF Mined, Moved
<1>. QED BY SMT, <1>1, <1>2, <1>5, <1>6 DEF Final, Confirmations

\* A block is mined.
LEMMA MineStep ==
    ASSUME IInv, NEW h \in Hashes \cup {None}, NEW ok \in BOOLEAN, Mine(h, ok) PROVE IInv'
<1>1. RowTypes' /\ ToldTheTruth'
  BY DEF Mine, IInv, RowTypes, ToldTheTruth
<1>2. MinedOnce'
  BY SMT DEF Mine, IInv, RowTypes, MinedOnce, Mined
<1>3. AnswersHold'
  BY FinalStays DEF Mine, IInv, RowTypes, AnswersHold, Resting, Listable
<1>4. ConfirmedIsFinal'
  <2>1. \A k \in Listable :
            row'[k] = "confirmed" /\ network' # "ton" => Final(k.tx) /\ k.tx \in Hashes
    BY DEF Mine, IInv, ConfirmedIsFinal, Final, Listable
  <2>. QED BY <2>1, FinalStays DEF ConfirmedIsFinal, Final
<1>. QED BY <1>1, <1>2, <1>3, <1>4 DEF IInv

\* A row that is inserted is detected or pending, and announced neither as confirmed nor as
\* failed.
LEMMA NewRow ==
    ASSUME IInv, UNCHANGED <<network, chain, walk>>,
           row' \in [Keys -> {"none", "pending"} \cup InFlight \cup Settled],
           \A k \in Keys : row'[k] = row[k] \/ (row[k] = "none" /\ row'[k] \in {"detected", "pending"}),
           \A v \in Settled, k \in Keys : <<v, k>> \in notices' <=> <<v, k>> \in notices
    PROVE  IInv'
<1>1. RowTypes' /\ MinedOnce' /\ AnswersHold'
  BY DEF IInv, RowTypes, MinedOnce, AnswersHold, Final, Moved, Mined, Confirmations, Height
<1>2. ToldTheTruth'
  BY DEF IInv, ToldTheTruth
<1>3. ConfirmedIsFinal'
  <2>1. \A k \in Listable : row'[k] = "confirmed" => row[k] = "confirmed"
    BY DEF Keys
  <2>2. \A k \in Listable : Final(k.tx)' <=> Final(k.tx)
    BY DEF Final, Moved, Mined, Confirmations, Height
  <2>. QED BY <2>1, <2>2 DEF IInv, ConfirmedIsFinal, Final
<1>. QED BY <1>1, <1>2, <1>3 DEF IInv

\* The send pipeline records a transfer once.
LEMMA RecordSendStep == ASSUME IInv, NEW h \in Own, RecordSend(h) PROVE IInv'
<1>1. row' = [row EXCEPT ![Sends(h)] = "detected"] /\ row[Sends(h)] = "none"
  BY DEF RecordSend
<1>2. UNCHANGED <<network, chain, walk, notices>>
  BY DEF RecordSend
<1>. QED BY <1>1, <1>2, NewRow DEF IInv, RowTypes

\* So it does a simulated one.
LEMMA RecordSimulatedStep ==
    ASSUME IInv, NEW h \in Simulated, NEW status, RecordSimulated(h, status) PROVE IInv'
<1>1. /\ row' = [row EXCEPT ![Sends(h)] = status] /\ row[Sends(h)] = "none"
      /\ status \in {"detected", "pending"}
  BY DEF RecordSimulated
<1>2. UNCHANGED <<network, chain, walk, notices>>
  BY DEF RecordSimulated
<1>. QED BY <1>1, <1>2, NewRow DEF IInv, RowTypes

\* A scan records a transfer once, and announces that it moved.
LEMMA IngestStep == ASSUME IInv, NEW s \in Scanners, Ingest(s) PROVE IInv'
<1>1. PICK k : /\ row' = IF IsNew(k) THEN [row EXCEPT ![k] = "detected"] ELSE row
               /\ notices' = IF IsNew(k) THEN notices \cup {<<"moved", k>>} ELSE notices
               /\ UNCHANGED <<network, chain, walk>>
  BY DEF Ingest
<1>2. /\ row' \in [Keys -> {"none", "pending"} \cup InFlight \cup Settled]
      /\ \A j \in Keys : row'[j] = row[j] \/ (row[j] = "none" /\ row'[j] \in {"detected", "pending"})
  BY <1>1 DEF IsNew, IInv, RowTypes
<1>3. \A v \in Settled, j \in Keys : <<v, j>> \in notices' <=> <<v, j>> \in notices
  BY <1>1
<1>. QED BY <1>1, <1>2, <1>3, NewRow

\* The provider confirms only what is final.
LEMMA CheckRowStep ==
    ASSUME IInv, NEW w \in Walkers, NEW k \in Keys, CheckRow(w, k) PROVE IInv'
<1>1. PICK v \in Verdicts(k.tx) \ {None} : walk' = [walk EXCEPT ![w] = [key |-> k, verdict |-> v]]
  BY DEF CheckRow
<1>2. /\ v \in Settled \cup {"confirming"} /\ k \in Listable
      /\ v = "confirmed" /\ network # "ton" => Final(k.tx)
  BY <1>1 DEF Verdicts, Final, CheckRow
<1>3. UNCHANGED <<network, chain, row, notices>>
  BY DEF CheckRow
<1>. DEFINE x == [key |-> k, verdict |-> v]
<1>5. x \in Answers /\ x.key = k /\ x.verdict = v /\ walk' = [walk EXCEPT ![w] = x]
  BY <1>1, <1>2
<1>. HIDE DEF x
<1>6. /\ walk' \in [Walkers -> Answers \cup {Resting}]
      /\ \A u \in Walkers : walk'[u] = IF u = w THEN x ELSE walk[u]
  BY <1>5 DEF IInv, RowTypes
<1>4. RowTypes' /\ AnswersHold'
  BY <1>2, <1>3, <1>5, <1>6 DEF IInv, RowTypes, AnswersHold, Final, Moved, Mined, Confirmations, Height
<1>. QED BY <1>3, <1>4 DEF IInv, MinedOnce, ToldTheTruth, ConfirmedIsFinal, Moved, Mined,
                          Confirmations, Height

\* The answer is written if the row still admits it.
LEMMA SettleRowStep == ASSUME IInv, NEW w \in Walkers, SettleRow(w) PROVE IInv'
<1>. DEFINE k == walk[w].key
            v == walk[w].verdict
<1>1. /\ k \in Listable /\ v \in Settled \cup {"confirming"} /\ walk[w] # Resting
      /\ k \in Keys /\ k.tx \notin Simulated
  BY DEF SettleRow, IInv, RowTypes, Listable, Keys
<1>2. /\ UNCHANGED <<network, chain>>
      /\ walk' = [walk EXCEPT ![w] = Resting]
      /\ \/ UNCHANGED <<row, notices>>
         \/ /\ Admits(row[k], v) /\ row' = [row EXCEPT ![k] = v]
            /\ notices' = IF v \in Settled THEN notices \cup {<<v, k>>} ELSE notices
  BY DEF SettleRow
<1>3. RowTypes' /\ MinedOnce'
  BY <1>1, <1>2 DEF IInv, RowTypes, MinedOnce
<1>4. ToldTheTruth'
  <2>. SUFFICES ASSUME NEW j \in Keys, NEW u \in Settled
                PROVE  <<u, j>> \in notices' <=> row'[j] = u /\ j.tx \notin Simulated
    BY DEF ToldTheTruth
  <2>1. <<u, j>> \in notices <=> row[j] = u /\ j.tx \notin Simulated
    BY DEF IInv, ToldTheTruth
  <2>2. CASE UNCHANGED <<row, notices>>
    BY <2>1, <2>2
  <2>3. CASE /\ Admits(row[k], v) /\ row' = [row EXCEPT ![k] = v]
             /\ notices' = IF v \in Settled THEN notices \cup {<<v, k>>} ELSE notices
    <3>1. <<u, j>> \in notices' <=> <<u, j>> \in notices \/ (u = v /\ j = k)
      BY <2>3
    <3>2. row'[j] = IF j = k THEN v ELSE row[j]
      BY <2>3, <1>1 DEF IInv, RowTypes
    <3>. QED BY <1>1, <2>1, <2>3, <3>1, <3>2 DEF Admits
  <2>. QED BY <1>2, <2>2, <2>3
<1>5. AnswersHold'
  BY <1>1, <1>2 DEF IInv, RowTypes, AnswersHold, Final, Moved, Mined, Confirmations, Height
<1>6. ConfirmedIsFinal'
  <2>. SUFFICES ASSUME NEW j \in Listable, row'[j] = "confirmed", network # "ton"
                PROVE  Moved(j.tx)' /\ (Confirmations(j.tx) >= Required)'
    BY <1>2 DEF ConfirmedIsFinal
  <2>1. Moved(j.tx)' = Moved(j.tx) /\ Confirmations(j.tx)' = Confirmations(j.tx)
    BY <1>2 DEF Moved, Mined, Confirmations, Height
  <2>2. CASE row[j] = "confirmed"
    BY <2>1, <2>2 DEF IInv, ConfirmedIsFinal
  <2>3. CASE row[j] # "confirmed"
    <3>1. j = k /\ v = "confirmed"
      BY <1>1, <1>2, <2>3 DEF IInv, RowTypes, Keys
    <3>2. walk[w].key = j /\ walk[w].verdict = "confirmed"
      BY <3>1
    <3>3. Final(j.tx)
      BY <1>1, <3>2 DEF IInv, AnswersHold
    <3>. QED BY <2>1, <3>3 DEF Final
  <2>. QED BY <2>2, <2>3
<1>. QED BY <1>3, <1>4, <1>5, <1>6 DEF IInv

\* A simulated row is confirmed, and nobody told.
LEMMA ConfirmSimulatedStep == ASSUME IInv, NEW k \in Keys, ConfirmSimulated(k) PROVE IInv'
<1>1. /\ row' = [row EXCEPT ![k] = "confirmed"] /\ k.tx \in Simulated /\ k \notin Listable
      /\ UNCHANGED <<network, chain, walk, notices>>
  BY DEF ConfirmSimulated, Listable
<1>2. /\ row' \in [Keys -> {"none", "pending"} \cup InFlight \cup Settled]
      /\ \A j \in Keys : j # k => row'[j] = row[j]
  BY <1>1 DEF IInv, RowTypes
<1>3. RowTypes' /\ MinedOnce' /\ AnswersHold'
  BY <1>1, <1>2 DEF IInv, RowTypes, MinedOnce, AnswersHold, Final, Moved, Mined, Confirmations, Height
<1>4. ToldTheTruth'
  BY <1>1, <1>2 DEF IInv, ToldTheTruth
<1>5. ConfirmedIsFinal'
  <2>1. \A j \in Listable : j \in Keys /\ row'[j] = row[j]
    BY <1>1, <1>2 DEF Keys
  <2>2. \A h : Moved(h)' = Moved(h) /\ Confirmations(h)' = Confirmations(h)
    BY <1>1 DEF Moved, Mined, Confirmations, Height
  <2>3. \A j \in Listable : row[j] = "confirmed" /\ network # "ton"
            => Moved(j.tx) /\ Confirmations(j.tx) >= Required
    BY DEF IInv, ConfirmedIsFinal
  <2>. QED BY <1>1, <2>1, <2>2, <2>3 DEF ConfirmedIsFinal
<1>. QED BY <1>3, <1>4, <1>5 DEF IInv

\* The walker gives up: its answer is gone.
LEMMA WalkStopsStep == ASSUME IInv, NEW w \in Walkers, WalkStops(w) PROVE IInv'
<1>1. UNCHANGED <<network, chain, row, notices>> /\ walk' = [walk EXCEPT ![w] = Resting]
  BY DEF WalkStops
<1>2. RowTypes' /\ MinedOnce' /\ AnswersHold'
  BY <1>1 DEF IInv, RowTypes, MinedOnce, AnswersHold, Final, Moved, Mined, Confirmations, Height
<1>3. ToldTheTruth'
  BY <1>1 DEF IInv, ToldTheTruth
<1>4. ConfirmedIsFinal'
  <2>1. \A h : Moved(h)' = Moved(h) /\ Confirmations(h)' = Confirmations(h)
    BY <1>1 DEF Moved, Mined, Confirmations, Height
  <2>. QED BY <1>1, <2>1 DEF IInv, ConfirmedIsFinal
<1>. QED BY <1>2, <1>3, <1>4 DEF IInv

\* Every action keeps the invariant.
LEMMA NextIInv == IInv /\ [Next]_vars => IInv'
<1>. SUFFICES ASSUME IInv, [Next]_vars PROVE IInv'
  OBVIOUS
<1>1. ASSUME NEW s \in Scanners, StartScan(s) \/ ListPage(s) \/ FinishScan(s) \/ ScanStops(s)
      PROVE  IInv'
  BY <1>1, Elsewhere DEF StartScan, ListPage, FinishScan, ScanStops
<1>2. CASE RescanWallet
  BY <1>2, Elsewhere DEF RescanWallet
<1>3. CASE UNCHANGED vars
  BY <1>3, Elsewhere DEF vars
<1>4. ASSUME Mine(None, TRUE) \/ (\E h \in Hashes : Mine(h, TRUE)) \/ (\E h \in Own : Mine(h, FALSE))
      PROVE  IInv'
  BY <1>4, MineStep
<1>. QED BY <1>1, <1>2, <1>3, <1>4, RecordSendStep, RecordSimulatedStep, IngestStep, CheckRowStep,
            SettleRowStep, ConfirmSimulatedStep, WalkStopsStep DEF Next, ScanStep

----------------------------------------------------------------------------
(* Listings: the heights of a page are heights of the chain, in order. *)

\* A set of numbers has a least one.
LEMMA LeastNumber ==
    ASSUME NEW S, S \subseteq Nat, S # {}
    PROVE  \E i \in S : \A j \in S : i <= j
<1>1. PICK i \in S : \A j \in S : <<j, i>> \notin OpToRel(<, Nat)
  BY WFMin, NatLessThanWellFounded
<1>2. ASSUME NEW j \in S PROVE i <= j
  <2>1. <<j, i>> \notin {ss \in Nat \X Nat : ss[1] < ss[2]}
    BY <1>1 DEF OpToRel
  <2>2. i \in Nat /\ j \in Nat
    OBVIOUS
  <2>. QED BY <2>1, <2>2
<1>. QED BY <1>2

Sorted(S, s) == s \in [1..Cardinality(S) -> S] /\ \A i, j \in DOMAIN s : i < j => s[i] < s[j]

\* The least height goes before the rest in order.
LEMMA SortedGrows ==
    ASSUME NEW S, S \subseteq Nat, IsFiniteSet(S), NEW m \in S, \A j \in S : m <= j,
           NEW t, Sorted(S \ {m}, t)
    PROVE  \E s : Sorted(S, s)
<1>. DEFINE n == Cardinality(S)
            s == [i \in 1..n |-> IF i = 1 THEN m ELSE t[i - 1]]
<1>1. n \in Nat \ {0} /\ Cardinality(S \ {m}) = n - 1
  BY FS_RemoveElement, FS_CardinalityType, FS_EmptySet
<1>2. t \in [1..(n - 1) -> S \ {m}] /\ \A i, j \in 1..(n - 1) : i < j => t[i] < t[j]
  BY <1>1 DEF Sorted
<1>. HIDE DEF n
<1>3. ASSUME NEW i \in 1..n
      PROVE  s[i] \in S /\ s[i] = IF i = 1 THEN m ELSE t[i - 1]
  <2>1. i # 1 => i - 1 \in 1..(n - 1)
    BY <1>1
  <2>2. i # 1 => t[i - 1] \in S \ {m}
    BY <1>2, <2>1
  <2>. QED BY <2>2
<1>4. ASSUME NEW i \in 1..n, NEW j \in 1..n, i < j PROVE s[i] < s[j]
  <2>1. j # 1 /\ j - 1 \in 1..(n - 1) /\ s[j] = t[j - 1] /\ s[j] \in S \ {m}
    BY <1>1, <1>2, <1>3, <1>4
  <2>2. CASE i = 1
    <3>1. s[i] = m /\ m \in Nat /\ s[j] \in Nat /\ m <= s[j] /\ m # s[j]
      BY <1>3, <2>1, <2>2
    <3>. HIDE DEF s
    <3>. QED BY <3>1
  <2>3. CASE i # 1
    <3>1. i - 1 \in 1..(n - 1) /\ i - 1 < j - 1 /\ s[i] = t[i - 1]
      BY <1>1, <1>3, <1>4, <2>3
    <3>. QED BY <1>2, <2>1, <3>1
  <2>. QED BY <2>2, <2>3
<1>5. s \in [1..n -> S] /\ DOMAIN s = 1..n
  BY <1>3
<1>. QED BY <1>4, <1>5 DEF Sorted, n

\* Every finite set of heights can be put in order: there is no smallest exception.
LEMMA CanBeSorted ==
    ASSUME NEW S, S \subseteq Nat, IsFiniteSet(S)
    PROVE  \E s : Sorted(S, s)
<1>. DEFINE Unsortable(T) == T \subseteq Nat /\ IsFiniteSet(T) /\ ~\E s : Sorted(T, s)
            sizes == {n \in Nat : \E T : Unsortable(T) /\ Cardinality(T) = n}
<1>. SUFFICES ASSUME Unsortable(S) PROVE FALSE
  OBVIOUS
<1>1. Cardinality(S) \in sizes
  BY FS_CardinalityType
<1>2. PICK n \in sizes : \A k \in sizes : n <= k
  <2>1. sizes \subseteq Nat /\ sizes # {}
    BY <1>1
  <2>. HIDE DEF sizes
  <2>. QED BY <2>1, LeastNumber
<1>3. PICK T : Unsortable(T) /\ Cardinality(T) = n
  BY <1>2
<1>4. T # {}
  <2>1. Sorted({}, [i \in 1..0 |-> 0])
    BY FS_EmptySet DEF Sorted
  <2>. QED BY <1>3, <2>1
<1>5. PICK m \in T : \A j \in T : m <= j
  BY <1>3, <1>4, LeastNumber
<1>6. /\ T \ {m} \subseteq Nat /\ IsFiniteSet(T \ {m})
      /\ Cardinality(T \ {m}) \in Nat /\ Cardinality(T \ {m}) = n - 1
  BY <1>3, <1>5, FS_RemoveElement, FS_CardinalityType
<1>7. PICK t : Sorted(T \ {m}, t)
  <2>1. n \in Nat /\ n - 1 \notin sizes
    BY <1>2, <1>6
  <2>. QED BY <1>6, <2>1
<1>. QED BY <1>3, <1>5, <1>7, SortedGrows

\* Listed upwards or downwards, and cut off at the page size.
LEMMA Listed ==
    ASSUME NEW S, S \subseteq Nat, IsFiniteSet(S)
    PROVE  /\ Up(S) \in Seq(S) /\ Len(Up(S)) = Cardinality(S)
           /\ Down(S) \in Seq(S) /\ Len(Down(S)) = Cardinality(S)
<1>1. Sorted(S, Up(S))
  <2>1. Up(S) = CHOOSE s : Sorted(S, s)
    BY DEF Up, Sorted
  <2>. QED BY CanBeSorted, <2>1
<1>2. Cardinality(S) \in Nat
  BY FS_CardinalityType
<1>3. Up(S) \in Seq(S) /\ Len(Up(S)) = Cardinality(S)
  BY <1>1, <1>2 DEF Sorted
<1>4. Reverse(Up(S)) \in Seq(S) /\ Len(Reverse(Up(S))) = Cardinality(S)
  <2>. DEFINE s == Up(S)
              n == Len(s)
              r == [i \in 1..n |-> s[(n - i) + 1]]
  <2>. HIDE DEF s
  <2>1. n \in Nat /\ s \in [1..n -> S] /\ n = Cardinality(S)
    BY <1>3 DEF s
  <2>2. \A i \in 1..n : (n - i) + 1 \in 1..n
    BY <2>1
  <2>3. r \in [1..n -> S]
    BY <2>1, <2>2
  <2>. HIDE DEF r
  <2>4. r \in Seq(S) /\ Len(r) = n
    BY <2>1, <2>3
  <2>. QED BY <2>1, <2>4 DEF Reverse, s, r
<1>. QED BY <1>3, <1>4 DEF Down

LEMMA CutOff ==
    ASSUME NEW S, NEW s \in Seq(S), NEW n \in Nat
    PROVE  /\ FirstOf(s, n) \in Seq(S) /\ Len(FirstOf(s, n)) <= n
           /\ n < Len(s) => Len(FirstOf(s, n)) = n
<1>. DEFINE m == IF Len(s) < n THEN Len(s) ELSE n
<1>1. /\ m \in Nat /\ m <= Len(s) /\ m <= n /\ Len(s) \in Nat /\ s \in [1..Len(s) -> S]
      /\ n < Len(s) => m = n
  OBVIOUS
<1>. HIDE DEF m
<1>2. SubSeq(s, 1, m) = [i \in 1..m |-> s[i]]
  BY <1>1
<1>3. [i \in 1..m |-> s[i]] \in [1..m -> S]
  BY <1>1
<1>4. SubSeq(s, 1, m) \in Seq(S) /\ Len(SubSeq(s, 1, m)) = m
  BY <1>1, <1>2, <1>3
<1>. QED BY <1>1, <1>4 DEF FirstOf, m

\* Heights at which funds moved.
Movements == Carrying(DOMAIN chain)

ChainBound == chain \in Seq([tx : Hashes \cup {None}, ok : BOOLEAN]) /\ Len(chain) <= MaxHeight

LEMMA MovementsMove ==
    ASSUME ChainBound
    PROVE  /\ Movements \subseteq Nat /\ Movements \subseteq Heights
           /\ \A n \in Movements : chain[n].tx \in Hashes /\ n \in DOMAIN chain
           /\ \A S : Carrying(S) \subseteq Movements
           /\ \A S \in SUBSET Movements : IsFiniteSet(S)
<1>1. DOMAIN chain = 1..Len(chain) /\ Len(chain) \in Nat /\ IsFiniteSet(1..Len(chain))
  BY FS_Interval DEF ChainBound
<1>2. \A n \in DOMAIN chain : chain[n] \in [tx : Hashes \cup {None}, ok : BOOLEAN]
  <2>. DEFINE Block == [tx : Hashes \cup {None}, ok : BOOLEAN]
  <2>1. chain \in Seq(Block)
    BY DEF ChainBound
  <2>. HIDE DEF Block
  <2>2. \A n \in DOMAIN chain : chain[n] \in Block
    BY <2>1
  <2>. QED BY <2>2 DEF Block
<1>3. Movements \subseteq 1..Len(chain) /\ 1..Len(chain) \subseteq Heights
  BY <1>1 DEF Movements, Carrying, Heights, ChainBound
<1>4. \A S \in SUBSET Movements : IsFiniteSet(S)
  BY <1>1, <1>3, FS_Subset
<1>. QED BY <1>1, <1>2, <1>3, <1>4 DEF Movements, Carrying

\* Some movements in order, at most n of them.
LEMMA OrderedMovements ==
    ASSUME ChainBound, NEW S \in SUBSET Movements, NEW n \in Nat
    PROVE  /\ FirstOf(Up(S), n) \in Seq(Movements) /\ Len(FirstOf(Up(S), n)) <= n
           /\ FirstOf(Down(S), n) \in Seq(Movements) /\ Len(FirstOf(Down(S), n)) <= n
<1>1. Up(S) \in Seq(Movements) /\ Down(S) \in Seq(Movements)
  <2>1. Up(S) \in Seq(S) /\ Down(S) \in Seq(S)
    BY Listed, MovementsMove
  <2>. QED BY <2>1
<1>. QED BY <1>1, CutOff

\* A page lists movements of the chain, and its cursor is one.
PageSound(page) ==
    /\ page.heights \in Seq(Movements) /\ page.next \in Cursors
    /\ network = "trc20" => Len(page.heights) <= PageSize

LEMMA SoundPage ==
    ASSUME NEW heights \in Seq(Movements), NEW next \in Cursors,
           network = "trc20" => Len(heights) <= PageSize
    PROVE  PageSound(Page(heights, next))
BY DEF Page, PageSound

LEMMA LastListed ==
    ASSUME NEW S, NEW s \in Seq(S), s # <<>>
    PROVE  Last(s) \in S
BY DEF Last

LEMMA EvmPageSound ==
    ASSUME ChainBound, network = "evm", NEW from \in Cursors
    PROVE  PageSound(EvmPage(from))
<1>. DEFINE head  == IF Len(chain) > Required THEN Len(chain) - Required ELSE 0
            first == IF from # None THEN from + 1
                     ELSE IF head > Lookback THEN head - Lookback ELSE 0
            last  == IF head - first > BlockRange THEN first + BlockRange ELSE head
            range == Carrying(first..last)
            ins   == FirstOf(Up({n \in range : chain[n].tx \in Incoming}), PageSize)
            room  == IF Len(ins) = PageSize THEN 1 ELSE PageSize - Len(ins)
            outs  == FirstOf(Up({n \in range : chain[n].tx \in Outgoing}), room)
<1>1. EvmPage(from) = IF first > head THEN Page(<<>>, from) ELSE Page(ins \o outs, last)
  BY DEF EvmPage
<1>2. head \in 0..MaxHeight /\ head \in Nat
  BY DEF ChainBound
<1>3. first \in Nat
  <2>1. from # None => from \in Nat
    BY DEF Cursors, Heights
  <2>. HIDE DEF head
  <2>. QED BY <1>2, <2>1
<1>4. first <= head => last \in 0..MaxHeight
  <2>. HIDE DEF head, first
  <2>. QED BY <1>2, <1>3
<1>5. range \subseteq Movements
  BY MovementsMove
<1>. HIDE DEF head, first, last, range
<1>6. ins \in Seq(Movements) /\ Len(ins) <= PageSize
  BY <1>5, OrderedMovements
<1>7. outs \in Seq(Movements)
  <2>1. room \in Nat
    <3>. HIDE DEF ins
    <3>. QED BY <1>6
  <2>. HIDE DEF room
  <2>. QED BY <1>5, <2>1, OrderedMovements
<1>. HIDE DEF ins, outs
<1>8. CASE first > head
  <2>1. <<>> \in Seq(Movements)
    OBVIOUS
  <2>. QED BY <1>1, <1>8, <2>1, SoundPage
<1>9. CASE ~(first > head)
  <2>1. ins \o outs \in Seq(Movements) /\ last \in Cursors
    BY <1>2, <1>3, <1>4, <1>6, <1>7, <1>9 DEF Cursors, Heights
  <2>. QED BY <1>1, <1>9, <2>1, SoundPage
<1>. QED BY <1>8, <1>9

LEMMA TonPageSound ==
    ASSUME ChainBound, network = "ton", NEW from \in Cursors
    PROVE  PageSound(TonPage(from))
<1>. DEFINE older   == {n \in Heights : from = None \/ n <= from}
            heights == FirstOf(Down(Carrying(older)), PageSize)
<1>1. heights \in Seq(Movements)
  BY MovementsMove, OrderedMovements
<1>2. TonPage(from) = Page(heights, IF heights = <<>> THEN from ELSE Last(heights))
  BY DEF TonPage
<1>. HIDE DEF heights
<1>3. heights # <<>> => Last(heights) \in Cursors
  BY <1>1, LastListed, MovementsMove DEF Cursors
<1>. QED BY <1>1, <1>2, <1>3, SoundPage

LEMMA TronPageSound ==
    ASSUME ChainBound, NEW from \in Cursors
    PROVE  PageSound(TronPage(from))
<1>. DEFINE older   == {n \in Heights : from = None \/ n < from}
            heights == FirstOf(Down(Carrying(older)), PageSize)
            more    == Cardinality(Carrying(older)) > PageSize
<1>1. heights \in Seq(Movements) /\ Len(heights) <= PageSize
  BY MovementsMove, OrderedMovements
<1>2. TronPage(from) = Page(heights, IF more THEN Last(heights) ELSE from)
  BY DEF TronPage
<1>3. more => heights # <<>>
  <2>. DEFINE S == Carrying(older)
              s == Down(S)
  <2>1. S \in SUBSET Movements /\ IsFiniteSet(S) /\ Cardinality(S) \in Nat
    BY MovementsMove, FS_CardinalityType
  <2>2. Len(s) = Cardinality(S) /\ s \in Seq(S)
    BY <2>1, Listed, MovementsMove
  <2>. HIDE DEF s, S
  <2>3. more => Len(heights) = PageSize
    BY <2>1, <2>2, CutOff DEF S, s
  <2>4. Len(<<>>) = 0
    OBVIOUS
  <2>. QED BY <2>3, <2>4
<1>. HIDE DEF heights, more
<1>4. more => Last(heights) \in Cursors
  BY <1>1, <1>3, LastListed, MovementsMove DEF Cursors
<1>. QED BY <1>1, <1>2, <1>4, SoundPage

LEMMA ListedSound ==
    ASSUME ChainBound, network \in Networks, NEW from \in Cursors
    PROVE  PageSound(ListTransfers(from))
BY EvmPageSound, TonPageSound, TronPageSound DEF ListTransfers
----------------------------------------------------------------------------
(* What is counted *)

\* The log index a transaction has in every listing, on networks that give it one.
OwnLog(h) ==
    CASE network = "evm" -> 0
      [] network = "ton" -> IF h \in Incoming THEN 0 ELSE 1
      [] OTHER           -> -1

OwnNumber(k) == network # "trc20" => k.log = OwnLog(k.tx)

\* What was counted, and what scans have in hand, carries the index of its transaction.
Numbered ==
    /\ \A k \in Counted : OwnNumber(k)
    /\ \A s \in Scanners : \A p \in DOMAIN scan[s].todo : OwnNumber(scan[s].todo[p])

\* What was counted has a row, which is why it is not counted again.
CountedHasRow == IsFiniteSet(Counted) /\ \A k \in Counted : row[k] # "none"

With(S, h) == {k \in S : k.tx = h}

\* The balance was moved for a transaction once per number it was announced under,
\* and each of them was claimed.
Tally ==
    /\ IsFiniteSet(events) /\ Counted \subseteq events
    /\ \A h \in Hashes : counted[h] = Cardinality(With(Counted, h))

Books == TypeOK /\ ChainBound /\ Numbered /\ CountedHasRow /\ Tally /\ BalanceFollowsLedger

LEMMA IdleTyped ==
    /\ Idle \in [phase : {"idle", "listing", "ingesting"}, from : Cursors,
                 todo : Seq(Listable), next : Cursors]
    /\ Idle.todo = <<>>
BY DEF Idle, Cursors

LEMMA BooksInit == Init => Books
<1>. SUFFICES ASSUME Init PROVE Books
  OBVIOUS
<1>1. TypeOK /\ ChainBound
  <2>1. chain \in Seq([tx : Hashes \cup {None}, ok : BOOLEAN]) /\ Len(chain) = 0
    BY DEF Init
  <2>2. scan \in [Scanners -> [phase : {"idle", "listing", "ingesting"}, from : Cursors,
                                 todo : Seq(Listable), next : Cursors]]
    BY IdleTyped DEF Init
  <2>3. walk \in [Walkers -> [key : Listable, verdict : Settled \cup {"confirming"}] \cup {Resting}]
    BY DEF Init
  <2>4. cursor \in Cursors /\ faults \in 0..MaxFaults /\ balance \in Nat /\ Len(chain) <= MaxHeight
    BY <2>1 DEF Init, Cursors
  <2>5. row \in [Keys -> {"none", "pending"} \cup InFlight \cup Settled]
    BY DEF Init
  <2>. QED BY <2>1, <2>2, <2>3, <2>4, <2>5 DEF Init, TypeOK, ChainBound
<1>2. Counted = {}
  BY DEF Init, Counted
<1>3. Numbered
  BY <1>2 DEF Init, Numbered, Idle
<1>4. CountedHasRow /\ BalanceFollowsLedger /\ Tally
  <2>1. \A h : With({}, h) = {}
    BY DEF With
  <2>2. IsFiniteSet({}) /\ Cardinality({}) = 0
    BY FS_EmptySet
  <2>3. {k \in {} : k.tx \in Incoming} = {} /\ {k \in {} : k.tx \in Outgoing} = {}
    OBVIOUS
  <2>4. BalanceFollowsLedger
    BY <1>2, <2>2, <2>3 DEF Init, BalanceFollowsLedger
  <2>5. CountedHasRow /\ Tally
    BY <1>2, <2>1, <2>2 DEF Init, CountedHasRow, Tally
  <2>. QED BY <2>4, <2>5
<1>. QED BY <1>1, <1>3, <1>4 DEF Books

\* A step that counts nothing and takes no row away.
LEMMA NothingCounted ==
    ASSUME Books, TypeOK', ChainBound', UNCHANGED <<fixed, balance, counted, clamped>>,
           Counted' = Counted, events' = events \/ (\E k : events' = events \cup {k}), \A k \in Keys : row[k] # "none" => row'[k] # "none",
           \A s \in Scanners : scan'[s] = scan[s] \/ \A p \in DOMAIN scan'[s].todo :
                                                        OwnNumber(scan'[s].todo[p])
    PROVE  Books'
<1>1. CountedHasRow'
  <2>1. Counted \subseteq Keys
    BY DEF Counted, Keys
  <2>. QED BY <2>1 DEF Books, CountedHasRow
<1>2. BalanceFollowsLedger'
  BY DEF Books, BalanceFollowsLedger
<1>5. Tally'
  <2>1. IsFiniteSet(events') /\ Counted' \subseteq events'
    BY FS_AddElement DEF Books, Tally
  <2>. QED BY <2>1 DEF Books, Tally, With
<1>3. \A k : OwnNumber(k)' <=> OwnNumber(k)
  BY DEF OwnNumber, OwnLog
<1>4. Numbered'
  BY <1>3 DEF Books, Numbered, OwnNumber, OwnLog
<1>. QED BY <1>1, <1>2, <1>4, <1>5 DEF Books

LEMMA MineCounts ==
    ASSUME Books, NEW h \in Hashes \cup {None}, NEW ok \in BOOLEAN, Mine(h, ok) PROVE Books'
<1>. DEFINE Block == [tx : Hashes \cup {None}, ok : BOOLEAN]
            b == [tx |-> h, ok |-> ok]
<1>1. chain \in Seq(Block) /\ b \in Block /\ chain' = Append(chain, b) /\ Len(chain) < MaxHeight
  BY DEF Books, ChainBound, Mine
<1>. HIDE DEF Block, b
<1>2. chain' \in Seq(Block) /\ Len(chain') = Len(chain) + 1
  BY <1>1
<1>3. ChainBound'
  BY <1>1, <1>2 DEF ChainBound, Block
<1>4. TypeOK'
  BY <1>2 DEF Books, TypeOK, Mine, Block
<1>. QED BY <1>3, <1>4, NothingCounted DEF Mine, Counted

LEMMA RecordSendCounts == ASSUME Books, NEW h \in Own, RecordSend(h) PROVE Books'
<1>1. TypeOK' /\ ChainBound'
  BY DEF RecordSend, Books, TypeOK, ChainBound
<1>2. \A k \in Keys : row[k] # "none" => row'[k] # "none"
  BY DEF RecordSend, Books, TypeOK
<1>. QED BY <1>1, <1>2, NothingCounted DEF RecordSend, Counted

LEMMA RecordSimulatedCounts ==
    ASSUME Books, NEW h \in Simulated, NEW status, RecordSimulated(h, status) PROVE Books'
<1>1. TypeOK' /\ ChainBound'
  BY DEF RecordSimulated, Books, TypeOK, ChainBound
<1>2. \A k \in Keys : row[k] # "none" => row'[k] # "none"
  BY DEF RecordSimulated, Books, TypeOK
<1>. QED BY <1>1, <1>2, NothingCounted DEF RecordSimulated, Counted

\* The scans move, and only they.
LEMMA ScansMove ==
    ASSUME Books, NEW s \in Scanners, NEW x,
           scan' = [scan EXCEPT ![s] = x],
           x \in [phase : {"idle", "listing", "ingesting"}, from : Cursors,
                  todo : Seq(Listable), next : Cursors],
           x.todo = <<>> \/ \A p \in DOMAIN x.todo : OwnNumber(x.todo[p]),
           UNCHANGED <<fixed, chain, row, events, balance, counted, clamped, notices, walk>>,
           cursor' \in Cursors, cut' \subseteq Heights, faults' \in 0..MaxFaults
    PROVE  Books'
<1>1. TypeOK' /\ ChainBound'
  BY DEF Books, TypeOK, ChainBound
<1>2. \A r \in Scanners : scan'[r] = IF r = s THEN x ELSE scan[r]
  BY DEF Books, TypeOK
<1>3. x.todo = <<>> => DOMAIN x.todo = {}
  OBVIOUS
<1>. QED BY <1>1, <1>2, <1>3, NothingCounted DEF Counted

LEMMA FaultCounts ==
    ASSUME Books, NEW kind, Fault(kind)
    PROVE  faults' \in 0..MaxFaults
BY DEF Books, TypeOK, Fault

LEMMA StartScanCounts == ASSUME Books, NEW s \in Scanners, StartScan(s) PROVE Books'
<1>. DEFINE x == [phase |-> "listing", from |-> cursor, todo |-> <<>>, next |-> None]
<1>1. cursor \in Cursors /\ None \in Cursors /\ <<>> \in Seq(Listable)
  BY DEF Books, TypeOK, Cursors
<1>2. x \in [phase : {"idle", "listing", "ingesting"}, from : Cursors,
             todo : Seq(Listable), next : Cursors] /\ x.todo = <<>>
  BY <1>1
<1>3. scan' = [scan EXCEPT ![s] = x]
  BY DEF StartScan
<1>. HIDE DEF x
<1>4. /\ UNCHANGED <<fixed, chain, row, events, balance, counted, clamped, notices, walk>>
      /\ cursor' \in Cursors /\ cut' \subseteq Heights /\ faults' \in 0..MaxFaults
  BY DEF StartScan, Books, TypeOK
<1>. QED BY <1>2, <1>3, <1>4, ScansMove

\* The transfers of a page have their type, and the index of their transaction.
LEMMA ListPageCounts == ASSUME Books, NEW s \in Scanners, ListPage(s) PROVE Books'
<1>. DEFINE page == ListTransfers(scan[s].from)
            hs   == page.heights
            todo == [p \in DOMAIN hs |-> [tx |-> chain[hs[p]].tx, log |-> LogIndex(hs[p], p)]]
            x    == [phase |-> "ingesting", from |-> None, todo |-> todo, next |-> page.next]
<1>1. scan[s].from \in Cursors /\ network \in Networks /\ ChainBound
  BY DEF Books, TypeOK
<1>2. PageSound(page)
  BY <1>1, ListedSound
<1>3. /\ scan' = [scan EXCEPT ![s] = x] /\ cut' = cut \cup PassedOver(scan[s].from, page)
      /\ UNCHANGED <<fixed, chain, row, events, balance, counted, clamped, notices, walk, cursor, faults>>
  BY DEF ListPage
<1>4. PassedOver(scan[s].from, page) \subseteq Heights
  BY <1>1, MovementsMove DEF PassedOver
<1>. HIDE DEF page
<1>5. hs \in Seq(Movements) /\ (network = "trc20" => Len(hs) <= PageSize)
  BY <1>2 DEF PageSound
<1>6. ASSUME NEW p \in DOMAIN hs PROVE todo[p] \in Listable /\ OwnNumber(todo[p])
  <2>1. p \in Nat \ {0} /\ p <= Len(hs) /\ hs[p] \in Movements /\ Len(hs) \in Nat
    BY <1>5
  <2>2. chain[hs[p]].tx \in Hashes
    BY <1>1, <2>1, MovementsMove
  <2>3. network = "trc20" => p - 1 \in 0..(PageSize - 1)
    BY <1>5, <2>1
  <2>4. LogIndex(hs[p], p) \in ((-1)..(PageSize - 1)) \cup {0, 1}
    BY <2>3 DEF LogIndex
  <2>5. todo[p] = [tx |-> chain[hs[p]].tx, log |-> LogIndex(hs[p], p)]
    OBVIOUS
  <2>6. network # "trc20" => LogIndex(hs[p], p) = OwnLog(chain[hs[p]].tx)
    BY DEF LogIndex, OwnLog
  <2>. HIDE DEF todo
  <2>. QED BY <2>2, <2>4, <2>5, <2>6 DEF Listable, OwnNumber
<1>7. todo \in Seq(Listable) /\ DOMAIN todo = DOMAIN hs
  <2>1. DOMAIN hs = 1..Len(hs) /\ Len(hs) \in Nat
    BY <1>5
  <2>2. todo \in [1..Len(hs) -> Listable]
    BY <1>6, <2>1
  <2>. HIDE DEF todo
  <2>. QED BY <2>1, <2>2
<1>. HIDE DEF todo
<1>8. x \in [phase : {"idle", "listing", "ingesting"}, from : Cursors,
             todo : Seq(Listable), next : Cursors] /\ x.todo = todo
  BY <1>2, <1>7 DEF PageSound, Cursors
<1>. HIDE DEF x
<1>9. cursor' \in Cursors /\ cut' \subseteq Heights /\ faults' \in 0..MaxFaults
  BY <1>3, <1>4 DEF Books, TypeOK
<1>. QED BY <1>3, <1>6, <1>7, <1>8, <1>9, ScansMove

\* What is new is counted, and moves the balance by its unit unless it is clamped.
LEMMA BalanceCounts ==
    ASSUME Books, NEW k \in Listable, IsNew(k), Adjust(k), Counted' = Counted \cup {k}
    PROVE  BalanceFollowsLedger' /\ IsFiniteSet(Counted') /\ balance' \in Nat /\ clamped' \in BOOLEAN
<1>. DEFINE In  == {c \in Counted : c.tx \in Incoming}
            Out == {c \in Counted : c.tx \in Outgoing}
<1>1. k \notin Counted /\ IsFiniteSet(Counted)
  BY DEF Books, CountedHasRow, IsNew
<1>2. balance \in Nat /\ clamped \in BOOLEAN /\ (clamped \/ balance = Cardinality(In) - Cardinality(Out))
  BY DEF Books, TypeOK, BalanceFollowsLedger
<1>3. /\ IsFiniteSet(In) /\ IsFiniteSet(Out) /\ k \notin In /\ k \notin Out
      /\ Cardinality(In) \in Nat /\ Cardinality(Out) \in Nat
  BY <1>1, FS_Subset, FS_CardinalityType
<1>4. k.tx \in Incoming \/ (k.tx \in Outgoing /\ k.tx \notin Incoming)
  BY DEF Listable
<1>5. /\ Cardinality(In)' = IF k.tx \in Incoming THEN Cardinality(In) + 1 ELSE Cardinality(In)
      /\ Cardinality(Out)' = IF k.tx \in Incoming THEN Cardinality(Out) ELSE Cardinality(Out) + 1
  <2>1. CASE k.tx \in Incoming
    <3>1. In' = In \cup {k} /\ Out' = Out
      BY <2>1
    <3>2. Cardinality(In \cup {k}) = Cardinality(In) + 1
      BY <1>3, FS_AddElement
    <3>. HIDE DEF In, Out
    <3>. QED BY <2>1, <3>1, <3>2
  <2>2. CASE k.tx \notin Incoming
    <3>1. In' = In /\ Out' = Out \cup {k}
      BY <1>4, <2>2
    <3>2. Cardinality(Out \cup {k}) = Cardinality(Out) + 1
      BY <1>3, FS_AddElement
    <3>. HIDE DEF In, Out
    <3>. QED BY <2>2, <3>1, <3>2
  <2>. QED BY <2>1, <2>2
<1>6. /\ balance' = IF balance + Unit(k) < 0 THEN 0 ELSE balance + Unit(k)
      /\ clamped' = (clamped \/ balance + Unit(k) < 0)
  BY DEF Adjust
<1>7. Unit(k) = IF k.tx \in Incoming THEN 1 ELSE -1
  BY DEF Unit
<1>8. balance' \in Nat /\ clamped' \in BOOLEAN
  BY <1>2, <1>6, <1>7
<1>9. BalanceFollowsLedger' <=> clamped' \/ balance' = Cardinality(In)' - Cardinality(Out)'
  BY DEF BalanceFollowsLedger
<1>10. IsFiniteSet(Counted')
  BY <1>1, FS_AddElement
<1>. HIDE DEF In, Out
<1>11. ASSUME ~clamped' PROVE balance' = Cardinality(In)' - Cardinality(Out)'
  <2>1. ~clamped /\ ~(balance + Unit(k) < 0) /\ balance' = balance + Unit(k)
    BY <1>6, <1>11
  <2>. QED BY <1>2, <1>3, <1>5, <1>7, <2>1
<1>. QED BY <1>8, <1>9, <1>10, <1>11

\* The tally of the transaction that is counted goes up by one.
LEMMA TallyCounts ==
    ASSUME Books, NEW k \in Listable, IsNew(k), Adjust(k), Counted' = Counted \cup {k},
           events' = events \cup {k}
    PROVE  Tally' /\ counted' \in [Hashes -> Nat]
<1>1. /\ k \notin Counted /\ k.tx \in Hashes /\ IsFiniteSet(Counted) /\ counted \in [Hashes -> Nat]
      /\ counted' = [counted EXCEPT ![k.tx] = @ + 1]
  BY DEF Books, TypeOK, CountedHasRow, IsNew, Adjust, Listable
<1>2. IsFiniteSet(events') /\ Counted' \subseteq events'
  BY FS_AddElement DEF Books, Tally
<1>3. ASSUME NEW h \in Hashes PROVE counted'[h] = Cardinality(With(Counted', h))
  <2>1. IsFiniteSet(With(Counted, h)) /\ k \notin With(Counted, h)
    BY <1>1, FS_Subset DEF With
  <2>2. counted[h] = Cardinality(With(Counted, h))
    BY DEF Books, Tally
  <2>3. CASE h = k.tx
    <3>1. With(Counted', h) = With(Counted, h) \cup {k}
      BY <2>3 DEF With
    <3>2. Cardinality(With(Counted, h) \cup {k}) = Cardinality(With(Counted, h)) + 1
      BY <2>1, FS_AddElement
    <3>. QED BY <1>1, <2>2, <2>3, <3>1, <3>2
  <2>4. CASE h # k.tx
    <3>1. With(Counted', h) = With(Counted, h)
      BY <2>4 DEF With
    <3>. QED BY <1>1, <2>2, <2>4, <3>1
  <2>. QED BY <2>3, <2>4
<1>4. counted' \in [Hashes -> Nat]
  BY <1>1
<1>5. \A h : With(Counted, h)' = With(Counted', h)
  BY DEF With
<1>. QED BY <1>2, <1>3, <1>4, <1>5 DEF Tally

LEMMA IngestCounts == ASSUME Books, NEW s \in Scanners, Ingest(s) PROVE Books'
<1>. DEFINE todo == scan[s].todo
            k == Head(todo)
            x == [scan[s] EXCEPT !.todo = Tail(@)]
<1>1. scan[s] \in [phase : {"idle", "listing", "ingesting"}, from : Cursors,
                   todo : Seq(Listable), next : Cursors] /\ todo \in Seq(Listable) /\ todo # <<>>
  BY DEF Books, TypeOK, Ingest
<1>2. /\ k \in Listable /\ Tail(todo) \in Seq(Listable) /\ k = todo[1] /\ 1 \in DOMAIN todo
      /\ \A p \in DOMAIN Tail(todo) : p + 1 \in DOMAIN todo /\ Tail(todo)[p] = todo[p + 1]
  <2>. HIDE DEF todo
  <2>. QED BY <1>1
<1>3. OwnNumber(k) /\ \A p \in DOMAIN Tail(todo) : OwnNumber(Tail(todo)[p])
  BY <1>2 DEF Books, Numbered
<1>4. x \in [phase : {"idle", "listing", "ingesting"}, from : Cursors,
             todo : Seq(Listable), next : Cursors] /\ x.todo = Tail(todo)
  BY <1>1, <1>2
<1>5. scan' = [scan EXCEPT ![s] = x]
  BY DEF Ingest
<1>. HIDE DEF x
<1>6. /\ events' = events \cup {k}
      /\ row' = IF IsNew(k) THEN [row EXCEPT ![k] = "detected"] ELSE row
      /\ notices' = IF IsNew(k) THEN notices \cup {<<"moved", k>>} ELSE notices
      /\ Adjust(k) /\ UNCHANGED <<fixed, chain, cursor, walk, cut, faults>>
  BY DEF Ingest
<1>. HIDE DEF todo, k
<1>7. CASE ~IsNew(k)
  <2>1. UNCHANGED <<row, notices, balance, counted, clamped>>
    BY <1>6, <1>7 DEF Adjust
  <2>2. scan' \in [Scanners -> [phase : {"idle", "listing", "ingesting"}, from : Cursors,
                                todo : Seq(Listable), next : Cursors]]
    BY <1>4, <1>5 DEF Books, TypeOK
  <2>3. TypeOK' /\ ChainBound'
    BY <1>2, <1>6, <2>1, <2>2 DEF Books, TypeOK, ChainBound
  <2>4. \A r \in Scanners : scan'[r] = IF r = s THEN x ELSE scan[r]
    BY <1>5 DEF Books, TypeOK
  <2>. QED BY <1>3, <1>4, <1>6, <2>1, <2>3, <2>4, NothingCounted DEF Counted
<1>8. CASE IsNew(k)
  <2>1. Counted' = Counted \cup {k}
    BY <1>2, <1>6, <1>8 DEF Counted
  <2>2. BalanceFollowsLedger' /\ IsFiniteSet(Counted') /\ balance' \in Nat /\ clamped' \in BOOLEAN
    BY <1>2, <1>6, <1>8, <2>1, BalanceCounts
  <2>11. Tally' /\ counted' \in [Hashes -> Nat]
    BY <1>2, <1>6, <1>8, <2>1, TallyCounts
  <2>12. k \in Keys
    BY <1>2 DEF Keys
  <2>3. /\ row' \in [Keys -> {"none", "pending"} \cup InFlight \cup Settled]
        /\ \A c \in Keys : row'[c] = IF c = k THEN "detected" ELSE row[c]
    BY <2>12, <1>6, <1>8 DEF Books, TypeOK
  <2>4. notices' \subseteq ({"moved"} \cup Settled) \X Listable /\ events' \subseteq Listable
    BY <1>2, <1>6, <1>8 DEF Books, TypeOK
  <2>5. scan' \in [Scanners -> [phase : {"idle", "listing", "ingesting"}, from : Cursors,
                                todo : Seq(Listable), next : Cursors]]
    BY <1>4, <1>5 DEF Books, TypeOK
  <2>6. TypeOK' /\ ChainBound'
    BY <1>6, <2>2, <2>3, <2>4, <2>5, <2>11 DEF Books, TypeOK, ChainBound
  <2>7. CountedHasRow'
    BY <2>1, <2>2, <2>3, <2>12 DEF Books, CountedHasRow, Counted, Keys
  <2>8. \A r \in Scanners : scan'[r] = IF r = s THEN x ELSE scan[r]
    BY <1>5 DEF Books, TypeOK
  <2>9. \A c : OwnNumber(c)' <=> OwnNumber(c)
    BY <1>6 DEF OwnNumber, OwnLog
  <2>10. Numbered'
    BY <1>3, <1>4, <2>1, <2>8, <2>9 DEF Books, Numbered
  <2>. QED BY <2>2, <2>6, <2>7, <2>10, <2>11 DEF Books
<1>. QED BY <1>7, <1>8

\* A scan that ends, well or not.
LEMMA ScanEndCounts ==
    ASSUME Books, NEW s \in Scanners, FinishScan(s) \/ ScanStops(s)
    PROVE  Books'
<1>1. scan[s].next \in Cursors /\ cursor \in Cursors /\ cut \subseteq Heights /\ faults \in 0..MaxFaults
  BY DEF Books, TypeOK
<1>2. faults' \in 0..MaxFaults
  BY <1>1, FaultCounts DEF FinishScan, ScanStops
<1>3. /\ cursor' \in Cursors /\ cut' \subseteq Heights /\ scan' = [scan EXCEPT ![s] = Idle]
      /\ UNCHANGED <<fixed, chain, row, events, balance, counted, clamped, notices, walk>>
  BY <1>1 DEF FinishScan, ScanStops
<1>. QED BY <1>2, <1>3, IdleTyped, ScansMove

LEMMA RescanCounts == ASSUME Books, RescanWallet PROVE Books'
<1>1. TypeOK' /\ ChainBound'
  BY FaultCounts DEF RescanWallet, Books, TypeOK, ChainBound, Cursors
<1>. QED BY <1>1, NothingCounted DEF RescanWallet, Counted

LEMMA WalkersCount ==
    ASSUME Books, NEW w \in Walkers,
           (\E k \in Keys : CheckRow(w, k)) \/ SettleRow(w) \/ WalkStops(w)
    PROVE  Books'
<1>1. CASE \E k \in Keys : CheckRow(w, k)
  <2>0. PICK k \in Keys : CheckRow(w, k)
    BY <1>1
  <2>1. PICK v \in Verdicts(k.tx) \ {None} :
            /\ walk' = [walk EXCEPT ![w] = [key |-> k, verdict |-> v]]
            /\ UNCHANGED <<fixed, chain, cursor, ledger, scan, cut, faults>>
    BY <2>0 DEF CheckRow
  <2>2. v \in Settled \cup {"confirming"} /\ k \in Listable
    BY <2>0 DEF Verdicts, CheckRow
  <2>4. walk' \in [Walkers -> [key : Listable, verdict : Settled \cup {"confirming"}] \cup {Resting}]
    BY <2>1, <2>2 DEF Books, TypeOK
  <2>3. TypeOK' /\ ChainBound'
    BY <2>1, <2>4 DEF Books, TypeOK, ChainBound
  <2>. QED BY <2>1, <2>3, NothingCounted DEF Counted
<1>2. CASE WalkStops(w)
  <2>1. TypeOK' /\ ChainBound'
    BY <1>2, FaultCounts DEF WalkStops, Books, TypeOK, ChainBound
  <2>. QED BY <1>2, <2>1, NothingCounted DEF WalkStops, Counted
<1>3. CASE SettleRow(w)
  <2>. DEFINE k == walk[w].key
              v == walk[w].verdict
  <2>1. /\ k \in Listable /\ k \in Keys
        /\ v \in Settled \cup {"confirming"} /\ v # "none" /\ v # "moved"
    BY <1>3 DEF SettleRow, Books, TypeOK, Keys
  <2>2. /\ walk' = [walk EXCEPT ![w] = Resting]
        /\ UNCHANGED <<fixed, chain, cursor, events, balance, counted, clamped, scan, cut, faults>>
        /\ \/ UNCHANGED <<row, notices>>
           \/ /\ row' = [row EXCEPT ![k] = v]
              /\ notices' = IF v \in Settled THEN notices \cup {<<v, k>>} ELSE notices
    BY <1>3 DEF SettleRow
  <2>. HIDE DEF k, v
  <2>3. /\ Counted' = Counted /\ \A c \in Keys : row[c] # "none" => row'[c] # "none"
        /\ row' \in [Keys -> {"none", "pending"} \cup InFlight \cup Settled]
        /\ notices' \subseteq ({"moved"} \cup Settled) \X Listable
    BY <2>1, <2>2 DEF Books, TypeOK, Counted
  <2>4. TypeOK' /\ ChainBound'
    BY <2>2, <2>3 DEF Books, TypeOK, ChainBound
  <2>. QED BY <2>2, <2>3, <2>4, NothingCounted
<1>. QED BY <1>1, <1>2, <1>3

LEMMA ConfirmSimulatedCounts ==
    ASSUME Books, NEW k \in Keys, ConfirmSimulated(k) PROVE Books'
<1>1. TypeOK' /\ ChainBound'
  BY DEF ConfirmSimulated, Books, TypeOK, ChainBound
<1>2. \A j \in Keys : row[j] # "none" => row'[j] # "none"
  BY DEF ConfirmSimulated, Books, TypeOK
<1>. QED BY <1>1, <1>2, NothingCounted DEF ConfirmSimulated, Counted

LEMMA BooksNext == Books /\ [Next]_vars => Books'
<1>. SUFFICES ASSUME Books, [Next]_vars PROVE Books'
  OBVIOUS
<1>1. CASE UNCHANGED vars
  <2>1. TypeOK' /\ ChainBound'
    BY <1>1 DEF vars, Books, TypeOK, ChainBound
  <2>. QED BY <1>1, <2>1, NothingCounted DEF vars, Counted
<1>2. ASSUME Mine(None, TRUE) \/ (\E h \in Hashes : Mine(h, TRUE)) \/ (\E h \in Own : Mine(h, FALSE))
      PROVE  Books'
  BY <1>2, MineCounts
<1>. QED BY <1>1, <1>2, RecordSendCounts, RecordSimulatedCounts, StartScanCounts,
            ListPageCounts, IngestCounts, ScanEndCounts, RescanCounts, WalkersCount,
            ConfirmSimulatedCounts DEF Next, ScanStep
----------------------------------------------------------------------------
(* The theorems *)

\* The inductive invariant holds in every reachable state.
THEOREM Inductive == Spec => []IInv
<1>. QED BY InitIInv, NextIInv, PTL DEF Spec

\* The user is told that a transfer confirmed or failed if and only if its row says
\* so, and never both, whatever answers walkers hold; of a simulated one, whose row is
\* confirmed without asking, nothing is told.
THEOREM Truthful == Spec => []ToldTheTruth
<1>1. IInv => ToldTheTruth
  BY DEF IInv
<1>. QED BY <1>1, Inductive, PTL

\* A confirmed row is a transfer that took place and is Required blocks deep, where
\* anybody looks at the transaction: neither simulated rows nor those on TON.
THEOREM ConfirmedFinal == Spec => []ConfirmedIsFinal
<1>1. IInv => ConfirmedIsFinal
  BY DEF IInv
<1>. QED BY <1>1, Inductive, PTL

\* Every variable has its type, and the cached balance is never negative, in whatever
\* order debits and credits are listed.
THEOREM TypeCorrect == Spec => []TypeOK
<1>1. Books => TypeOK
  BY DEF Books
<1>. QED BY <1>1, BooksInit, BooksNext, PTL DEF Spec

\* The balance is moved for a transfer at most once under each number a listing gave it,
\* hence once where a network numbers it the same in every listing, however scans
\* overlap, fail half-way, repeat a page or start again.
THEOREM CountedAtMostOnce == Spec => []CountedOnce
<1>1. Books => CountedOnce
  <2>. SUFFICES ASSUME Books, NEW h \in Hashes
                PROVE  /\ counted[h] <= Cardinality({k \in events : k.tx = h})
                       /\ network # "trc20" => counted[h] <= 1
    BY DEF CountedOnce
  <2>. DEFINE C == With(Counted, h)
              E == {k \in events : k.tx = h}
  <2>1. counted[h] = Cardinality(C) /\ C \subseteq E /\ IsFiniteSet(E)
    BY FS_Subset DEF Books, Tally, With
  <2>2. counted[h] <= Cardinality(E)
    <3>. HIDE DEF C, E
    <3>. QED BY <2>1, FS_Subset
  <2>3. ASSUME network # "trc20" PROVE counted[h] <= 1
    <3>1. \A j, k \in C : j \in Listable /\ k \in Listable /\ j.tx = k.tx /\ j.log = k.log
      BY <2>3 DEF Counted, Books, Numbered, OwnNumber, With
    <3>2. \A j, k \in C : j = k
      BY <3>1 DEF Listable
    <3>. HIDE DEF C
    <3>3. CASE C = {}
      BY <2>1, <3>3, FS_EmptySet
    <3>4. CASE C # {}
      <4>1. PICK k \in C : C = {k}
        BY <3>2, <3>4
      <4>. QED BY <2>1, <4>1, FS_Singleton
    <3>. QED BY <3>3, <3>4
  <2>. QED BY <2>2, <2>3
<1>. QED BY <1>1, BooksInit, BooksNext, PTL DEF Spec

\* The cached balance is what scans recorded, credits less debits, unless a debit met an
\* empty balance: a transfer and its effect are one transaction.
THEOREM BalanceIsLedger == Spec => []BalanceFollowsLedger
<1>1. Books => BalanceFollowsLedger
  BY DEF Books
<1>. QED BY <1>1, BooksInit, BooksNext, PTL DEF Spec

----------------------------------------------------------------------------
(* Fees: whatever a node answers. *)

\* A chain as chains.ts describes one, and what a node may answer.
Fees == [supportsEip1559 : BOOLEAN, fallbackGasPriceWei : Nat \ {0}, maxGasPriceWei : Nat \ {0}]
NodeAnswers == [price : Int, estimate : Int, balance : Int]

\* A price a node quotes is capped, and one it refuses is made up, within the ceiling.
LEMMA GasPriceBounded ==
  ASSUME NEW fees \in Fees, fees.fallbackGasPriceWei <= fees.maxGasPriceWei, NEW quoted \in Int
  PROVE  GasPrice(fees, quoted) \in 1..fees.maxGasPriceWei
<1>1. /\ fees.fallbackGasPriceWei \in Nat \ {0} /\ fees.maxGasPriceWei \in Nat \ {0}
  BY DEF Fees
<1>2. CASE quoted = Fails \/ quoted <= 0
  BY <1>1, <1>2 DEF GasPrice
<1>3. CASE ~(quoted = Fails \/ quoted <= 0) /\ quoted > fees.maxGasPriceWei
  BY <1>1, <1>3 DEF GasPrice
<1>4. CASE ~(quoted = Fails \/ quoted <= 0) /\ ~(quoted > fees.maxGasPriceWei)
  BY <1>1, <1>4 DEF GasPrice
<1> QED BY <1>2, <1>3, <1>4

\* The padded estimate of any node is below the ceiling and above the estimate.
LEMMA GasLimitBounded ==
  ASSUME NEW isToken \in BOOLEAN, NEW estimate \in Int
  PROVE  LET limit == EstimateGasLimit(isToken, estimate)
         IN  /\ limit \in Int /\ limit <= GasLimits.erc20TransferMax
             /\ isToken /\ estimate # Fails /\ limit > 0 => limit >= estimate
<1>1. /\ GasLimits.nativeTransfer = 21000 /\ GasLimits.erc20TransferFallback = 100000
      /\ GasLimits.erc20TransferMax = 300000 /\ GasLimits.estimatePaddingPercent = 25
  BY DEF GasLimits
<1>2. Padded(estimate) = (estimate * 125) \div 100
  BY <1>1 DEF Padded
<1>3. Padded(estimate) \in Int /\ (Padded(estimate) > 0 => Padded(estimate) >= estimate)
  BY <1>2
<1> DEFINE p == Padded(estimate)
<1> HIDE DEF p
<1> DEFINE limit == EstimateGasLimit(isToken, estimate)
<1> SUFFICES /\ limit \in Int /\ limit <= 300000
             /\ isToken /\ estimate # Fails /\ limit > 0 => limit >= estimate
  BY <1>1
<1>4. CASE ~isToken
  <2>1. limit = 21000
    BY <1>1, <1>4 DEF EstimateGasLimit
  <2> HIDE DEF limit
  <2> QED BY <1>4, <2>1
<1>5. CASE isToken /\ estimate = Fails
  <2>1. ~ (Padded(estimate) > 300000)
    BY <1>2, <1>5 DEF Fails
  <2>2. limit = 100000
    BY <1>1, <1>5, <2>1 DEF EstimateGasLimit
  <2> HIDE DEF limit
  <2> QED BY <1>5, <2>2
<1>6. CASE isToken /\ estimate # Fails /\ Padded(estimate) > 300000
  <2>1. limit = -1
    BY <1>1, <1>6 DEF EstimateGasLimit, Fails
  <2> HIDE DEF limit
  <2> QED BY <2>1
<1>7. CASE isToken /\ estimate # Fails /\ ~ (Padded(estimate) > 300000)
  <2>1. limit = Padded(estimate)
    BY <1>1, <1>7 DEF EstimateGasLimit
  <2> HIDE DEF limit
  <2> QED BY <1>3, <1>7, <2>1
<1> QED BY <1>4, <1>5, <1>6, <1>7

\* Gas of at most a limit, at a price, costs at most the limit at that price; and what is
\* paid for a unit of it is that price.
LEMMA GasCosts ==
  ASSUME NEW limit \in Nat \ {0}, NEW price \in Nat, NEW used \in Nat, used <= limit
  PROVE  (limit * price) \div limit = price /\ used * price <= limit * price
         /\ limit * price \in Nat /\ used * price \in Nat
<1>1. (limit * price) \div limit = price
  <2> DEFINE q == (limit * price) \div limit
             m == limit * price
  <2>1. m \in Nat /\ q \in Nat /\ limit * q <= m /\ m < limit * (q + 1)
    OBVIOUS
  <2>2. ASSUME q + 1 <= price PROVE FALSE
    <3>1. (price - q - 1) * limit >= 0
      BY <2>1, <2>2
    <3>2. (price - q - 1) * limit = limit * price - limit * (q + 1)
      BY <2>1
    <3> QED BY <2>1, <3>1, <3>2
  <2>3. ASSUME price + 1 <= q PROVE FALSE
    <3>1. (q - price - 1) * limit >= 0
      BY <2>1, <2>3
    <3>2. (q - price - 1) * limit = limit * q - limit * price - limit
      BY <2>1
    <3> QED BY <2>1, <3>1, <3>2
  <2> HIDE DEF q
  <2> QED BY <2>1, <2>2, <2>3 DEF q
<1>2. (limit - used) * price >= 0
  OBVIOUS
<1>3. (limit - used) * price = limit * price - used * price
  OBVIOUS
<1> QED BY <1>1, <1>2, <1>3

\* Of every chain whose fallback price is within its own ceiling, every amount and every
\* answer of a node: a transfer that is built can be paid for whatever gas it uses, and no
\* node can raise its fee past the ceiling (providers/evm.ts buildTransfer).
THEOREM FeesAlwaysBounded ==
  ASSUME NEW fees \in Fees, fees.fallbackGasPriceWei <= fees.maxGasPriceWei,
         NEW isToken \in BOOLEAN, NEW amount \in Int, NEW node \in NodeAnswers
  PROVE  FeesBounded(fees, isToken, amount, node)
<1> DEFINE limit == EstimateGasLimit(isToken, node.estimate)
           price == GasPrice(fees, node.price)
           top   == MaxFeePerGas(fees, price)
           most  == MaxFeePerGas(fees, fees.maxGasPriceWei)
           fee   == MaxFeeWei(fees, isToken, node)
           paid  == IF isToken THEN 0 ELSE amount
<1>1. node.price \in Int /\ node.estimate \in Int /\ node.balance \in Int
  BY DEF NodeAnswers
<1>2. fees.maxGasPriceWei \in Nat /\ fees.supportsEip1559 \in BOOLEAN /\ price \in 1..fees.maxGasPriceWei
  BY <1>1, GasPriceBounded DEF Fees
<1>3. /\ limit \in Int /\ limit <= GasLimits.erc20TransferMax
      /\ isToken /\ node.estimate # Fails /\ limit > 0 => limit >= node.estimate
  BY <1>1, GasLimitBounded
<1>4. GasLimits.erc20TransferMax \in Nat
  BY DEF GasLimits
<1> SUFFICES ASSUME BuildTransfer(fees, isToken, amount, node) = "built"
             PROVE  /\ \A used \in {1, limit \div 2, limit} :
                         node.balance >= paid + used * (fee \div limit)
                    /\ fee <= GasLimits.erc20TransferMax * most
                    /\ isToken /\ node.estimate # Fails => limit >= node.estimate
                    /\ ~fees.supportsEip1559 => fee = EstimateFee(fees, isToken, node)
  BY DEF FeesBounded
<1>5. /\ amount > 0 /\ limit # Fails /\ limit > 0
      /\ ~ (node.balance < NativeRequired(fees, isToken, amount, node))
  <2>1. ~ (amount <= 0) /\ limit # Fails
    BY DEF BuildTransfer
  <2> HIDE DEF limit
  <2>2. amount > 0
    BY <2>1
  <2>3. ~ (node.balance < NativeRequired(fees, isToken, amount, node)) /\ ~ (limit <= 0)
    BY <2>1, <2>2 DEF BuildTransfer, limit
  <2> QED BY <1>3, <2>1, <2>2, <2>3
<1>6. fee = limit * top /\ NativeRequired(fees, isToken, amount, node) = fee + paid
  BY DEF MaxFeeWei, NativeRequired
<1>7. ~fees.supportsEip1559 => EstimateFee(fees, isToken, node) = limit * price
  BY <1>5 DEF EstimateFee
<1>8. top \in Nat /\ most \in Nat /\ top <= most /\ (~fees.supportsEip1559 => top = price)
  <2> HIDE DEF price
  <2> QED BY <1>2 DEF MaxFeePerGas
<1> HIDE DEF limit, price, top, most, fee, paid
<1>9. fee \in Nat /\ fee \div limit = top /\ paid \in Nat
      /\ \A used \in 0..limit : used * top <= fee
  BY <1>3, <1>5, <1>6, <1>8, GasCosts DEF paid
<1>10. {1, limit \div 2, limit} \subseteq 0..limit
  BY <1>3, <1>5
<1>11. \A used \in {1, limit \div 2, limit} : node.balance >= paid + used * (fee \div limit)
  <2> TAKE used \in {1, limit \div 2, limit}
  <2> DEFINE cost == used * top
  <2>1. cost \in Int /\ cost <= fee
    BY <1>3, <1>8, <1>9, <1>10
  <2>2. used * (fee \div limit) = cost
    BY <1>9
  <2> HIDE DEF cost
  <2>3. node.balance >= fee + paid
    BY <1>1, <1>5, <1>6, <1>9
  <2> QED BY <1>1, <1>9, <2>1, <2>2, <2>3
<1>12. fee <= GasLimits.erc20TransferMax * most
  <2> DEFINE ceiling == GasLimits.erc20TransferMax
  <2>1. ceiling \in Nat /\ limit \in Nat /\ limit <= ceiling
    BY <1>3, <1>4, <1>5
  <2> HIDE DEF ceiling
  <2>2. (ceiling - limit) * most >= 0 /\ limit * (most - top) >= 0
    BY <1>8, <2>1
  <2>3. (ceiling - limit) * most = ceiling * most - limit * most
        /\ limit * (most - top) = limit * most - limit * top
    BY <1>8, <2>1
  <2>4. limit * top <= ceiling * most
    BY <1>8, <2>1, <2>2, <2>3
  <2> QED BY <1>6, <2>4 DEF ceiling
<1> QED BY <1>3, <1>5, <1>6, <1>7, <1>8, <1>11, <1>12

----------------------------------------------------------------------------
(* The circuit breaker.  Its two numbers say how many faults it has seen since   *)
(* the last success: their number modulo the threshold, and when the last of     *)
(* those whose number was a multiple of it lets the provider be asked again.     *)

Options == [failureThreshold : Nat \ {0}, cooldown : Nat]
Codes   == DOMAIN StatusOf \cup {"ok"}
Events  == Codes \cup {"begin"}
Entries == Codes \cup {"skip", "try", "nothing"}

Upto(R, m) == {i \in R : i <= m}
Marks(R, options) == {m \in R : Cardinality(Upto(R, m)) % options.failureThreshold = 0}

BreakerTells(breaker, R, step, options) ==
    /\ breaker \in [failures : 0..(options.failureThreshold - 1), openUntil : Nat]
    /\ breaker.failures = Cardinality(R) % options.failureThreshold
    /\ \A m \in Marks(R, options) : m * step + options.cooldown <= breaker.openUntil
    /\ breaker.openUntil = 0
         \/ \E m \in Marks(R, options) : breaker.openUntil = m * step + options.cooldown

\* Every code a read ends in is a success, a refusal or a fault.
LEMMA CodesSort ==
  /\ \A code \in Codes : code = "ok" \/ IsRefusal(code) \/ code \in Faulty
  /\ \A code \in Codes : code \in Faulty <=> code # "ok" /\ ~IsRefusal(code)
  /\ {"ok", "skip", "try", "nothing"} \cap Faulty = {}
<1>1. DOMAIN StatusOf = {"PROVIDER_ERROR", "RATE_LIMITED", "TIMEOUT", "NETWORK_UNAVAILABLE",
                         "INVALID_ADDRESS", "VALIDATION_ERROR", "GAS_ESTIMATION_FAILED"}
  BY DEF StatusOf
<1>2. /\ StatusOf["PROVIDER_ERROR"] = 502 /\ StatusOf["RATE_LIMITED"] = 429
      /\ StatusOf["TIMEOUT"] = 504 /\ StatusOf["NETWORK_UNAVAILABLE"] = 503
      /\ StatusOf["INVALID_ADDRESS"] = 400 /\ StatusOf["VALIDATION_ERROR"] = 400
      /\ StatusOf["GAS_ESTIMATION_FAILED"] = 502
  BY DEF StatusOf
<1>3. \A code \in DOMAIN StatusOf :
         IsRefusal(code) <=> code \in {"INVALID_ADDRESS", "VALIDATION_ERROR"}
  BY <1>1, <1>2 DEF IsRefusal
<1> QED BY <1>1, <1>3 DEF Codes, Faulty

\* What an entry does to the row of faults.
LEMMA RowGrows ==
  ASSUME NEW log \in Seq(Entries), NEW c \in Entries
  PROVE  LET n == Len(log)
             new == Append(log, c)
         IN  /\ \A k \in 0..n : Row(new, k) = Row(log, k)
             /\ Row(new, n + 1) = IF c = "ok" THEN {}
                                  ELSE IF c \in Faulty THEN Row(log, n) \cup {n + 1} ELSE Row(log, n)
<1> DEFINE n == Len(log)
           new == Append(log, c)
<1>1. n \in Nat /\ new[n + 1] = c /\ \A i \in 1..n : new[i] = log[i]
  OBVIOUS
<1>2. ASSUME NEW k \in 0..n PROVE Row(new, k) = Row(log, k)
  <2> HIDE DEF new
  <2> QED BY <1>1, <1>2, SMTT(30) DEF Row
<1> HIDE DEF new, n
<1>3. CASE c = "ok"
  BY <1>1, <1>3, SMTT(30) DEF Row
<1>4. \A i : i \in 1..(n + 1) <=> i \in 1..n \/ i = n + 1
  BY <1>1
<1>5. \A i \in 1..n : \A j : j \in i..(n + 1) <=> j \in i..n \/ j = n + 1
  BY <1>1
<1>6. /\ \A j : j \in (n + 1)..(n + 1) <=> j = n + 1
      /\ \A i \in 1..n : i..n \subseteq 1..n
      /\ n + 1 \notin 1..n
  BY <1>1
<1>7. ASSUME c # "ok", NEW i \in 1..n
      PROVE  i \in Row(new, n + 1) <=> i \in Row(log, n)
  <2>1. i \in 1..(n + 1) /\ new[i] = log[i]
    BY <1>1, <1>4
  <2>2. (\A j \in i..(n + 1) : new[j] # "ok") <=> (\A j \in i..n : log[j] # "ok")
    BY <1>1, <1>5, <1>6, <1>7
  <2> QED BY <2>1, <2>2 DEF Row
<1>8. c # "ok" => (n + 1 \in Row(new, n + 1) <=> c \in Faulty)
  BY <1>1, <1>4, <1>6 DEF Row
<1>9. Row(new, n + 1) \subseteq 1..n \cup {n + 1} /\ Row(log, n) \subseteq 1..n
  BY <1>4 DEF Row
<1> DEFINE after  == Row(new, n + 1)
           before == Row(log, n)
<1>10. /\ after \subseteq 1..n \cup {n + 1} /\ before \subseteq 1..n
       /\ c # "ok" => \A i \in 1..n : i \in after <=> i \in before
       /\ c # "ok" => (n + 1 \in after <=> c \in Faulty)
  BY <1>7, <1>8, <1>9
<1> HIDE DEF after, before
<1>11. CASE c # "ok" /\ c \in Faulty
  <2>1. after = before \cup {n + 1}
    BY <1>10, <1>11
  <2> QED BY <1>2, <1>11, <2>1 DEF after, before, new, n
<1>12. CASE c # "ok" /\ c \notin Faulty
  <2>1. after = before
    BY <1>6, <1>10, <1>12
  <2> QED BY <1>2, <1>12, <2>1 DEF after, before, new, n
<1> QED BY <1>2, <1>3, <1>11, <1>12 DEF new, n

\* The faults since the last success are finitely many.
LEMMA RowFinite ==
  ASSUME NEW log, NEW n \in Nat
  PROVE  IsFiniteSet(Row(log, n)) /\ Row(log, n) \subseteq 1..n
<1>1. IsFiniteSet(1..n)
  <2>1. 1 \in Int /\ n \in Int
    OBVIOUS
  <2> QED BY <2>1, FS_Interval
<1>2. Row(log, n) \subseteq 1..n
  BY DEF Row
<1> QED BY <1>1, <1>2, FS_Subset

\* A breaker is open exactly when a mark is less than a cooldown old.
LEMMA OpenWhenMarked ==
  ASSUME NEW options \in Options, NEW step \in Nat, NEW R, NEW breaker, NEW t \in Nat, R \subseteq Nat,
         BreakerTells(breaker, R, step, options)
  PROVE  IsOpen(breaker, t) <=> \E m \in Marks(R, options) : m * step + options.cooldown > t
<1>1. breaker.openUntil \in Nat
  BY DEF BreakerTells
<1>2. ASSUME IsOpen(breaker, t)
      PROVE  \E m \in Marks(R, options) : m * step + options.cooldown > t
  <2>1. breaker.openUntil > t /\ breaker.openUntil # 0
    BY <1>1, <1>2 DEF IsOpen
  <2> QED BY <2>1 DEF BreakerTells
<1>3. ASSUME NEW m \in Marks(R, options), m * step + options.cooldown > t
      PROVE  IsOpen(breaker, t)
  <2> DEFINE end == m * step + options.cooldown
  <2>1. m \in Nat /\ options.cooldown \in Nat
    BY DEF Marks, Options
  <2>2. end \in Nat
    BY <2>1
  <2>3. end <= breaker.openUntil /\ end > t
    BY <1>3 DEF BreakerTells
  <2> HIDE DEF end
  <2> QED BY <1>1, <2>2, <2>3 DEF IsOpen
<1> QED BY <1>2, <1>3

\* Counting modulo the threshold, one at a time.
LEMMA Wraps ==
  ASSUME NEW c \in Nat, NEW d \in Nat \ {0}
  PROVE  /\ c % d \in 0..(d - 1)
         /\ (c % d) + 1 >= d => (c + 1) % d = 0
         /\ (c % d) + 1 < d => (c + 1) % d = (c % d) + 1
<1> DEFINE r == c % d
           q == c \div d
<1>1. r \in 0..(d - 1) /\ q \in Nat /\ c = d * q + r
  OBVIOUS
<1>2. ASSUME r + 1 < d PROVE (c + 1) % d = r + 1
  <2>1. c + 1 = d * q + (r + 1) /\ r + 1 \in 0..(d - 1)
    BY <1>1, <1>2
  <2> HIDE DEF r, q
  <2> QED BY <1>1, <2>1
<1>3. ASSUME r + 1 >= d PROVE (c + 1) % d = 0
  <2>1. c + 1 = d * (q + 1) + 0 /\ q + 1 \in Nat
    BY <1>1, <1>3
  <2> HIDE DEF r, q
  <2> QED BY <1>1, <2>1
<1> QED BY <1>1, <1>2, <1>3

\* A fault adds one to what the breaker counts, and may be a mark.
LEMMA FaultCounted ==
  ASSUME NEW options \in Options, NEW step \in Nat, NEW n \in Nat, NEW R \in SUBSET (1..n),
         IsFiniteSet(R), NEW breaker, BreakerTells(breaker, R, step, options)
  PROVE  BreakerTells(RecordFailure(breaker, (n + 1) * step, options), R \cup {n + 1}, step, options)
<1> DEFINE d == options.failureThreshold
           c == Cardinality(R)
           new == R \cup {n + 1}
           end(m) == m * step + options.cooldown
<1>1. d \in Nat \ {0} /\ options.cooldown \in Nat /\ c \in Nat
  BY FS_CardinalityType DEF Options
<1>2. Cardinality(new) = c + 1
  <2>1. n + 1 \notin R
    OBVIOUS
  <2> QED BY <2>1, FS_AddElement
<1>3. Upto(new, n + 1) = new /\ \A m \in R : Upto(new, m) = Upto(R, m)
  <2>1. \A m \in R : m \in 1..n /\ m <= n + 1 /\ ~ (n + 1 <= m)
    OBVIOUS
  <2>2. \A m \in new : m <= n + 1
    BY <2>1
  <2> QED BY <2>1, <2>2 DEF Upto
<1>4. /\ \A m \in R : m \in Marks(new, options) <=> m \in Marks(R, options)
      /\ n + 1 \in Marks(new, options) <=> (c + 1) % d = 0
      /\ Marks(new, options) \subseteq new /\ Marks(R, options) \subseteq R
  BY <1>2, <1>3 DEF Marks
<1>5. /\ c % d \in 0..(d - 1)
      /\ (c % d) + 1 >= d => (c + 1) % d = 0
      /\ (c % d) + 1 < d => (c + 1) % d = (c % d) + 1
  BY <1>1, Wraps
<1>6. /\ breaker \in [failures : 0..(d - 1), openUntil : Nat] /\ breaker.failures = c % d
      /\ \A m \in Marks(R, options) : end(m) <= breaker.openUntil
      /\ breaker.openUntil = 0 \/ \E m \in Marks(R, options) : breaker.openUntil = end(m)
  BY DEF BreakerTells
<1>7. CASE (c % d) + 1 >= d
  <2>1. RecordFailure(breaker, (n + 1) * step, options) = [failures |-> 0, openUntil |-> end(n + 1)]
    BY <1>1, <1>6, <1>7 DEF RecordFailure
  <2>2. ASSUME NEW m \in new PROVE end(m) \in Nat /\ end(m) <= end(n + 1)
    <3>1. m \in Nat /\ m <= n + 1
      OBVIOUS
    <3>2. (n + 1 - m) * step >= 0 /\ m * step \in Nat /\ (n + 1) * step \in Nat
      BY <3>1
    <3>3. (n + 1 - m) * step = (n + 1) * step - m * step
      BY <3>1
    <3> DEFINE a == m * step
               b == (n + 1) * step
    <3>4. a \in Nat /\ b \in Nat /\ b - a >= 0
      BY <3>2, <3>3
    <3> HIDE DEF a, b
    <3>5. a + options.cooldown \in Nat /\ a + options.cooldown <= b + options.cooldown
      BY <1>1, <3>4
    <3> QED BY <3>5 DEF a, b
  <2>3. n + 1 \in Marks(new, options) /\ (c + 1) % d = 0
    BY <1>4, <1>5, <1>7
  <2>4. end(n + 1) \in Nat /\ \A m \in Marks(new, options) : end(m) <= end(n + 1)
    BY <1>4, <2>2
  <2> DEFINE b == [failures |-> 0, openUntil |-> end(n + 1)]
  <2>5. b \in [failures : 0..(d - 1), openUntil : Nat]
        /\ b.failures = Cardinality(new) % d /\ b.openUntil = end(n + 1)
    <3> HIDE DEF end
    <3> QED BY <1>1, <1>2, <2>3, <2>4
  <2> HIDE DEF b
  <2>6. BreakerTells(b, new, step, options)
    BY <2>3, <2>4, <2>5 DEF BreakerTells
  <2> QED BY <2>1, <2>6 DEF b
<1>8. CASE (c % d) + 1 < d
  <2> DEFINE b == [breaker EXCEPT !.failures = @ + 1]
  <2>1. RecordFailure(breaker, (n + 1) * step, options) = b
    BY <1>1, <1>5, <1>6, <1>8 DEF RecordFailure
  <2>2. (c + 1) % d = (c % d) + 1 /\ (c + 1) % d # 0
    BY <1>1, <1>5, <1>8
  <2>3. Marks(new, options) = Marks(R, options)
    BY <1>4, <2>2
  <2>4. b \in [failures : 0..(d - 1), openUntil : Nat]
        /\ b.failures = Cardinality(new) % d /\ b.openUntil = breaker.openUntil
    BY <1>1, <1>2, <1>5, <1>6, <1>8, <2>2
  <2> HIDE DEF b
  <2>5. BreakerTells(b, new, step, options)
    BY <1>6, <2>3, <2>4 DEF BreakerTells
  <2> QED BY <2>1, <2>5
<1> QED BY <1>1, <1>5, <1>7, <1>8

\* What is known of a provider after some events.
Tells(s, step, options) ==
    /\ s.log \in Seq(Entries) /\ s.flight \in Nat
    /\ BreakerTells(s.breaker, Row(s.log, Len(s.log)), step, options)
    /\ Justified(s.log, step, options)

\* The breaker after an event, which is entered as c.
LEMMA BreakerKept ==
  ASSUME NEW options \in Options, NEW step \in Nat, NEW log \in Seq(Entries), NEW breaker,
         BreakerTells(breaker, Row(log, Len(log)), step, options), NEW c \in Entries,
         NEW next, next = IF c \in Codes THEN After(breaker, c, (Len(log) + 1) * step, options)
                          ELSE breaker
  PROVE  BreakerTells(next, Row(Append(log, c), Len(log) + 1), step, options)
<1> DEFINE n == Len(log)
           R == Row(log, n)
           new == Row(Append(log, c), n + 1)
<1>1. n \in Nat /\ IsFiniteSet(R) /\ R \subseteq 1..n
  BY RowFinite
<1>2. new = IF c = "ok" THEN {} ELSE IF c \in Faulty THEN R \cup {n + 1} ELSE R
  BY RowGrows
<1> HIDE DEF R, new
<1>3. CASE c = "ok"
  <2>1. next = [failures |-> 0, openUntil |-> 0]
    BY <1>3 DEF After, RecordSuccess, Closed, Codes
  <2>2. new = {} /\ Cardinality(new) = 0 /\ Marks(new, options) = {}
    BY <1>2, <1>3, FS_EmptySet DEF Marks
  <2>3. options.failureThreshold \in Nat \ {0} /\ 0 % options.failureThreshold = 0
    BY DEF Options
  <2>4. next \in [failures : 0..(options.failureThreshold - 1), openUntil : Nat]
        /\ next.failures = 0 /\ next.openUntil = 0
    BY <2>1, <2>3
  <2>5. BreakerTells(next, new, step, options)
    BY <2>2, <2>3, <2>4 DEF BreakerTells
  <2> QED BY <2>5 DEF new
<1>4. CASE c \in Faulty
  <2>1. c \in Codes /\ c # "ok" /\ ~IsRefusal(c)
    BY <1>4, CodesSort DEF Codes, Faulty
  <2>2. next = RecordFailure(breaker, (n + 1) * step, options)
    BY <2>1 DEF After
  <2>3. new = R \cup {n + 1}
    BY <1>2, <1>4, <2>1
  <2>4. BreakerTells(next, new, step, options)
    BY <1>1, <2>2, <2>3, FaultCounted DEF R
  <2> QED BY <2>4 DEF new
<1>5. CASE c # "ok" /\ c \notin Faulty
  <2>1. next = breaker
    BY <1>5, CodesSort DEF After
  <2>2. new = R
    BY <1>2, <1>5
  <2> QED BY <2>1, <2>2 DEF new, R
<1> QED BY <1>3, <1>4, <1>5

\* Whether a provider was rightly passed over depends on the entries before.
LEMMA JustifiedGrows ==
  ASSUME NEW options \in Options, NEW step \in Nat, NEW log \in Seq(Entries), NEW c \in Entries,
         Justified(log, step, options),
         c \in {"skip", "try"} =>
           ((c = "skip") <=> \E m \in Marks(Row(log, Len(log)), options) :
                                m * step + options.cooldown > (Len(log) + 1) * step)
  PROVE  Justified(Append(log, c), step, options)
<1> DEFINE new == Append(log, c)
           n == Len(log)
<1>1. /\ n \in Nat /\ DOMAIN new = 1..(n + 1) /\ DOMAIN log = 1..n
      /\ new[n + 1] = c /\ \A i \in 1..n : new[i] = log[i]
  OBVIOUS
<1>2. \A k \in 0..n : Row(new, k) = Row(log, k)
  BY RowGrows
<1> HIDE DEF new
<1>3. ASSUME NEW i \in 1..n PROVE Dead(new, i, step, options) <=> Dead(log, i, step, options)
  <2>1. i - 1 \in 0..n
    BY <1>1
  <2>2. Row(new, i - 1) = Row(log, i - 1)
    BY <1>2, <2>1
  <2> QED BY <2>2 DEF Dead
<1>4. Dead(new, n + 1, step, options) <=>
        \E m \in Marks(Row(log, n), options) : m * step + options.cooldown > (n + 1) * step
  <2>1. n + 1 - 1 = n /\ Row(new, n) = Row(log, n)
    BY <1>1, <1>2
  <2> QED BY <2>1 DEF Dead, Marks, Upto
<1>5. ASSUME NEW i \in 1..(n + 1), new[i] \in {"skip", "try"}
      PROVE  (new[i] = "skip") <=> Dead(new, i, step, options)
  <2>1. CASE i = n + 1
    BY <1>1, <1>4, <1>5, <2>1
  <2>2. CASE i \in 1..n
    BY <1>1, <1>3, <1>5, <2>2 DEF Justified
  <2> QED BY <1>1, <2>1, <2>2
<1> QED BY <1>1, <1>5 DEF Justified, new

\* An event keeps what is known, and is entered in the log.
LEMMA HappenKeeps ==
  ASSUME NEW options \in Options, NEW step \in Nat, NEW s, Tells(s, step, options),
         NEW what \in Events
  PROVE  LET next == Happen(s, what, (Len(s.log) + 1) * step, options)
         IN  Tells(next, step, options) /\ Len(next.log) = Len(s.log) + 1
<1> DEFINE t == (Len(s.log) + 1) * step
           R == Row(s.log, Len(s.log))
<1>1. /\ s.log \in Seq(Entries) /\ s.flight \in Nat /\ BreakerTells(s.breaker, R, step, options)
      /\ Justified(s.log, step, options)
  BY DEF Tells
<1>0. Len(s.log) \in Nat /\ (Len(s.log) + 1) * step \in Nat
  BY <1>1
<1>2. R \subseteq Nat /\ t \in Nat /\ Len(s.log) \in Nat
  BY <1>0, <1>1, RowFinite
<1>3. ASSUME NEW c \in Entries, NEW next, next.log = Append(s.log, c), next.flight \in Nat,
             next.breaker = (IF c \in Codes THEN After(s.breaker, c, t, options) ELSE s.breaker),
             c \in {"skip", "try"} => ((c = "skip") <=> IsOpen(s.breaker, t))
      PROVE  Tells(next, step, options) /\ Len(next.log) = Len(s.log) + 1
  <2>1. Len(next.log) = Len(s.log) + 1 /\ next.log \in Seq(Entries)
    BY <1>1, <1>3
  <2>2. BreakerTells(next.breaker, Row(next.log, Len(next.log)), step, options)
    BY <1>1, <1>3, <2>1, BreakerKept
  <2>3. IsOpen(s.breaker, t) <=> \E m \in Marks(R, options) : m * step + options.cooldown > t
    BY <1>1, <1>2, OpenWhenMarked
  <2>4. Justified(next.log, step, options)
    BY <1>1, <1>3, <2>3, JustifiedGrows
  <2> QED BY <1>3, <2>1, <2>2, <2>4 DEF Tells
<1>4. {"skip", "try", "nothing"} \cap Codes = {} /\ {"skip", "try", "nothing"} \subseteq Entries
      /\ Codes \subseteq Entries /\ \A x \in Events : x \in Codes \/ x = "begin"
  BY DEF Codes, StatusOf, Entries, Events
<1> DEFINE next == Happen(s, what, t, options)
<1> SUFFICES Tells(next, step, options) /\ Len(next.log) = Len(s.log) + 1
  OBVIOUS
<1> HIDE DEF next, t
<1>5. CASE what = "begin" /\ IsOpen(s.breaker, t)
  <2>1. next.breaker = s.breaker /\ next.flight = s.flight /\ next.log = Append(s.log, "skip")
    BY <1>5 DEF Happen, next
  <2>2. "skip" \in Entries /\ "skip" \notin Codes
    BY <1>4
  <2> QED BY <1>1, <1>3, <1>5, <2>1, <2>2
<1>6. CASE what = "begin" /\ ~IsOpen(s.breaker, t)
  <2>1. next.breaker = s.breaker /\ next.flight = s.flight + 1 /\ next.log = Append(s.log, "try")
    BY <1>6 DEF Happen, next
  <2>2. "try" \in Entries /\ "try" \notin Codes /\ s.flight + 1 \in Nat
    BY <1>1, <1>4
  <2> QED BY <1>1, <1>3, <1>6, <2>1, <2>2
<1>7. CASE what # "begin" /\ s.flight > 0
  <2>1. /\ next.breaker = After(s.breaker, what, t, options) /\ next.flight = s.flight - 1
        /\ next.log = Append(s.log, what)
    BY <1>7 DEF Happen, next
  <2>2. what \in Codes /\ what \in Entries /\ what \notin {"skip", "try"} /\ s.flight - 1 \in Nat
    BY <1>1, <1>4, <1>7
  <2> QED BY <1>3, <2>1, <2>2
<1>8. CASE what # "begin" /\ ~ (s.flight > 0)
  <2>1. next.breaker = s.breaker /\ next.flight = s.flight /\ next.log = Append(s.log, "nothing")
    BY <1>8 DEF Happen, next
  <2>2. "nothing" \in Entries /\ "nothing" \notin Codes
    BY <1>4
  <2> QED BY <1>1, <1>3, <2>1, <2>2
<1> QED BY <1>5, <1>6, <1>7, <1>8

\* The states a provider goes through, along a history.
Along(history, step, options, f) ==
    f = [i \in 0..Len(history) |->
            IF i = 0 THEN Unused ELSE Happen(f[i - 1], history[i], i * step, options)]

\* Every history can be followed to its end.
LEMMA AlongExists ==
  ASSUME NEW options, NEW step, NEW history \in Seq(Events)
  PROVE  \E f : Along(history, step, options, f)
<1> DEFINE Upon(f, i) == IF i = 0 THEN Unused ELSE Happen(f[i - 1], history[i], i * step, options)
           Starts(k) == \E f : f = [i \in 0..k |-> Upon(f, i)]
           Bad == {k \in Nat : ~Starts(k)}
<1>1. ASSUME Bad # {} PROVE FALSE
  <2>1. PICK k \in Bad : \A j \in Bad : k <= j
    <3> HIDE DEF Bad
    <3>1. Bad \subseteq Nat
      BY DEF Bad
    <3> QED BY <1>1, <3>1, LeastNumber
  <2>2. CASE k = 0
    <3> DEFINE f == [i \in 0..0 |-> Unused]
    <3>1. f = [i \in 0..0 |-> Upon(f, i)]
      OBVIOUS
    <3>2. Starts(0)
      BY <3>1
    <3> QED BY <2>2, <3>2
  <2>3. CASE k # 0
    <3>1. k \in Nat /\ k - 1 \in Nat /\ ~ (k <= k - 1)
      BY <2>3
    <3>2. Starts(k - 1)
      BY <2>1, <3>1
    <3>3. PICK g : g = [i \in 0..(k - 1) |-> Upon(g, i)]
      BY <3>2
    <3> DEFINE last == Upon(g, k)
           f == [i \in 0..k |-> IF i = k THEN last ELSE g[i]]
    <3> HIDE DEF last
    <3>4. f[k] = Upon(g, k) /\ \A i \in 0..(k - 1) : f[i] = g[i] /\ g[i] = Upon(g, i)
      <4>1. \A i \in 0..(k - 1) : i \in 0..k /\ i # k
        BY <3>1
      <4>2. f[k] = last /\ \A i \in 0..(k - 1) : f[i] = g[i]
        BY <3>1, <4>1
      <4>3. \A i \in 0..(k - 1) : g[i] = Upon(g, i)
        BY <3>3
      <4> QED BY <4>2, <4>3 DEF last
    <3>5. ASSUME NEW i \in 0..k PROVE f[i] = Upon(f, i)
      <4>1. i # 0 => i - 1 \in 0..(k - 1)
        BY <3>1
      <4>2. i # 0 => f[i - 1] = g[i - 1]
        BY <3>4, <4>1
      <4>3. f[i] = Upon(g, i)
        <5>1. i = k \/ i \in 0..(k - 1)
          BY <3>1
        <5> HIDE DEF f
        <5> QED BY <3>4, <5>1
      <4>4. Upon(f, i) = Upon(g, i)
        <5> HIDE DEF f
        <5> QED BY <4>2
      <4> QED BY <4>3, <4>4
    <3>6. f = [i \in 0..k |-> Upon(f, i)]
      BY <3>5
    <3> HIDE DEF f
    <3>7. Starts(k)
      BY <3>6
    <3> QED BY <3>7
  <2> QED BY <2>2, <2>3
<1>2. Starts(Len(history))
  <2>1. Len(history) \in Nat
    OBVIOUS
  <2>2. \A k \in Nat : Starts(k)
    BY <1>1
  <2> HIDE DEF Starts
  <2> QED BY <2>1, <2>2
<1> QED BY <1>2 DEF Along

\* Along every history of overlapping reads, and for every threshold and cooldown: a
\* provider is passed over exactly while its last faults, counted from the last success,
\* reached a multiple of the threshold less than a cooldown ago (providers/registry.ts).
THEOREM AlwaysPassedOverWhenDead ==
  ASSUME NEW options \in Options, NEW step \in Nat, NEW history \in Seq(Events)
  PROVE  PassedOverWhenDead(history, step, options)
<1> DEFINE f == CHOOSE g : Along(history, step, options, g)
           N == Len(history)
           Bad == {i \in Nat : i <= N /\ ~ (Tells(f[i], step, options) /\ Len(f[i].log) = i)}
<1>1. Along(history, step, options, f)
  BY AlongExists
<1>2. AfterEvents(history, step, options) = f[N].log
  BY DEF AfterEvents, Along
<1> HIDE DEF f
<1>3. N \in Nat /\ \A i \in 1..N : history[i] \in Events
  OBVIOUS
<1>4. f[0] = Unused /\ \A i \in 1..N : f[i] = Happen(f[i - 1], history[i], i * step, options)
  <2>1. 0 \in 0..N /\ \A i \in 1..N : i \in 0..N /\ i # 0
    BY <1>3
  <2>2. f = [i \in 0..N |-> IF i = 0 THEN Unused
                            ELSE Happen(f[i - 1], history[i], i * step, options)]
    BY <1>1 DEF Along
  <2> QED BY <2>1, <2>2
<1>5. Tells(f[0], step, options) /\ Len(f[0].log) = 0
  <2>1. Row(<<>>, 0) = {} /\ Cardinality({}) = 0
    BY FS_EmptySet DEF Row
  <2>2. options.failureThreshold \in Nat \ {0} /\ 0 % options.failureThreshold = 0
    BY DEF Options
  <2>3. BreakerTells(Closed, {}, step, options)
    BY <2>1, <2>2 DEF BreakerTells, Marks, Closed
  <2>4. /\ Unused.log = <<>> /\ Unused.flight = 0 /\ Unused.breaker = Closed
        /\ Len(<<>>) = 0 /\ <<>> \in Seq(Entries) /\ DOMAIN <<>> = {}
    BY DEF Unused
  <2>5. Justified(Unused.log, step, options)
    BY <2>4 DEF Justified
  <2>6. Row(Unused.log, Len(Unused.log)) = {}
    BY <2>1, <2>4
  <2>7. Unused.log \in Seq(Entries) /\ Unused.flight \in Nat
    BY <2>4
  <2>8. Tells(Unused, step, options)
    BY <2>3, <2>4, <2>5, <2>6, <2>7 DEF Tells
  <2> QED BY <1>4, <2>4, <2>8
<1>6. ASSUME Bad # {} PROVE FALSE
  <2>1. PICK i \in Bad : \A j \in Bad : i <= j
    <3> HIDE DEF Bad
    <3>1. Bad \subseteq Nat
      BY DEF Bad
    <3> QED BY <1>6, <3>1, LeastNumber
  <2>2. i # 0 /\ i \in 1..N
    BY <1>3, <1>5
  <2>3. i - 1 \in Nat /\ i - 1 <= N /\ ~ (i <= i - 1)
    BY <1>3, <2>2
  <2>4. Tells(f[i - 1], step, options) /\ Len(f[i - 1].log) = i - 1
    BY <2>1, <2>3
  <2>5. (Len(f[i - 1].log) + 1) = i
    BY <1>3, <2>2, <2>4
  <2>6. f[i] = Happen(f[i - 1], history[i], (Len(f[i - 1].log) + 1) * step, options)
    BY <1>4, <2>2, <2>5
  <2> DEFINE s == f[i - 1]
  <2>7. Tells(s, step, options) /\ history[i] \in Events /\ Len(s.log) + 1 = i
        /\ f[i] = Happen(s, history[i], (Len(s.log) + 1) * step, options)
    BY <1>3, <2>2, <2>4, <2>5, <2>6
  <2> HIDE DEF s
  <2>8. Tells(f[i], step, options) /\ Len(f[i].log) = i
    BY <2>7, HappenKeeps, SMTT(30)
  <2> QED BY <2>1, <2>8
<1>7. Tells(f[N], step, options)
  BY <1>3, <1>6
<1> QED BY <1>2, <1>7 DEF Tells, PassedOverWhenDead

-----------------------------------------------------------------------------
(* Failing over: reads one after the other over any number of providers. *)

Breakers == [failures : Nat, openUntil : Nat]
Progress(n) == [breakers : [1..n -> Breakers], by : 0..n, refused : BOOLEAN, tried : SUBSET (1..n)]

\* A code that ends a read.
Ends(code) == code = "ok" \/ IsRefusal(code)

\* What is known of a read at t after p of the providers it met in state bs: who was not
\* asked was open or came after an end, and one that is still empty-handed met nobody else.
ReadTells(read, p, n, bs, t, codes) ==
    /\ read \in Progress(n)
    /\ \A q \in 1..n : q > p => read.breakers[q] = bs[q] /\ q \notin read.tried
    /\ \A q \in 1..p : q \notin read.tried =>
         IsOpen(bs[q], t) \/ \E r \in 1..(q - 1) : r \in read.tried /\ Ends(codes[r])
    /\ read.by # 0 \/ read.refused => \E r \in 1..p : r \in read.tried /\ Ends(codes[r])
    /\ read.by = 0 /\ ~read.refused => \A q \in 1..p : IsOpen(bs[q], t) \/ codes[q] \in Faulty

\* A breaker keeps its type whatever a request ends in.
LEMMA AfterTyped ==
  ASSUME NEW options \in Options, NEW breaker \in Breakers, NEW code \in Codes, NEW t \in Nat
  PROVE  After(breaker, code, t, options) \in Breakers
<1>1. options.failureThreshold \in Nat /\ options.cooldown \in Nat /\ breaker.failures \in Nat
      /\ breaker.openUntil \in Nat
  BY DEF Options, Breakers
<1>2. RecordFailure(breaker, t, options) \in Breakers
  BY <1>1 DEF RecordFailure, Breakers
<1>3. RecordSuccess(breaker) \in Breakers
  BY DEF RecordSuccess, Closed, Breakers
<1> QED BY <1>2, <1>3, CodesSort DEF After

\* One provider more.
LEMMA TryKeeps ==
  ASSUME NEW options \in Options, NEW t \in Nat, NEW n \in Nat, NEW bs \in [1..n -> Breakers],
         NEW codes \in [1..n -> Codes], NEW p \in 1..n, NEW read,
         ReadTells(read, p - 1, n, bs, t, codes)
  PROVE  ReadTells(TryNext(read, p, codes[p], t, options), p, n, bs, t, codes)
<1> DEFINE next == TryNext(read, p, codes[p], t, options)
           ended == read.by # 0 \/ read.refused
<1>1. /\ read \in Progress(n) /\ read.breakers \in [1..n -> Breakers] /\ read.by \in 0..n
      /\ read.refused \in BOOLEAN /\ read.tried \in SUBSET (1..n)
      /\ read.breakers[p] = bs[p] /\ p \notin read.tried
  BY DEF ReadTells, Progress
<1>2. n \in Nat /\ p \in Nat /\ p - 1 \in Nat /\ p # 0 /\ 1..p = 1..(p - 1) \cup {p}
  OBVIOUS
<1>3. CASE ended \/ IsOpen(bs[p], t)
  <2>1. next = read
    BY <1>1, <1>3 DEF TryNext
  <2>2. ended => \E r \in 1..(p - 1) : r \in read.tried /\ Ends(codes[r])
    BY DEF ReadTells
  <2>3. ReadTells(read, p, n, bs, t, codes)
    <3>1. \A q \in 1..n : q > p => q > p - 1
      BY <1>2
    <3>2. ASSUME NEW q \in 1..p, q \notin read.tried
          PROVE  IsOpen(bs[q], t) \/ \E r \in 1..(q - 1) : r \in read.tried /\ Ends(codes[r])
      <4>1. CASE q = p
        BY <1>3, <2>2, <4>1
      <4>2. CASE q \in 1..(p - 1)
        BY <3>2, <4>2 DEF ReadTells
      <4> QED BY <1>2, <4>1, <4>2
    <3>3. read.by # 0 \/ read.refused => \E r \in 1..p : r \in read.tried /\ Ends(codes[r])
      BY <1>2, <2>2
    <3>4. read.by = 0 /\ ~read.refused => \A q \in 1..p : IsOpen(bs[q], t) \/ codes[q] \in Faulty
      BY <1>2, <1>3 DEF ReadTells
    <3> QED BY <3>1, <3>2, <3>3, <3>4 DEF ReadTells
  <2> QED BY <2>1, <2>3
<1>4. CASE ~ended /\ ~IsOpen(bs[p], t)
  <2> DEFINE code == codes[p]
             bs2 == [read.breakers EXCEPT ![p] = After(@, code, t, options)]
             by2 == IF code = "ok" THEN p ELSE 0
             refused2 == code # "ok" /\ IsRefusal(code)
             tried2 == read.tried \cup {p}
  <2>1. next = [breakers |-> bs2, by |-> by2, refused |-> refused2, tried |-> tried2]
    BY <1>1, <1>4 DEF TryNext
  <2>2. code \in Codes
    OBVIOUS
  <2>3. bs2 \in [1..n -> Breakers] /\ \A q \in 1..n : q # p => bs2[q] = read.breakers[q]
    <3>1. After(read.breakers[p], code, t, options) \in Breakers
      BY <1>1, <2>2, AfterTyped
    <3> QED BY <1>1, <3>1
  <2>4. by2 \in 0..n /\ refused2 \in BOOLEAN /\ tried2 \in SUBSET (1..n)
    BY <1>1, <1>2 DEF IsRefusal
  <2>5. /\ by2 # 0 \/ refused2 => Ends(code)
        /\ by2 = 0 /\ ~refused2 => code \in Faulty
    BY <1>2, <2>2, CodesSort DEF Ends
  <2> HIDE DEF bs2, by2, refused2, tried2, next
  <2>6. next.breakers = bs2 /\ next.by = by2 /\ next.refused = refused2 /\ next.tried = tried2
    BY <2>1
  <2>7. next \in Progress(n)
    BY <2>1, <2>3, <2>4 DEF Progress
  <2>8. \A q \in 1..n : q > p => next.breakers[q] = bs[q] /\ q \notin next.tried
    BY <1>1, <1>2, <2>3, <2>6 DEF ReadTells, tried2
  <2>9. \A q \in 1..p : q \notin next.tried =>
          IsOpen(bs[q], t) \/ \E r \in 1..(q - 1) : r \in next.tried /\ Ends(codes[r])
    BY <1>2, <2>6 DEF ReadTells, tried2
  <2>10. next.by # 0 \/ next.refused => \E r \in 1..p : r \in next.tried /\ Ends(codes[r])
    BY <1>2, <2>5, <2>6 DEF tried2
  <2>11. next.by = 0 /\ ~next.refused => \A q \in 1..p : IsOpen(bs[q], t) \/ codes[q] \in Faulty
    <3>1. \A q \in 1..(p - 1) : IsOpen(bs[q], t) \/ codes[q] \in Faulty
      BY <1>4 DEF ReadTells
    <3>2. next.by = 0 /\ ~next.refused => codes[p] \in Faulty
      BY <2>5, <2>6
    <3> QED BY <1>2, <3>1, <3>2
  <2> QED BY <2>7, <2>8, <2>9, <2>10, <2>11 DEF ReadTells, next
<1> QED BY <1>1, <1>3, <1>4

\* The states of a read from provider to provider.
ReadAlong(bs, t, codes, options, f) ==
    f = [p \in 0..Len(bs) |->
            IF p = 0 THEN Asked(bs) ELSE TryNext(f[p - 1], p, codes[p], t, options)]

\* Every read can be followed to its end.
LEMMA ReadAlongExists ==
  ASSUME NEW bs, Len(bs) \in Nat, NEW t, NEW codes, NEW options
  PROVE  \E f : ReadAlong(bs, t, codes, options, f)
<1> DEFINE Upon(f, i) == IF i = 0 THEN Asked(bs) ELSE TryNext(f[i - 1], i, codes[i], t, options)
           Starts(k) == \E f : f = [i \in 0..k |-> Upon(f, i)]
           Bad == {k \in Nat : ~Starts(k)}
<1>1. ASSUME Bad # {} PROVE FALSE
  <2>1. PICK k \in Bad : \A j \in Bad : k <= j
    <3> HIDE DEF Bad
    <3>1. Bad \subseteq Nat
      BY DEF Bad
    <3> QED BY <1>1, <3>1, LeastNumber
  <2>2. CASE k = 0
    <3> DEFINE f == [i \in 0..0 |-> Asked(bs)]
    <3>1. f = [i \in 0..0 |-> Upon(f, i)]
      OBVIOUS
    <3>2. Starts(0)
      BY <3>1
    <3> QED BY <2>2, <3>2
  <2>3. CASE k # 0
    <3>1. k \in Nat /\ k - 1 \in Nat /\ ~ (k <= k - 1)
      BY <2>3
    <3>2. Starts(k - 1)
      BY <2>1, <3>1
    <3>3. PICK g : g = [i \in 0..(k - 1) |-> Upon(g, i)]
      BY <3>2
    <3> DEFINE last == Upon(g, k)
           f == [i \in 0..k |-> IF i = k THEN last ELSE g[i]]
    <3> HIDE DEF last
    <3>4. f[k] = Upon(g, k) /\ \A i \in 0..(k - 1) : f[i] = g[i] /\ g[i] = Upon(g, i)
      <4>1. \A i \in 0..(k - 1) : i \in 0..k /\ i # k
        BY <3>1
      <4>2. f[k] = last /\ \A i \in 0..(k - 1) : f[i] = g[i]
        BY <3>1, <4>1
      <4>3. \A i \in 0..(k - 1) : g[i] = Upon(g, i)
        BY <3>3
      <4> QED BY <4>2, <4>3 DEF last
    <3>5. ASSUME NEW i \in 0..k PROVE f[i] = Upon(f, i)
      <4>1. i # 0 => i - 1 \in 0..(k - 1)
        BY <3>1
      <4>2. i # 0 => f[i - 1] = g[i - 1]
        BY <3>4, <4>1
      <4>3. f[i] = Upon(g, i)
        <5>1. i = k \/ i \in 0..(k - 1)
          BY <3>1
        <5> HIDE DEF f
        <5> QED BY <3>4, <5>1
      <4>4. Upon(f, i) = Upon(g, i)
        <5> HIDE DEF f
        <5> QED BY <4>2
      <4> QED BY <4>3, <4>4
    <3>6. f = [i \in 0..k |-> Upon(f, i)]
      BY <3>5
    <3> HIDE DEF f
    <3>7. Starts(k)
      BY <3>6
    <3> QED BY <3>7
  <2> QED BY <2>2, <2>3
<1>2. Starts(Len(bs))
  <2>1. Len(bs) \in Nat
    OBVIOUS
  <2>2. \A k \in Nat : Starts(k)
    BY <1>1
  <2> HIDE DEF Starts
  <2> QED BY <2>1, <2>2
<1> QED BY <1>2 DEF ReadAlong

\* A read over n providers, whatever each would answer.
LEMMA ReadTold ==
  ASSUME NEW options \in Options, NEW t \in Nat, NEW n \in Nat, NEW bs \in [1..n -> Breakers],
         NEW codes \in [1..n -> Codes]
  PROVE  ReadTells(Read(bs, t, codes, options), n, n, bs, t, codes)
<1> DEFINE f == CHOOSE g : ReadAlong(bs, t, codes, options, g)
           Bad == {p \in Nat : p <= n /\ ~ReadTells(f[p], p, n, bs, t, codes)}
<1>1. Len(bs) = n
  OBVIOUS
<1>2. ReadAlong(bs, t, codes, options, f)
  BY <1>1, ReadAlongExists
<1>3. Read(bs, t, codes, options) = f[n]
  BY <1>1 DEF Read, ReadAlong
<1> HIDE DEF f
<1>4. f[0] = Asked(bs) /\ \A p \in 1..n : f[p] = TryNext(f[p - 1], p, codes[p], t, options)
  <2>1. 0 \in 0..n /\ \A p \in 1..n : p \in 0..n /\ p # 0
    OBVIOUS
  <2>2. f = [p \in 0..n |-> IF p = 0 THEN Asked(bs)
                            ELSE TryNext(f[p - 1], p, codes[p], t, options)]
    BY <1>1, <1>2 DEF ReadAlong
  <2> QED BY <2>1, <2>2
<1>5. ReadTells(f[0], 0, n, bs, t, codes)
  <2> DEFINE read == Asked(bs)
  <2>1. /\ read.breakers = bs /\ read.by = 0 /\ read.refused = FALSE /\ read.tried = {}
    BY DEF Asked
  <2>2. read \in Progress(n)
    BY DEF Asked, Progress
  <2> HIDE DEF read
  <2>3. ReadTells(read, 0, n, bs, t, codes)
    BY <2>1, <2>2 DEF ReadTells
  <2> QED BY <1>4, <2>3 DEF read
<1>6. ASSUME Bad # {} PROVE FALSE
  <2>1. PICK p \in Bad : \A j \in Bad : p <= j
    <3> HIDE DEF Bad
    <3>1. Bad \subseteq Nat
      BY DEF Bad
    <3> QED BY <1>6, <3>1, LeastNumber
  <2>2. p \in 1..n /\ p - 1 \in Nat /\ p - 1 <= n /\ ~ (p <= p - 1)
    BY <1>5
  <2>3. ReadTells(f[p - 1], p - 1, n, bs, t, codes)
    BY <2>1, <2>2
  <2> DEFINE s == f[p - 1]
  <2>4. ReadTells(s, p - 1, n, bs, t, codes) /\ f[p] = TryNext(s, p, codes[p], t, options)
    BY <1>4, <2>2, <2>3
  <2> HIDE DEF s
  <2> DEFINE next == TryNext(s, p, codes[p], t, options)
  <2> HIDE DEF next
  <2>5. ReadTells(f[p], p, n, bs, t, codes)
    <3>1. p \in 1..n /\ ReadTells(s, p - 1, n, bs, t, codes)
      BY <2>2, <2>4
    <3>2. ReadTells(next, p, n, bs, t, codes)
      BY <3>1, TryKeeps DEF next
    <3> QED BY <2>4, <3>2 DEF next
  <2> QED BY <2>1, <2>5
<1>7. ReadTells(f[n], n, n, bs, t, codes)
  BY <1>6
<1> QED BY <1>3, <1>7

\* What reads one after the other left, up to the i-th.
LogAlong(n, reads, step, options, f) ==
    f = [i \in 0..Len(reads) |->
            IF i = 0 THEN <<Asked([p \in 1..n |-> Closed])>>
            ELSE LET before == f[i - 1]
                 IN  Append(before, Read(before[i].breakers, i * step, reads[i], options))]

\* Any number of reads can be followed to the last.
LEMMA LogAlongExists ==
  ASSUME NEW n, NEW reads, Len(reads) \in Nat, NEW step, NEW options
  PROVE  \E f : LogAlong(n, reads, step, options, f)
<1> DEFINE Upon(f, i) == IF i = 0 THEN <<Asked([p \in 1..n |-> Closed])>>
                         ELSE LET before == f[i - 1]
                              IN  Append(before, Read(before[i].breakers, i * step, reads[i], options))
           Starts(k) == \E f : f = [i \in 0..k |-> Upon(f, i)]
           Bad == {k \in Nat : ~Starts(k)}
<1>1. ASSUME Bad # {} PROVE FALSE
  <2>1. PICK k \in Bad : \A j \in Bad : k <= j
    <3> HIDE DEF Bad
    <3>1. Bad \subseteq Nat
      BY DEF Bad
    <3> QED BY <1>1, <3>1, LeastNumber
  <2>2. CASE k = 0
    <3> DEFINE f == [i \in 0..0 |-> <<Asked([p \in 1..n |-> Closed])>>]
    <3>1. f = [i \in 0..0 |-> Upon(f, i)]
      OBVIOUS
    <3>2. Starts(0)
      BY <3>1
    <3> QED BY <2>2, <3>2
  <2>3. CASE k # 0
    <3>1. k \in Nat /\ k - 1 \in Nat /\ ~ (k <= k - 1)
      BY <2>3
    <3>2. Starts(k - 1)
      BY <2>1, <3>1
    <3>3. PICK g : g = [i \in 0..(k - 1) |-> Upon(g, i)]
      BY <3>2
    <3> DEFINE last == Upon(g, k)
           f == [i \in 0..k |-> IF i = k THEN last ELSE g[i]]
    <3> HIDE DEF last
    <3>4. f[k] = Upon(g, k) /\ \A i \in 0..(k - 1) : f[i] = g[i] /\ g[i] = Upon(g, i)
      <4>1. \A i \in 0..(k - 1) : i \in 0..k /\ i # k
        BY <3>1
      <4>2. f[k] = last /\ \A i \in 0..(k - 1) : f[i] = g[i]
        BY <3>1, <4>1
      <4>3. \A i \in 0..(k - 1) : g[i] = Upon(g, i)
        BY <3>3
      <4> QED BY <4>2, <4>3 DEF last
    <3>5. ASSUME NEW i \in 0..k PROVE f[i] = Upon(f, i)
      <4>1. i # 0 => i - 1 \in 0..(k - 1)
        BY <3>1
      <4>2. i # 0 => f[i - 1] = g[i - 1]
        BY <3>4, <4>1
      <4>3. f[i] = Upon(g, i)
        <5>1. i = k \/ i \in 0..(k - 1)
          BY <3>1
        <5> HIDE DEF f
        <5> QED BY <3>4, <5>1
      <4>4. Upon(f, i) = Upon(g, i)
        <5> HIDE DEF f
        <5> QED BY <4>2
      <4> QED BY <4>3, <4>4
    <3>6. f = [i \in 0..k |-> Upon(f, i)]
      BY <3>5
    <3> HIDE DEF f
    <3>7. Starts(k)
      BY <3>6
    <3> QED BY <3>7
  <2> QED BY <2>2, <2>3
<1>2. Starts(Len(reads))
  <2>1. Len(reads) \in Nat
    OBVIOUS
  <2>2. \A k \in Nat : Starts(k)
    BY <1>1
  <2> HIDE DEF Starts
  <2> QED BY <2>1, <2>2
<1> QED BY <1>2 DEF LogAlong

\* Each read so far was told of what the one before it left.
LogTells(log, i, n, reads, step) ==
    /\ log \in Seq(Progress(n)) /\ Len(log) = i + 1
    /\ \A k \in 1..i : ReadTells(log[k + 1], n, n, log[k].breakers, k * step, reads[k])

\* One read more.
LEMMA LogKeeps ==
  ASSUME NEW options \in Options, NEW step \in Nat, NEW n \in Nat,
         NEW reads \in Seq([1..n -> Codes]), NEW i \in 1..Len(reads), NEW log,
         LogTells(log, i - 1, n, reads, step)
  PROVE  LogTells(Append(log, Read(log[i].breakers, i * step, reads[i], options)),
                  i, n, reads, step)
<1> DEFINE read == Read(log[i].breakers, i * step, reads[i], options)
           next == Append(log, read)
           P == Progress(n)
           C == [1..n -> Codes]
<1>1. log \in Seq(P) /\ Len(log) = i /\ i \in Nat /\ i # 0
  BY DEF LogTells
<1>2. reads \in Seq(C)
  OBVIOUS
<1>3. \A r \in P : r.breakers \in [1..n -> Breakers]
  BY DEF Progress
<1> HIDE DEF P, C
<1>4. log[i] \in P /\ reads[i] \in C
  BY <1>1, <1>2
<1>5. ReadTells(read, n, n, log[i].breakers, i * step, reads[i])
  <2>1. i * step \in Nat
    BY <1>1
  <2>2. log[i].breakers \in [1..n -> Breakers] /\ reads[i] \in [1..n -> Codes]
    BY <1>3, <1>4 DEF C
  <2> QED BY <2>1, <2>2, ReadTold
<1>6. read \in P
  BY <1>5 DEF ReadTells, P
<1> HIDE DEF read
<1>7. /\ next \in Seq(P) /\ Len(next) = i + 1 /\ next[i + 1] = read
      /\ \A k \in 1..i : next[k] = log[k]
  BY <1>1, <1>6
<1> HIDE DEF next
<1>8. ASSUME NEW k \in 1..i
      PROVE  ReadTells(next[k + 1], n, n, next[k].breakers, k * step, reads[k])
  <2>1. CASE k = i
    BY <1>1, <1>5, <1>7, <2>1
  <2>2. CASE k # i
    <3>1. k \in 1..(i - 1) /\ k + 1 \in 1..i
      BY <1>1, <2>2
    <3>2. ReadTells(log[k + 1], n, n, log[k].breakers, k * step, reads[k])
      BY <3>1 DEF LogTells
    <3> QED BY <1>7, <3>1, <3>2
  <2> QED BY <2>1, <2>2
<1> QED BY <1>7, <1>8 DEF LogTells, next, read, P

\* Any number of reads one after the other over any number of providers, for every
\* threshold and cooldown: they are asked in their order, one is left out only while its
\* breaker is open or after an end, and a read comes back empty-handed only if it was
\* refused or every provider failed it or was open (FallbackProvider.read).
THEOREM AlwaysFailsOver ==
  ASSUME NEW options \in Options, NEW step \in Nat, NEW n \in Nat,
         NEW reads \in Seq([1..n -> Codes])
  PROVE  FailsOver(n, reads, step, options)
<1> DEFINE f == CHOOSE g : LogAlong(n, reads, step, options, g)
           N == Len(reads)
           Bad == {i \in Nat : i <= N /\ ~LogTells(f[i], i, n, reads, step)}
<1>1. N \in Nat /\ DOMAIN reads = 1..N
  OBVIOUS
<1>2. LogAlong(n, reads, step, options, f)
  BY <1>1, LogAlongExists
<1>3. AfterReads(n, reads, step, options) = f[N]
  BY DEF AfterReads, LogAlong
<1> HIDE DEF f
<1>4. /\ f[0] = <<Asked([p \in 1..n |-> Closed])>>
      /\ \A i \in 1..N :
           f[i] = Append(f[i - 1], Read(f[i - 1][i].breakers, i * step, reads[i], options))
  <2>1. 0 \in 0..N /\ \A i \in 1..N : i \in 0..N /\ i # 0
    BY <1>1
  <2>2. f = [i \in 0..N |->
               IF i = 0 THEN <<Asked([p \in 1..n |-> Closed])>>
               ELSE Append(f[i - 1], Read(f[i - 1][i].breakers, i * step, reads[i], options))]
    BY <1>2 DEF LogAlong
  <2> QED BY <2>1, <2>2
<1>5. LogTells(f[0], 0, n, reads, step)
  <2> DEFINE first == Asked([p \in 1..n |-> Closed])
  <2>1. first \in Progress(n)
    BY DEF Asked, Progress, Closed, Breakers
  <2> HIDE DEF first
  <2>2. <<first>> \in Seq(Progress(n)) /\ Len(<<first>>) = 1
    BY <2>1
  <2>3. LogTells(<<first>>, 0, n, reads, step)
    BY <2>2 DEF LogTells
  <2> QED BY <1>4, <2>3 DEF first
<1>6. ASSUME Bad # {} PROVE FALSE
  <2>1. PICK i \in Bad : \A j \in Bad : i <= j
    <3> HIDE DEF Bad
    <3>1. Bad \subseteq Nat
      BY DEF Bad
    <3> QED BY <1>6, <3>1, LeastNumber
  <2>2. i \in 1..N /\ i - 1 \in Nat /\ i - 1 <= N /\ ~ (i <= i - 1)
    BY <1>1, <1>5
  <2>3. LogTells(f[i - 1], i - 1, n, reads, step)
    BY <2>1, <2>2
  <2> DEFINE s == f[i - 1]
  <2>4. /\ LogTells(s, i - 1, n, reads, step)
        /\ f[i] = Append(s, Read(s[i].breakers, i * step, reads[i], options))
    BY <1>4, <2>2, <2>3
  <2> HIDE DEF s
  <2>5. LogTells(Append(s, Read(s[i].breakers, i * step, reads[i], options)), i, n, reads, step)
    <3>1. i \in 1..Len(reads)
      BY <2>2
    <3> HIDE DEF N
    <3> QED BY <2>4, <3>1, LogKeeps
  <2>6. LogTells(f[i], i, n, reads, step)
    BY <2>4, <2>5
  <2> QED BY <2>1, <2>6
<1> DEFINE log == f[N]
<1>7. LogTells(log, N, n, reads, step)
  BY <1>1, <1>6
<1> HIDE DEF log
<1>8. ASSUME NEW i \in 1..N
      PROVE  /\ \A p \in 1..n : p \notin log[i + 1].tried =>
                  \/ IsOpen(log[i].breakers[p], i * step)
                  \/ \E q \in 1..(p - 1) : q \in log[i + 1].tried
                                  /\ (reads[i][q] = "ok" \/ IsRefusal(reads[i][q]))
             /\ log[i + 1].by = 0 /\ ~log[i + 1].refused =>
                  \A p \in 1..n : IsOpen(log[i].breakers[p], i * step) \/ reads[i][p] \in Faulty
  <2>1. ReadTells(log[i + 1], n, n, log[i].breakers, i * step, reads[i])
    BY <1>7 DEF LogTells
  <2> QED BY <2>1 DEF ReadTells, Ends
<1> QED BY <1>1, <1>3, <1>8 DEF FailsOver, log

-----------------------------------------------------------------------------
(* Reconciling *)

\* Of some positions of a sequence, one is the last.
LEMMA LastPosition ==
  ASSUME NEW N \in Nat, NEW S \in SUBSET (1..N), S # {}
  PROVE  Max(S) \in S
<1> DEFINE D == {N - i : i \in S}
<1>1. D \subseteq Nat /\ D # {}
  <2>1. \A i \in S : N - i \in Nat
    OBVIOUS
  <2>2. \A d \in D : d \in Nat
    BY <2>1
  <2>3. PICK i \in S : TRUE
    OBVIOUS
  <2>4. N - i \in D
    OBVIOUS
  <2> QED BY <2>2, <2>4
<1> HIDE DEF D
<1>2. PICK d \in D : \A e \in D : d <= e
  BY <1>1, LeastNumber
<1>3. PICK i \in S : d = N - i
  BY DEF D
<1>4. ASSUME NEW j \in S PROVE i >= j
  <2>1. N - j \in D
    BY DEF D
  <2>2. i \in Nat /\ j \in Nat /\ N - i <= N - j
    BY <1>2, <1>3, <2>1
  <2> QED BY <2>2
<1>5. \E x \in S : \A y \in S : x >= y
  BY <1>4
<1> QED BY <1>5 DEF Max

\* Listings that tell of registered tokens what the wallet holds, or something malformed.
Listings(contracts, held) == {listing \in Seq(contracts \X Int) :
    \A i \in DOMAIN listing :
        listing[i][1] \in DOMAIN held => listing[i][2] \in {Fails, held[listing[i][1]]}}

\* What reading the tokens one by one answers when some of the calls fail.
FailingFor(tokens, held, failing) ==
    [a \in tokens |-> IF a \in failing THEN Fails ELSE held[a]]

\* For any tokens, balances and failures, and whatever else a listing contains: no cached
\* balance exceeds what the chain holds, what the provider could read is exact, and tokens
\* nobody registered leave no trace (getTokenBalances, chain-sync.ts reconcileBalances).
THEOREM AlwaysReconciled ==
  ASSUME NEW tokens, NEW held \in [tokens -> Nat], NEW failing \in SUBSET tokens,
         NEW cached, tokens \subseteq DOMAIN cached,
         NEW contracts, NEW listing \in Listings(contracts, held)
  PROVE  ReconcileSound(cached, held, FailingFor(tokens, held, failing), listing)
<1> DEFINE answers == FailingFor(tokens, held, failing)
           At(a) == {i \in DOMAIN listing : listing[i][1] = a /\ listing[i][2] # Fails}
           one == EvmTokenBalances(answers)
           all == ListedTokenBalances(DOMAIN answers, listing)
           evm == ReconcileBalances(cached, one)
           tron == ReconcileBalances(cached, all)
<1>1. /\ DOMAIN answers = tokens /\ DOMAIN one = tokens /\ DOMAIN all = tokens
      /\ \A a \in tokens : one[a] = IF a \in failing THEN 0 ELSE held[a]
      /\ \A a \in tokens : answers[a] = IF a \in failing THEN Fails ELSE held[a]
      /\ \A a \in tokens : all[a] = IF At(a) = {} THEN 0 ELSE listing[Max(At(a))][2]
  BY DEF FailingFor, EvmTokenBalances, ListedTokenBalances, Fails
<1> HIDE DEF answers, one, all
<1>2. /\ \A a \in tokens : evm[a] = one[a] /\ tron[a] = all[a]
      /\ \A a \in DOMAIN cached \ tokens : evm[a] = cached[a] /\ tron[a] = cached[a]
  BY <1>1 DEF ReconcileBalances
<1> HIDE DEF evm, tron
<1>3. ASSUME NEW a \in tokens
      PROVE  evm[a] <= held[a] /\ (answers[a] # Fails => evm[a] = held[a])
  BY <1>1, <1>2
<1>4. ASSUME NEW a \in tokens, NEW i \in DOMAIN listing, listing[i] = <<a, held[a]>>
      PROVE  tron[a] = held[a]
  <2> DEFINE S == At(a)
  <2>1. held[a] \in Nat /\ held[a] # Fails
    BY DEF Fails
  <2>2. i \in S
    BY <1>4, <2>1
  <2>3. Len(listing) \in Nat /\ S \in SUBSET (1..Len(listing))
    BY DEF Listings
  <2>4. Max(S) \in S
    <3> HIDE DEF S
    <3> QED BY <2>2, <2>3, LastPosition
  <2>5. listing[Max(S)][2] = held[a]
    BY <2>4 DEF Listings
  <2> HIDE DEF S
  <2> QED BY <1>1, <1>2, <2>2, <2>5 DEF S
<1>5. ASSUME NEW a \in DOMAIN cached \ tokens PROVE {evm[a], tron[a]} = {cached[a]}
  BY <1>2
<1> QED BY <1>1, <1>3, <1>4, <1>5 DEF ReconcileSound, evm, tron, one, all, answers

-----------------------------------------------------------------------------
(* One transfer, whatever the environment, the node and the signer (module Transfers) *)

\* What the variables of a process may hold: any text where text is read, any number
\* for the cap.
RawVariables(Texts) ==
    [app : Texts, chain : Texts, mock : Texts, sending : Texts, pin : Texts,
     signer : {"mock", "remote"}, hmac : BOOLEAN, keys : BOOLEAN, complete : BOOLEAN,
     cap : Int, fx : Texts \X Texts]

\* A configuration that was loaded, field by field.
LEMMA Loaded ==
    ASSUME NEW Texts, NEW raw \in RawVariables(Texts)
    PROVE  LET env == Tr!LoadServerConfig(raw) IN
           /\ env.app = raw.app /\ env.chain = raw.chain /\ env.signer = raw.signer
           /\ env.complete = raw.complete /\ env.keys = raw.keys
           /\ env.mock = Tr!Booleanish(raw.mock, TRUE)
           /\ env.sending = Tr!Booleanish(raw.sending, FALSE)
           /\ env.pin = Tr!Booleanish(raw.pin, TRUE)
           /\ env.cap = Tr!PositiveInt(raw.cap, 250) * 100
<1> DEFINE parsed == Tr!Parsed(raw)
           env    == Tr!LoadServerConfig(raw)
<1>1. DOMAIN raw = {"app", "chain", "mock", "sending", "pin", "signer", "hmac", "keys",
                    "complete", "cap", "fx"}
  BY DEF RawVariables
<1>2. /\ parsed.app = raw.app /\ parsed.chain = raw.chain /\ parsed.signer = raw.signer
      /\ parsed.complete = raw.complete /\ parsed.keys = raw.keys
      /\ parsed.mock = Tr!Booleanish(raw.mock, TRUE)
      /\ parsed.sending = Tr!Booleanish(raw.sending, FALSE)
      /\ parsed.pin = Tr!Booleanish(raw.pin, TRUE)
      /\ parsed.cap = Tr!PositiveInt(raw.cap, 250)
      /\ DOMAIN parsed = DOMAIN raw
  BY DEF RawVariables, Tr!Parsed
<1>3. env = [parsed EXCEPT !.cap = @ * 100,
                           !.fx = IF @[2] \in {Tr!Nothing, @[1]} THEN <<@[1]>> ELSE @]
  BY DEF Tr!LoadServerConfig
<1> HIDE DEF parsed, env
<1>4. /\ env.app = parsed.app /\ env.chain = parsed.chain /\ env.signer = parsed.signer
      /\ env.complete = parsed.complete /\ env.keys = parsed.keys
      /\ env.mock = parsed.mock /\ env.sending = parsed.sending /\ env.pin = parsed.pin
      /\ env.cap = parsed.cap * 100
  BY <1>1, <1>2, <1>3
<1> QED  BY <1>2, <1>4 DEF env

\* Whatever is built for a network, the service signs what a TRON node built and nothing
\* else; so a send that gets past the signer is one.
LEMMA OnlyTronIsSigned ==
    ASSUME NEW net \in Tr!Covered, NEW env, NEW request, NEW node, NEW signature,
           signature \in {"signed", "refused", "silent"},
           Tr!RemoteSign(net, Tr!Build(env, net, request, node), signature) = Tr!Nothing
    PROVE  /\ net = "tron" /\ ~Tr!UseMock(env)
           /\ Tr!Build(env, net, request, node) \in {Tr!NoPayload, Tr!Payload("tron", node)}
<1> DEFINE payload == Tr!Build(env, net, request, node)
<1>1. net \in Tr!AcceptedBySigner /\ Tr!CanSign(net, payload)
  BY DEF Tr!RemoteSign, Tr!Nothing
<1>2. net = "tron" /\ payload.by = "tron"
  BY <1>1 DEF Tr!AcceptedBySigner, Tr!CanSign
<1>3. ~Tr!UseMock(env)
  <2>1. Tr!MockBuild(request).by # "tron"
    BY DEF Tr!MockBuild, Tr!Payload
  <2> QED  BY <1>2, <2>1 DEF Tr!Build
<1>4. payload = Tr!TronBuild(request, node)
  BY <1>2, <1>3 DEF Tr!Build
<1> QED  BY <1>2, <1>3, <1>4 DEF Tr!TronBuild

\* A send is truthful in every environment a process starts in, whatever is requested and
\* whatever the node and the signer answer: what is shown as simulated moved nothing, and
\* no missing or misspelt variable moves money on a mainnet (config.ts, context.ts,
\* signer/index.ts).
THEOREM SendsAreTruthful ==
    ASSUME NEW Texts, NEW raw \in RawVariables(Texts), NEW dbEnabled \in BOOLEAN, NEW net \in Tr!Covered,
           NEW request, NEW node, NEW signature \in {"signed", "refused", "silent"},
           NEW reply \in Tr!Replies
    PROVE  Tr!SendIsTruthful(raw, dbEnabled, net, request, node, signature, reply)
<1> DEFINE env == Tr!LoadServerConfig(raw)
           payload == Tr!Build(env, net, request, node)
           refused == Tr!RemoteSign(net, payload, signature)
           s == Tr!Send(env, dbEnabled, net, request, node, signature, reply)
<1>1. /\ env.app = raw.app /\ env.chain = raw.chain /\ env.signer = raw.signer
      /\ env.complete = raw.complete /\ env.keys = raw.keys
      /\ env.mock = Tr!Booleanish(raw.mock, TRUE)
      /\ env.sending = Tr!Booleanish(raw.sending, FALSE)
      /\ env.pin = Tr!Booleanish(raw.pin, TRUE)
      /\ env.cap = Tr!PositiveInt(raw.cap, 250) * 100
  BY Loaded
<1>2. env.sending => raw.sending = "on"
  BY <1>1 DEF Tr!Booleanish
<1>3. env.pin => raw.pin \in {Tr!Absent, "on"}
  BY <1>1 DEF Tr!Booleanish
<1>4. env.cap >= 100
  <2>1. raw.cap \in Int
    BY DEF RawVariables
  <2> QED  BY <1>1, <2>1 DEF Tr!PositiveInt
<1>5. s = IF ~(env.sending /\ dbEnabled)
            THEN [code |-> "SENDING_DISABLED", simulated |-> FALSE, moved |-> Tr!NoPayload]
          ELSE IF Tr!Refusal(net, request) # Tr!Nothing
            THEN [code |-> Tr!Refusal(net, request), simulated |-> FALSE, moved |-> Tr!NoPayload]
          ELSE IF payload = Tr!NoPayload
            THEN [code |-> "PROVIDER_ERROR", simulated |-> FALSE, moved |-> Tr!NoPayload]
          ELSE IF ~Tr!UseRemoteSigner(env)
            THEN [code |-> Tr!Nothing, simulated |-> TRUE, moved |-> Tr!NoPayload]
          ELSE IF refused # Tr!Nothing
            THEN [code |-> refused, simulated |-> FALSE, moved |-> Tr!NoPayload]
          ELSE [code |-> IF Tr!UseMock(env) THEN Tr!Nothing ELSE Tr!Broadcast(net, reply),
                simulated |-> FALSE,
                moved |-> IF ~Tr!UseMock(env) /\ Tr!WithNode(reply) THEN payload ELSE Tr!NoPayload]
  BY DEF Tr!Send, Tr!MockSign
<1> DEFINE signed == /\ env.sending /\ dbEnabled /\ payload # Tr!NoPayload
                     /\ Tr!UseRemoteSigner(env) /\ refused = Tr!Nothing
<1>6. signed => net = "tron" /\ ~Tr!UseMock(env) /\ payload = Tr!Payload("tron", node)
  BY OnlyTronIsSigned
<1>7. raw.signer \in {"mock", "remote"}
  BY DEF RawVariables
<1> HIDE DEF env, payload, refused, s
<1>8. s.moved # Tr!NoPayload =>
        /\ signed /\ s.moved = payload /\ Tr!WithNode(reply)
        /\ ~s.simulated /\ s.code = Tr!Broadcast(net, reply)
  BY <1>5, <1>6
<1>9. s.simulated => ~Tr!UseRemoteSigner(env) /\ env.sending /\ s.moved = Tr!NoPayload
  BY <1>5
<1>10. Tr!Issues(env) = {} => (s.code = Tr!Nothing => (s.simulated <=> (s.moved = Tr!NoPayload)))
  <2>1. SUFFICES ASSUME s.code = Tr!Nothing, ~s.simulated PROVE s.moved # Tr!NoPayload
    BY <1>9
  <2>2. signed /\ s.code = Tr!Broadcast(net, reply)
    BY <1>5, <1>6, <2>1 DEF Tr!Nothing
  <2>3. Tr!TronBroadcast(reply) = Tr!Nothing => Tr!WithNode(reply)
    BY DEF Tr!TronBroadcast, Tr!WithNode, Tr!Nothing, Tr!Replies
  <2> QED  BY <1>5, <1>6, <2>1, <2>2, <2>3 DEF Tr!Broadcast
<1>11. Tr!Issues(env) = {} /\ s.moved # Tr!NoPayload /\ env.chain = "mainnet" =>
         /\ ~Tr!SafeModeAlert(env) /\ env.complete
         /\ raw.sending = "on" /\ raw.pin \in {Tr!Absent, "on"} /\ env.cap >= 100
  <2>1. SUFFICES ASSUME Tr!Issues(env) = {}, s.moved # Tr!NoPayload, env.chain = "mainnet"
                 PROVE  /\ ~Tr!SafeModeAlert(env) /\ env.complete
                        /\ raw.sending = "on" /\ raw.pin \in {Tr!Absent, "on"} /\ env.cap >= 100
    OBVIOUS
  <2>2. Tr!IsProduction(env) /\ env.sending
    BY <1>8, <2>1 DEF Tr!UseRemoteSigner
  <2>3. "incomplete" \notin Tr!Issues(env) /\ "pin" \notin Tr!Issues(env)
    BY <2>1
  <2>4. env.complete /\ env.pin
    BY <2>2, <2>3 DEF Tr!Issues
  <2> QED  BY <1>2, <1>3, <1>4, <2>1, <2>2, <2>4 DEF Tr!SafeModeAlert, Tr!SafeMode
<1>12. s.moved # Tr!NoPayload =>
         net = "tron" /\ (node = request => s.moved = Tr!Payload("tron", request))
  BY <1>6, <1>8
<1>13. s.code = "SIGNER_REJECTED" /\ s.moved # Tr!NoPayload => reply = "known"
  <2>1. Tr!TronBroadcast(reply) = "SIGNER_REJECTED" /\ Tr!WithNode(reply) => reply = "known"
    BY DEF Tr!TronBroadcast, Tr!WithNode, Tr!Nothing, Tr!Replies
  <2> QED  BY <1>6, <1>8, <2>1 DEF Tr!Broadcast
<1>14. Tr!Issues(env) = {} /\ Tr!IsProduction(env) => ~s.simulated
  <2>1. SUFFICES ASSUME Tr!Issues(env) = {}, Tr!IsProduction(env), s.simulated PROVE FALSE
    <3>1. s.simulated \in BOOLEAN
      BY <1>5
    <3> QED  BY <3>1
  <2>2. "mockSigner" \notin Tr!Issues(env)
    BY <2>1
  <2>3. env.signer # "mock"
    BY <1>9, <2>1, <2>2 DEF Tr!Issues
  <2> QED  BY <1>1, <1>7, <1>9, <2>1, <2>3 DEF Tr!UseRemoteSigner
<1> QED  BY <1>10, <1>11, <1>12, <1>13, <1>14 DEF Tr!SendIsTruthful, env, s

\* For every block a transaction may be in, every head and every depth: it is confirmed
\* exactly when it succeeded that deep, and fails only on what a node knows of it
\* (trackConfirmations, the providers' getTransactionStatus).
THEOREM FinalOnlyWhenDeep ==
    ASSUME NEW tx \in [at : Nat, ok : BOOLEAN, seen : BOOLEAN], NEW head \in Nat,
           NEW required \in Nat \ {0}
    PROVE  Tr!FinalWhenDeep(tx, head, required)
<1>1. tx.at \in Nat /\ tx.ok \in BOOLEAN /\ tx.seen \in BOOLEAN
  OBVIOUS
<1>2. Tr!Unknown.found = FALSE /\ Tr!Unknown.succeeded = FALSE /\ Tr!Unknown.confirmations = 0
  BY DEF Tr!Unknown
<1> DEFINE e == Tr!EvmStatus(tx, head)
           t == Tr!TronStatus(tx, head)
<1>3. CASE tx.at = 0
  <2>1. e = [found |-> tx.seen, succeeded |-> FALSE, confirmations |-> 0]
    BY <1>3 DEF Tr!EvmStatus, Tr!Unknown
  <2>2. t = [found |-> FALSE, succeeded |-> FALSE, confirmations |-> 0]
    BY <1>3 DEF Tr!TronStatus, Tr!Unknown
  <2> HIDE DEF e, t
  <2>3. Tr!Verdict(e, required) = (IF tx.seen THEN "failed" ELSE Tr!Nothing)
    BY <2>1, <1>1 DEF Tr!Verdict
  <2>4. Tr!Verdict(t, required) = Tr!Nothing
    BY <2>2 DEF Tr!Verdict
  <2> QED  BY <2>3, <2>4, <1>3 DEF Tr!FinalWhenDeep, Tr!Nothing, e, t
<1>4. CASE tx.at # 0
  <2>1. e = [found |-> TRUE, succeeded |-> tx.ok, confirmations |-> head - tx.at + 1]
    BY <1>4 DEF Tr!EvmStatus
  <2>2. t = [found |-> TRUE, succeeded |-> tx.ok,
             confirmations |-> IF head >= tx.at THEN head - tx.at + 1 ELSE 0]
    BY <1>4 DEF Tr!TronStatus
  <2> HIDE DEF e, t
  <2>3. Tr!Verdict(e, required) = (IF ~tx.ok THEN "failed"
            ELSE IF tx.at + required <= head + 1 THEN "confirmed" ELSE "confirming")
    BY <2>1, <1>1, <1>4 DEF Tr!Verdict
  <2>4. Tr!Verdict(t, required) = (IF ~tx.ok THEN "failed"
            ELSE IF tx.at + required <= head + 1 THEN "confirmed" ELSE "confirming")
    BY <2>2, <1>1, <1>4 DEF Tr!Verdict
  <2>5. tx.at > 0
    BY <1>1, <1>4
  <2> QED  BY <2>3, <2>4, <2>5, <1>1 DEF Tr!FinalWhenDeep, e, t
<1> QED  BY <1>3, <1>4

-----------------------------------------------------------------------------
(* The inputs TLC evaluates the functions of Providers and Transfers over are among   *)
(* those of the theorems above.                                                       *)

Words == {"development", "staging", "production", "mainnet", "testnet", Tr!Absent, "on", "no",
          "erapi"}

LEMMA EnvironmentsAreRaw == Environments \subseteq RawVariables(Words)
BY DEF Environments, Words, RawVariables

LEMMA FunctionIsSequence ==
    ASSUME NEW S, NEW n \in Nat, NEW f \in [1..n -> S]
    PROVE  f \in Seq(S)
OBVIOUS

LEMMA TransfersAlwaysHold == TransfersHold
<1>1. ASSUME NEW raw \in Environments, NEW on \in BOOLEAN, NEW net \in Tr!Covered,
             NEW request \in Requests, NEW node \in Answered,
             NEW signature \in {"signed", "refused", "silent"}, NEW reply \in Tr!Replies
      PROVE  Tr!SendIsTruthful(raw, on, net, request, node, signature, reply)
  BY SendsAreTruthful, EnvironmentsAreRaw
<1>2. ASSUME NEW tx \in [at : 0..3, ok : BOOLEAN, seen : BOOLEAN], NEW head \in 0..6,
             NEW required \in 1..3
      PROVE  Tr!FinalWhenDeep(tx, head, required)
  <2>1. tx \in [at : Nat, ok : BOOLEAN, seen : BOOLEAN] /\ head \in Nat /\ required \in Nat \ {0}
    OBVIOUS
  <2> QED  BY <2>1, FinalOnlyWhenDeep
<1> QED  BY <1>1, <1>2 DEF TransfersHold

LEMMA EndingsAreCodes == Endings \subseteq Codes /\ BreakerOptions \subseteq Options
BY DEF Endings, Codes, CodeOf, StatusOf, BreakerOptions, Options

\* Every function a run evaluates beside the states of the sync is sound there: reads fail
\* over, breakers pass over the dead, fees are bounded, balances reconciled and sends
\* truthful (packages/blockchain, config.ts).
THEOREM ProvidersAlwaysSound == Spec => []ProvidersSound
<1>1. ASSUME NEW options \in BreakerOptions, NEW seen \in [1..7 -> Endings \cup {"begin"}]
      PROVE  PassedOverWhenDead(seen, 1, options)
  <2>1. Endings \cup {"begin"} \subseteq Events /\ 7 \in Nat
    BY EndingsAreCodes DEF Events
  <2>3. seen \in [1..7 -> Events]
    BY <2>1
  <2>4. seen \in Seq(Events)
    BY <2>1, <2>3, FunctionIsSequence
  <2>2. options \in Options /\ 1 \in Nat
    BY EndingsAreCodes
  <2> QED  BY <2>4, <2>2, AlwaysPassedOverWhenDead
<1>2. ASSUME NEW options \in BreakerOptions, NEW reads \in [1..4 -> [1..2 -> Endings]],
             NEW step \in 1..2
      PROVE  FailsOver(2, reads, step, options)
  <2>1. reads \in [1..4 -> [1..2 -> Codes]] /\ 4 \in Nat
    BY EndingsAreCodes
  <2>3. reads \in Seq([1..2 -> Codes])
    BY <2>1, FunctionIsSequence
  <2>2. options \in Options /\ step \in Nat /\ 2 \in Nat
    BY EndingsAreCodes
  <2> QED  BY <2>2, <2>3, AlwaysFailsOver
<1>3. ASSUME NEW gas \in Chains, NEW isToken \in BOOLEAN, NEW amount \in 0..3, NEW node \in Nodes
      PROVE  FeesBounded(gas, isToken, amount, node)
  <2>1. gas \in Fees /\ gas.fallbackGasPriceWei <= gas.maxGasPriceWei
    BY DEF Chains, Fees
  <2>2. node \in NodeAnswers /\ amount \in Int
    BY DEF Nodes, NodeAnswers, Fails
  <2> QED  BY <2>1, <2>2, FeesAlwaysBounded
<1>4. ASSUME NEW cached \in [{"usdt", "usdc", "off"} -> 0..1],
             NEW held \in [{"usdt", "usdc"} -> 1..2], NEW failing \in SUBSET {"usdt", "usdc"},
             NEW listing \in UNION {[1..n -> {"usdt", "usdc", "fake"} \X {Fails, 1, 2}] : n \in 0..2},
             \A i, j \in DOMAIN listing :
                /\ listing[i][1] \in DOMAIN held => listing[i][2] \in {Fails, held[listing[i][1]]}
                /\ i # j => listing[i][1] # listing[j][1]
      PROVE  ReconcileSound(cached, held,
                 [a \in DOMAIN held |-> IF a \in failing THEN Fails ELSE held[a]], listing)
  <2> DEFINE tokens == {"usdt", "usdc"}
             contracts == {"usdt", "usdc", "fake"}
  <2>1. held \in [tokens -> Nat] /\ DOMAIN held = tokens /\ tokens \subseteq DOMAIN cached
    OBVIOUS
  <2>2. PICK n \in 0..2 : listing \in [1..n -> contracts \X {Fails, 1, 2}]
    OBVIOUS
  <2>3. listing \in Seq(contracts \X Int)
    <3>1. listing \in [1..n -> contracts \X Int] /\ n \in Nat
      BY <2>2 DEF Fails
    <3> QED  BY <3>1, FunctionIsSequence
  <2>4. listing \in Listings(contracts, held)
    BY <1>4, <2>3 DEF Listings
  <2>5. failing \in SUBSET tokens
    OBVIOUS
  <2> HIDE DEF contracts, tokens
  <2>6. ReconcileSound(cached, held, FailingFor(tokens, held, failing), listing)
    BY <2>1, <2>4, <2>5, AlwaysReconciled
  <2>7. DOMAIN held = tokens
    BY <2>1
  <2> QED  BY <2>6, <2>7 DEF FailingFor
<1>5. ProvidersHold
  BY <1>1, <1>2, <1>3, <1>4, TransfersAlwaysHold DEF ProvidersHold
<1>6. ProvidersSound
  BY <1>5 DEF ProvidersSound
<1> QED  BY <1>6, PTL

=============================================================================
