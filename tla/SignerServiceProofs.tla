------------------------ MODULE SignerServiceProofs ------------------------
(***************************************************************************)
(* Proofs about SignerService for every number of calls, intents and       *)
(* keys, every cap, window, skew and cache bound.                          *)
(*                                                                         *)
(* A request let in stays among the nonces until its time leaves the       *)
(* window, because its sender's clock is ahead by less than the skew       *)
(* (NonceKept); an intent that was signed keeps its answer (AnswerKept);   *)
(* the spend records are the signatures of this process that the window    *)
(* still covers (SpendKept); and the file, or the one write that has       *)
(* emptied it, holds every address that was promised (FileKept).           *)
(***************************************************************************)
EXTENDS SignerService, FiniteSetTheorems, WellFoundedInduction, TLAPS

\* A call that was made asks something, with a time at most Drift ahead; one answered
\* with a wallet has its address.
CallSound(c) ==
    \/ call[c] = Untouched
    \/ /\ call[c].state # "idle" /\ call[c].asked \in SignRequests \cup GenerateRequests
       /\ call[c].at <= now + Drift
       /\ call[c].asked.path = "/generate" /\ call[c].state = "ok" => call[c].address # NoAddress
CallsSound == \A c \in Calls : CallSound(c)

\* A write is one of a /generate of this process and writes the keys it holds.
WritesSound ==
    /\ ~up => writes = {}
    /\ \A w \in writes : /\ call[w.call].asked \in GenerateRequests
                         /\ w.address \in w.entries /\ w.entries \subseteq keys

\* A request handled is refused from then on: it is remembered, or too old.
NonceKept ==
    \A c \in Calls :
        /\ handled[c] <= 1
        /\ handled[c] = 1 => /\ call[c] # Untouched
                             /\ \/ now > call[c].at + Skew
                                \/ \E s \in seen : s.nonce = c /\ s.until > call[c].at + Skew

\* An intent signed for is remembered.
AnswerKept ==
    \A i \in Intents :
        repeats[i] <= 1 /\ (repeats[i] = 1 => PreviousResult("/sign", i) # {})

\* The records are this process's signatures, none of them missing that the window covers.
SpendKept ==
    /\ ~up => spent = {}
    /\ \A r \in spent : r.start = starts
    /\ \A s \in signatures :
          /\ s.n <= Cardinality(signatures) /\ s.at <= now /\ s.start <= starts
          /\ up /\ s.start = starts /\ s.at >= now - Window => s \in spent

\* The addresses that were given out or will be given out again.
Answers == {p \in processed : p.path = "/generate"}
Promised == GivenOut \cup {p.address : p \in Answers}
FileKept ==
    /\ \A p \in Answers : p.address # NoAddress
    /\ ~damaged =>
          /\ \A w, v \in writes : w = v
          /\ up => Promised \subseteq keys
          /\ IF \E w \in writes : w.opened
             THEN file = Truncated
             ELSE file.parses /\ Promised \subseteq file.text /\ (up => file.text \subseteq keys)
          /\ \A w \in writes : Promised \cup file.text \subseteq w.entries

IInv == /\ TypeOK /\ CallsSound /\ WritesSound /\ NonceKept /\ AnswerKept
        /\ SpendKept /\ DailyCapHolds /\ FileKept

----------------------------------------------------------------------------
(* The sum of the values of a finite set of records: Usd is the value at the set of  *)
(* the function that the fold defines on its subsets, whichever member the fold      *)
(* takes first.                                                                      *)

Pick(S) == CHOOSE x \in S : TRUE
Sums(g, S) == g = [T \in SUBSET S |-> IF T = {} THEN 0 ELSE Pick(T).value + g[T \ {Pick(T)}]]

LEMMA UsdUnfolds == 
  ASSUME NEW S
  PROVE Usd(S) = (CHOOSE s : Sums(s, S))[S]
BY DEF Usd, MapThenSumSet, MapThenFoldSet, Sums, Pick

\* Induction over finite sets: what fails for some subset fails for a least one.
LEMMA Least ==
  ASSUME NEW S, IsFiniteSet(S), NEW B \in SUBSET SUBSET S, B # {}
  PROVE  \E T \in B : \A U \in B : U \subseteq T => U = T
<1>1. IsWellFoundedOn(StrictSubsetOrdering(S), SUBSET S)
  BY FS_StrictSubsetOrderingWellFounded, FS_FiniteSubsetsOfFinite
<1>2. PICK T \in B : \A U \in B : ~ (<<U, T>> \in StrictSubsetOrdering(S))
  BY <1>1, WFMin
<1> QED  BY <1>2 DEF StrictSubsetOrdering

\* One step of the recursion.
Unfolds(g, T) ==
    /\ T = {} => g[T] = 0
    /\ T # {} => Pick(T) \in T /\ g[T] = Pick(T).value + g[T \ {Pick(T)}]

LEMMA SumsStep ==
  ASSUME NEW S, NEW g, Sums(g, S)
  PROVE  \A T \in SUBSET S : Unfolds(g, T)
<1> SUFFICES ASSUME NEW T \in SUBSET S PROVE Unfolds(g, T)
  OBVIOUS
<1>1. g[T] = IF T = {} THEN 0 ELSE Pick(T).value + g[T \ {Pick(T)}]
  BY DEF Sums
<1>2. T # {} => Pick(T) \in T
  BY DEF Pick
<1> QED  BY <1>1, <1>2 DEF Unfolds

\* The sum of a set does not depend on the set whose subsets the function is defined on.
LEMMA SumsAgree ==
  ASSUME NEW S, IsFiniteSet(S), NEW R \in SUBSET S, NEW g, Sums(g, S), NEW h, Sums(h, R),
         NEW T \in SUBSET R
  PROVE  g[T] = h[T]
<1> DEFINE Bad == {U \in SUBSET R : g[U] # h[U]}
<1> SUFFICES Bad = {}
  OBVIOUS
<1> SUFFICES ASSUME Bad # {} PROVE FALSE
  OBVIOUS
<1>1. PICK U \in Bad : \A V \in Bad : V \subseteq U => V = U
  <2>1. Bad \in SUBSET SUBSET R
    OBVIOUS
  <2>2. IsFiniteSet(R)
    BY FS_Subset
  <2> HIDE DEF Bad
  <2> QED  BY <2>1, <2>2, Least
<1>2. U \in SUBSET R /\ U \in SUBSET S
  OBVIOUS
<1>3. (\A V \in SUBSET S : Unfolds(g, V)) /\ (\A V \in SUBSET R : Unfolds(h, V))
  BY SumsStep
<1>4. /\ U # {} /\ Pick(U) \in U
      /\ g[U] = Pick(U).value + g[U \ {Pick(U)}]
      /\ h[U] = Pick(U).value + h[U \ {Pick(U)}]
  BY <1>2, <1>3 DEF Unfolds
<1>5. U \ {Pick(U)} \notin Bad
  BY <1>1, <1>4
<1> QED  BY <1>2, <1>4, <1>5

\* The function exists.
LEMMA SumsExist ==
  ASSUME NEW S, IsFiniteSet(S)
  PROVE  \E g : Sums(g, S)
<1> DEFINE Bad == {R \in SUBSET S : ~ \E g : Sums(g, R)}
<1> SUFFICES ASSUME Bad # {} PROVE FALSE
  OBVIOUS
<1>1. PICK R \in Bad : \A V \in Bad : V \subseteq R => V = R
  <2>1. Bad \in SUBSET SUBSET S
    OBVIOUS
  <2> HIDE DEF Bad
  <2> QED  BY <2>1, Least
<1> DEFINE Of(T) == CHOOSE s : Sums(s, T)
           s == [T \in SUBSET R |-> IF T = {} THEN 0
                                     ELSE Pick(T).value + Of(T \ {Pick(T)})[T \ {Pick(T)}]]
<1>2. ASSUME NEW T \in SUBSET R, T # R PROVE Sums(Of(T), T)
  <2>1. T \notin Bad
    BY <1>1, <1>2
  <2> QED  BY <2>1
<1>3. ASSUME NEW T \in SUBSET R, T # R PROVE Of(T)[T] = s[T]
  <2>1. Sums(Of(T), T)
    BY <1>2, <1>3
  <2>0. Unfolds(Of(T), T)
    <3> HIDE DEF Of
    <3> QED  BY <2>1, SumsStep
  <2>2. CASE T = {}
    <3>1. Of(T)[T] = 0
      BY <2>0, <2>2 DEF Unfolds
    <3> QED  BY <2>2, <3>1
  <2>3. CASE T # {}
    <3> DEFINE U == T \ {Pick(T)}
    <3>1. Pick(T) \in T /\ Of(T)[T] = Pick(T).value + Of(T)[U]
      BY <2>0, <2>3 DEF Unfolds
    <3>2. U \in SUBSET R /\ U # R
      BY <3>1
    <3>3. Sums(Of(U), U)
      BY <1>2, <3>2
    <3>4. IsFiniteSet(T)
      BY FS_Subset
    <3> HIDE DEF Of
    <3>5. Of(T)[U] = Of(U)[U]
      BY <2>1, <3>3, <3>4, SumsAgree
    <3>6. s[T] = Pick(T).value + Of(U)[U]
      BY <2>3
    <3> QED  BY <3>1, <3>5, <3>6
  <2> QED  BY <2>2, <2>3
<1>4. Sums(s, R)
  <2> HIDE DEF Of
  <2>1. ASSUME NEW T \in SUBSET R, T # {}
        PROVE  s[T] = Pick(T).value + s[T \ {Pick(T)}]
    <3>1. Pick(T) \in T
      BY <2>1 DEF Pick
    <3>2. T \ {Pick(T)} \in SUBSET R /\ T \ {Pick(T)} # R
      BY <3>1
    <3>3. Of(T \ {Pick(T)})[T \ {Pick(T)}] = s[T \ {Pick(T)}]
      BY <1>3, <3>2
    <3>4. s[T] = Pick(T).value + Of(T \ {Pick(T)})[T \ {Pick(T)}]
      BY <2>1
    <3> QED  BY <3>3, <3>4
  <2>2. s = [T \in SUBSET R |-> s[T]]
    OBVIOUS
  <2>3. \A T \in SUBSET R : s[T] = IF T = {} THEN 0 ELSE Pick(T).value + s[T \ {Pick(T)}]
    <3>1. {} \in SUBSET R => s[{}] = 0
      OBVIOUS
    <3> HIDE DEF s
    <3> QED  BY <2>1, <3>1
  <2> HIDE DEF s
  <2> QED  BY <2>2, <2>3 DEF Sums
<1> QED  BY <1>1, <1>4

\* The sum of a set counts each member once, whichever is taken out first.
LEMMA SumsRemove ==
  ASSUME NEW S, IsFiniteSet(S), \A r \in S : r.value \in Nat, NEW g, Sums(g, S)
  PROVE  \A T \in SUBSET S :
            /\ g[T] \in Nat
            /\ \A x \in T : g[T] = x.value + g[T \ {x}]
<1> DEFINE Good(T) == g[T] \in Nat /\ \A x \in T : g[T] = x.value + g[T \ {x}]
           Bad == {T \in SUBSET S : ~ Good(T)}
<1> SUFFICES ASSUME Bad # {} PROVE FALSE
  OBVIOUS
<1>1. PICK T \in Bad : \A V \in Bad : V \subseteq T => V = T
  <2>1. Bad \in SUBSET SUBSET S
    OBVIOUS
  <2> HIDE DEF Bad
  <2> QED  BY <2>1, Least
<1>0. \A U \in SUBSET S : Unfolds(g, U)
  BY SumsStep
<1>2. T \in SUBSET S /\ ~ Good(T)
  OBVIOUS
<1>3. ASSUME NEW U \in SUBSET T, U # T PROVE Good(U)
  <2>1. U \in SUBSET S /\ U \notin Bad
    BY <1>1, <1>2, <1>3
  <2> HIDE DEF Good
  <2> QED  BY <2>1
<1>4. T # {}
  <2>1. {} \in SUBSET S /\ g[{}] = 0
    <3>1. {} \in SUBSET S
      OBVIOUS
    <3> QED  BY <3>1, <1>0 DEF Unfolds
  <2>2. Good({})
    BY <2>1
  <2> HIDE DEF Good
  <2> QED  BY <1>2, <2>2
<1> DEFINE c == Pick(T)
<1>5. c \in T /\ g[T] = c.value + g[T \ {c}]
  BY <1>0, <1>2, <1>4 DEF Unfolds
<1> HIDE DEF c
<1>6. T \ {c} \in SUBSET T /\ T \ {c} # T
  BY <1>5
<1>7. c.value \in Nat /\ g[T \ {c}] \in Nat
  BY <1>2, <1>3, <1>5, <1>6
<1>8. g[T] \in Nat
  BY <1>5, <1>7
<1>9. ASSUME NEW x \in T, x # c PROVE g[T] = x.value + g[T \ {x}]
  <2>1. T \ {x} \in SUBSET T /\ T \ {x} # T /\ c \in T \ {x} /\ x \in T \ {c}
    BY <1>5, <1>9
  <2>2. (T \ {x}) \ {c} = (T \ {c}) \ {x} /\ (T \ {c}) \ {x} \in SUBSET T /\ (T \ {c}) \ {x} # T
    BY <1>9
  <2>3. g[T \ {x}] = c.value + g[(T \ {c}) \ {x}]
    BY <1>3, <2>1, <2>2
  <2>4. g[T \ {c}] = x.value + g[(T \ {c}) \ {x}]
    BY <1>3, <1>6, <2>1
  <2>5. g[(T \ {c}) \ {x}] \in Nat
    BY <1>3, <2>2
  <2>6. x.value \in Nat
    BY <1>2, <1>9
  <2> QED  BY <1>5, <1>7, <2>3, <2>4, <2>5, <2>6
<1> QED  BY <1>2, <1>5, <1>8, <1>9

\* What SumsRemove says of the function, said of Usd.
LEMMA UsdAdd ==
  ASSUME NEW S, IsFiniteSet(S), \A r \in S : r.value \in Nat,
         NEW x, x \notin S, x.value \in Nat
  PROVE  Usd(S) \in Nat /\ Usd(S \cup {x}) = Usd(S) + x.value
<1> DEFINE All == S \cup {x}
           g == CHOOSE s : Sums(s, S)
           h == CHOOSE s : Sums(s, All)
<1>1. IsFiniteSet(All)
  BY FS_AddElement
<1>2. Sums(g, S) /\ Sums(h, All)
  BY <1>1, SumsExist
<1>3. Usd(S) = g[S] /\ Usd(All) = h[All]
  BY UsdUnfolds
<1>5. /\ S \in SUBSET All /\ S \in SUBSET S /\ All \in SUBSET All
      /\ x \in All /\ All \ {x} = S
  OBVIOUS
<1>6. \A r \in All : r.value \in Nat
  OBVIOUS
<1> HIDE DEF g, h, All
<1>4. h[S] = g[S]
  BY <1>1, <1>2, <1>5, SumsAgree
<1>7. \A T \in SUBSET All : h[T] \in Nat /\ \A y \in T : h[T] = y.value + h[T \ {y}]
  BY <1>1, <1>2, <1>6, SumsRemove
<1>8. h[All] = x.value + h[S] /\ h[S] \in Nat
  BY <1>5, <1>7
<1> QED  BY <1>3, <1>4, <1>8 DEF All

----------------------------------------------------------------------------
(* Types *)

USE TimesAssumption, CapsAssumption, MemoryAssumption

CallType(m) ==
    [state : CallStates, asked : SignRequests \cup GenerateRequests \cup {NoRequest},
     at : Nat, address : {NoAddress} \cup 1..m]

LEMMA RequestsAre ==
  /\ \A q \in SignRequests : q.path = "/sign" /\ q.key \in Intents /\ q.value \in Values
  /\ \A q \in GenerateRequests : q.path = "/generate" /\ q.key \in Intents
  /\ \A q \in SignRequests \cup GenerateRequests \cup {NoRequest} :
        /\ q.path = "/sign" => q \in SignRequests
        /\ q.path = "/generate" => q \in GenerateRequests
BY DEF SignRequests, GenerateRequests, NoRequest

\* An answer changes at most the state and the address of a call that waits.
Answered(c, state, address) ==
    \A d \in Calls :
        /\ call'[d].asked = call[d].asked /\ call'[d].at = call[d].at
        /\ \/ call'[d] = call[d]
           \/ /\ d = c /\ call[d].state = "sent"
              /\ call'[d].state = state /\ call'[d].address = address

LEMMA AnswerShape ==
  ASSUME TypeOK, NEW c \in Calls, NEW state \in CallStates,
         NEW m \in Nat, minted <= m, NEW address \in {NoAddress} \cup 1..m,
         Answer(c, state, address)
  PROVE  call' \in [Calls -> CallType(m)] /\ Answered(c, state, address)
<1> DEFINE next == [call[c] EXCEPT !.state = state, !.address = address]
<1>1. call \in [Calls -> CallType(minted)]
  BY DEF TypeOK, CallType
<1>2. CallType(minted) \subseteq CallType(m)
  BY DEF TypeOK, CallType
<1>3. next \in CallType(m)
  BY <1>1 DEF CallType
<1>4. /\ next.asked = call[c].asked /\ next.at = call[c].at
      /\ next.state = state /\ next.address = address
  BY <1>1 DEF CallType
<1>5. CASE call[c].state = "sent"
  <2>1. call' = [call EXCEPT ![c] = next]
    BY <1>1, <1>5 DEF Answer
  <2> HIDE DEF next
  <2>2. call'[c] = next /\ \A d \in Calls : d # c => call'[d] = call[d]
    BY <1>1, <2>1
  <2>3. call' \in [Calls -> CallType(m)]
    BY <1>1, <1>2, <1>3, <2>1
  <2> QED  BY <1>4, <1>5, <2>2, <2>3 DEF Answered
<1>6. CASE call[c].state # "sent"
  <2>1. call' = call
    BY <1>6 DEF Answer
  <2> QED  BY <1>1, <1>2, <2>1 DEF Answered
<1> QED  BY <1>5, <1>6

LEMMA ClaimTyped ==
  ASSUME TypeOK, NEW c \in Calls, ClaimNonce(c)
  PROVE  /\ seen' \subseteq [nonce : Calls, until : Nat]
         /\ {handled, arrivals}' \subseteq [Calls -> Nat]
<1>1. now \in Nat /\ seen \subseteq [nonce : Calls, until : Nat]
      /\ handled \in [Calls -> Nat] /\ arrivals \in [Calls -> Nat]
  BY DEF TypeOK
<1>2. [nonce |-> c, until |-> now + 2 * Skew] \in [nonce : Calls, until : Nat]
  BY <1>1
<1>3. Remembered \subseteq seen
  BY DEF Remembered
<1>4. seen' \subseteq [nonce : Calls, until : Nat]
  BY <1>1, <1>2, <1>3 DEF ClaimNonce
<1>5. handled' \in [Calls -> Nat]
  BY <1>1 DEF ClaimNonce
<1>6. arrivals' \in [Calls -> Nat]
  BY <1>1 DEF ClaimNonce
<1> QED  BY <1>4, <1>5, <1>6

LEMMA RememberTyped ==
  ASSUME TypeOK, NEW path \in Paths, NEW key \in Intents, NEW address \in {NoAddress} \cup 1..minted,
         RememberResult(path, key, address)
  PROVE  processed' \subseteq [path : Paths, key : Intents, address : {NoAddress} \cup 1..minted]
<1> DEFINE Kept == IF Cardinality(processed) > MaxProcessed THEN {} ELSE processed
           Type == [path : Paths, key : Intents, address : {NoAddress} \cup 1..minted]
<1>1. Kept \subseteq Type
  BY DEF TypeOK
<1>2. [path |-> path, key |-> key, address |-> address] \in Type
  OBVIOUS
<1>3. processed' = {p \in Kept : p.path # path \/ p.key # key}
                     \cup {[path |-> path, key |-> key, address |-> address]}
  BY DEF RememberResult
<1> HIDE DEF Kept, Type
<1>4. processed' \subseteq Type
  BY <1>1, <1>2, <1>3
<1> QED  BY <1>4 DEF Type

LEMMA RecordTyped ==
  ASSUME TypeOK, NEW c \in Calls, call[c].asked \in SignRequests
  PROVE  LET x == SpendRecord(call[c].asked) IN
         /\ x \in [n : Nat, at : 0..MaxTime, value : Values, start : 0..MaxStarts]
         /\ x.n = Cardinality(signatures) + 1 /\ x.at = now /\ x.start = starts
         /\ x.value = call[c].asked.value
<1>1. Cardinality(signatures) \in Nat
  BY FS_CardinalityType DEF TypeOK
<1>2. call[c].asked.value \in Values
  BY RequestsAre
<1> QED  BY <1>1, <1>2 DEF TypeOK, SpendRecord

LEMMA TypeStep ==
  ASSUME TypeOK, CallsSound, WritesSound, Next
  PROVE  TypeOK'
<1> USE DEF TypeOK
<1>1. CASE Tick
  BY <1>1 DEF Tick, memory, disk, history
<1>2. CASE Start
  BY <1>2 DEF Start, memory, disk, history
<1>3. CASE Stop
  <2>1. handled' \in [Calls -> Nat] /\ repeats' \in [Intents -> Nat]
    BY <1>3 DEF Stop
  <2> QED  BY <1>3, <2>1 DEF Stop, memory, disk, history
<1>4. ASSUME NEW c \in Calls, NEW q \in SignRequests \cup GenerateRequests, Post(c, q)
      PROVE  TypeOK'
  <2>1. PICK at \in now..now + Drift :
          call' = [call EXCEPT ![c] = [state |-> "sent", asked |-> q, at |-> at,
                                       address |-> NoAddress]]
    BY <1>4 DEF Post
  <2>2. [state |-> "sent", asked |-> q, at |-> at, address |-> NoAddress] \in CallType(minted)
    BY DEF CallType, CallStates
  <2>3. call' \in [Calls -> CallType(minted)]
    BY <2>1, <2>2 DEF CallType
  <2> QED  BY <1>4, <2>3 DEF Post, CallType, memory, disk, history
<1>5. ASSUME NEW c \in Calls, GiveUp(c) PROVE TypeOK'
  <2>1. [call[c] EXCEPT !.state = "unavailable"] \in CallType(minted)
    BY DEF CallType, CallStates
  <2>2. call' \in [Calls -> CallType(minted)]
    BY <1>5, <2>1 DEF GiveUp, CallType
  <2> QED  BY <1>5, <2>2 DEF GiveUp, CallType, memory, disk, history
<1>6. ASSUME NEW c \in Calls, StoreWallet(c) PROVE TypeOK'
  <2>1. [call[c] EXCEPT !.state = "stored"] \in CallType(minted)
    BY DEF CallType, CallStates
  <2>2. call' \in [Calls -> CallType(minted)]
    BY <1>6, <2>1 DEF StoreWallet, CallType
  <2>3. /\ call[c].state = "ok" /\ call[c].asked.path = "/generate" /\ call[c] # Untouched
    BY <1>6 DEF StoreWallet, Untouched
  <2>4. call[c].address \in 1..minted /\ call[c].asked.key \in Intents
    BY <2>3, RequestsAre DEF CallsSound, CallSound
  <2>5. WalletRow(c) \in [address : 1..minted, key : Intents]
    BY <2>4 DEF WalletRow
  <2>6. wallets' \subseteq [address : 1..minted, key : Intents]
    BY <1>6, <2>5 DEF StoreWallet
  <2> QED  BY <1>6, <2>2, <2>6 DEF StoreWallet, CallType, memory, disk, history
<1>7. ASSUME NEW c \in Calls, Refuse(c) PROVE TypeOK'
  <2>1. call' \in [Calls -> CallType(minted)]
    BY <1>7, AnswerShape DEF Refuse, CallStates
  <2>2. seen' \subseteq seen
    BY <1>7 DEF Refuse, Remembered
  <2>3. arrivals' \in [Calls -> Nat]
    BY <1>7 DEF Refuse
  <2> QED  BY <1>7, <2>1, <2>2, <2>3 DEF Refuse, CallType, memory, disk, history
<1>8. ASSUME NEW c \in Calls, HandleSign(c) PROVE TypeOK'
  <2>1. call' \in [Calls -> CallType(minted)]
    BY <1>8, AnswerShape DEF HandleSign, CallStates
  <2>2. call[c].asked \in SignRequests
    BY <1>8, RequestsAre DEF HandleSign
  <2>3. SpendRecord(call[c].asked) \in [n : Nat, at : 0..MaxTime, value : Values, start : 0..MaxStarts]
    BY <2>2, RecordTyped
  <2> DEFINE x == SpendRecord(call[c].asked)
  <2>4. spent' = Recent \cup {x} /\ signatures' = signatures \cup {x} /\ Recent \subseteq spent
    BY <1>8 DEF HandleSign, Recent
  <2>5. IsFiniteSet(signatures \cup {x})
    BY FS_AddElement
  <2>6. processed' \subseteq [path : Paths, key : Intents, address : {NoAddress} \cup 1..minted]
    BY <1>8, <2>2, RequestsAre, RememberTyped DEF HandleSign, Paths
  <2>7. repeats' \in [Intents -> Nat]
    BY <1>8 DEF HandleSign
  <2>8. /\ seen' \subseteq [nonce : Calls, until : Nat]
        /\ {handled, arrivals}' \subseteq [Calls -> Nat]
    BY <1>8, ClaimTyped DEF HandleSign
  <2>9. UNCHANGED <<now, starts, up, keys, disk, minted, wallets>>
    BY <1>8 DEF HandleSign
  <2> HIDE DEF x
  <2>10. /\ signatures' \subseteq [n : Nat, at : 0..MaxTime, value : Values, start : 0..MaxStarts]
         /\ IsFiniteSet(signatures') /\ spent' \subseteq signatures'
    BY <2>3, <2>4, <2>5 DEF x
  <2> QED  BY <2>1, <2>6, <2>7, <2>8, <2>9, <2>10 DEF CallType, disk
<1>9. ASSUME NEW c \in Calls, RefuseSign(c) PROVE TypeOK'
  <2>1. call' \in [Calls -> CallType(minted)]
    BY <1>9, AnswerShape DEF RefuseSign, CallStates
  <2>2. /\ seen' \subseteq [nonce : Calls, until : Nat]
        /\ {handled, arrivals}' \subseteq [Calls -> Nat]
    BY <1>9, ClaimTyped DEF RefuseSign
  <2> QED  BY <1>9, <2>1, <2>2 DEF RefuseSign, CallType, disk
<1>10. ASSUME NEW c \in Calls, GenerateAtOnce(c) PROVE TypeOK'
  <2>1. PICK p \in PreviousResult("/generate", call[c].asked.key) : Answer(c, "ok", p.address)
    BY <1>10 DEF GenerateAtOnce
  <2>2. p.address \in {NoAddress} \cup 1..minted
    BY DEF PreviousResult
  <2>3. call' \in [Calls -> CallType(minted)]
    BY <2>1, <2>2, AnswerShape DEF CallStates
  <2>4. /\ seen' \subseteq [nonce : Calls, until : Nat]
        /\ {handled, arrivals}' \subseteq [Calls -> Nat]
    BY <1>10, ClaimTyped DEF GenerateAtOnce
  <2> QED  BY <1>10, <2>3, <2>4 DEF GenerateAtOnce, CallType, disk
<1>11. ASSUME NEW c \in Calls, Generate(c) PROVE TypeOK'
  <2>1. /\ seen' \subseteq [nonce : Calls, until : Nat]
        /\ {handled, arrivals}' \subseteq [Calls -> Nat]
    BY <1>11, ClaimTyped DEF Generate
  <2> DEFINE w == [call |-> c, address |-> minted + 1, entries |-> WithKey(minted + 1), opened |-> FALSE]
  <2>2. /\ minted' = minted + 1 /\ keys' = WithKey(minted + 1) /\ writes' = writes \cup {w}
        /\ damaged' \in BOOLEAN
        /\ UNCHANGED <<now, starts, up, spent, processed, file, call, wallets, signatures, repeats>>
    BY <1>11 DEF Generate
  <2>3. WithKey(minted + 1) \subseteq 0..minted + 1 /\ 0..minted \subseteq 0..minted + 1
        /\ 1..minted \subseteq 1..minted + 1 /\ minted + 1 \in 1..minted + 1 /\ minted + 1 \in Nat
    BY DEF WithKey
  <2>4. w \in [call : Calls, address : 1..minted + 1, entries : SUBSET (0..minted + 1), opened : BOOLEAN]
    BY <2>3
  <2> HIDE DEF w
  <2>5. writes' \subseteq [call : Calls, address : 1..minted', entries : SUBSET (0..minted'), opened : BOOLEAN]
    BY <2>2, <2>3, <2>4
  <2>6. processed' \subseteq [path : Paths, key : Intents, address : {NoAddress} \cup 1..minted']
    BY <2>2, <2>3
  <2>7. CallType(minted) \subseteq CallType(minted')
    BY <2>2, <2>3 DEF CallType
  <2>8. call' \in [Calls -> CallType(minted')]
    BY <2>2, <2>7 DEF CallType
  <2>9. wallets' \subseteq [address : 1..minted', key : Intents]
    BY <2>2, <2>3
  <2>10. file' \in [text : SUBSET (0..minted'), parses : BOOLEAN] /\ keys' \subseteq 0..minted'
    BY <2>2, <2>3
  <2>11. now' \in 0..MaxTime /\ starts' \in 0..MaxStarts /\ up' \in BOOLEAN /\ minted' \in Nat
         /\ signatures' \subseteq [n : Nat, at : 0..MaxTime, value : Values, start : 0..MaxStarts]
         /\ IsFiniteSet(signatures') /\ spent' \subseteq signatures' /\ repeats' \in [Intents -> Nat]
    BY <2>2, <2>3
  <2> QED  BY <2>1, <2>2, <2>5, <2>6, <2>8, <2>9, <2>10, <2>11 DEF CallType
<1>12. ASSUME NEW w \in writes, OpenFile(w) PROVE TypeOK'
  <2>1. [w EXCEPT !.opened = TRUE] \in
          [call : Calls, address : 1..minted, entries : SUBSET (0..minted), opened : BOOLEAN]
    OBVIOUS
  <2> QED  BY <1>12, <2>1 DEF OpenFile, Truncated, memory, disk, history
<1>13. ASSUME NEW w \in writes, WriteEnds(w) PROVE TypeOK'
  <2>1. w.call \in Calls /\ w.address \in 1..minted /\ w.entries \subseteq 0..minted
    OBVIOUS
  <2>2. call' \in [Calls -> CallType(minted)]
    BY <1>13, <2>1, AnswerShape DEF WriteEnds, CallStates
  <2>3. call[w.call].asked.key \in Intents
    BY RequestsAre DEF WritesSound
  <2>4. processed' \subseteq [path : Paths, key : Intents, address : {NoAddress} \cup 1..minted]
    BY <1>13, <2>1, <2>3, RememberTyped DEF WriteEnds, Paths
  <2>5. file' \in [text : SUBSET (0..minted), parses : BOOLEAN]
    BY <1>13, <2>1 DEF WriteEnds, Overwrite
  <2>6. repeats' \in [Intents -> Nat] /\ writes' \subseteq writes
    BY <1>13 DEF WriteEnds
  <2>7. UNCHANGED <<now, starts, up, keys, seen, spent, damaged, minted, wallets, signatures, handled, arrivals>>
    BY <1>13 DEF WriteEnds
  <2> QED  BY <2>2, <2>4, <2>5, <2>6, <2>7 DEF CallType
<1>14. ASSUME NEW w \in writes, WriteFails(w) PROVE TypeOK'
  <2>1. w.call \in Calls /\ w.opened \in BOOLEAN
    OBVIOUS
  <2>2. call' \in [Calls -> CallType(minted)]
    BY <1>14, <2>1, AnswerShape DEF WriteFails, CallStates
  <2> QED  BY <1>14, <2>1, <2>2 DEF WriteFails, CallType, memory, disk, history
<1> QED  BY <1>1, <1>2, <1>3, <1>4, <1>5, <1>6, <1>7, <1>8, <1>9, <1>10, <1>11, <1>12, <1>13, <1>14 DEF Next

----------------------------------------------------------------------------
(* Calls and writes *)

\* A call that was made asks for the same from then on.
CallsGo ==
    \A d \in Calls :
        call[d] # Untouched =>
            call'[d] # Untouched /\ call'[d].asked = call[d].asked /\ call'[d].at = call[d].at

LEMMA AnswerKeeps ==
  ASSUME TypeOK, CallsSound, now' = now, NEW c \in Calls, NEW m \in Nat, minted <= m,
         NEW state \in {"ok", "rejected", "unavailable"}, NEW address \in {NoAddress} \cup 1..m,
         Answer(c, state, address),
         call[c].asked.path = "/generate" /\ state = "ok" => address # NoAddress
  PROVE  CallsSound' /\ CallsGo
<1>1. Answered(c, state, address)
  BY AnswerShape DEF CallStates
<1>2. ASSUME NEW d \in Calls, call[d] = Untouched PROVE call'[d] = Untouched
  BY <1>1, <1>2 DEF Answered, Untouched
<1>3. ASSUME NEW d \in Calls, call[d] # Untouched
      PROVE  /\ call'[d] # Untouched
             /\ call'[d].asked = call[d].asked /\ call'[d].at = call[d].at
             /\ CallSound(d)'
  <2>1. /\ call[d].state # "idle" /\ call[d].asked \in SignRequests \cup GenerateRequests
        /\ call[d].at <= now + Drift
        /\ call[d].asked.path = "/generate" /\ call[d].state = "ok" => call[d].address # NoAddress
    BY <1>3 DEF CallsSound, CallSound
  <2>2. /\ call'[d].asked = call[d].asked /\ call'[d].at = call[d].at
        /\ \/ call'[d] = call[d]
           \/ call'[d].state = state /\ call'[d].address = address /\ d = c
    BY <1>1 DEF Answered
  <2>3. call'[d].state # "idle"
    BY <2>1, <2>2
  <2>4. call'[d] # Untouched
    BY <2>3 DEF Untouched
  <2>5. call'[d].asked.path = "/generate" /\ call'[d].state = "ok" => call'[d].address # NoAddress
    BY <2>1, <2>2
  <2>6. call'[d].at <= now' + Drift
    BY <2>1, <2>2
  <2> QED  BY <2>1, <2>2, <2>3, <2>4, <2>5, <2>6 DEF CallSound
<1> QED  BY <1>2, <1>3 DEF CallsSound, CallSound, CallsGo

\* The other changes of a call.
LEMMA CallChanges ==
  ASSUME TypeOK, CallsSound, now' = now, NEW c \in Calls, NEW r, call' = [call EXCEPT ![c] = r],
         r.state # "idle", r.asked \in SignRequests \cup GenerateRequests, r.at <= now + Drift,
         r.state # "ok",
         call[c] # Untouched => r.asked = call[c].asked /\ r.at = call[c].at
  PROVE  CallsSound' /\ CallsGo
<1>1. call'[c] = r /\ \A d \in Calls : d # c => call'[d] = call[d]
  BY DEF TypeOK
<1>2. r # Untouched
  BY DEF Untouched
<1>3. \A d \in Calls : CallSound(d)'
  BY <1>1 DEF CallsSound, CallSound
<1> QED  BY <1>1, <1>2, <1>3 DEF CallsSound, CallsGo

LEMMA CallStep ==
  ASSUME TypeOK, CallsSound, WritesSound, FileKept, Next
  PROVE  CallsSound' /\ CallsGo
<1>0. now \in Nat /\ minted \in Nat
  BY DEF TypeOK
<1>1. ASSUME call' = call, now' \in Nat, now <= now' PROVE CallsSound' /\ CallsGo
  <2>1. ASSUME NEW d \in Calls PROVE CallSound(d)'
    <3>1. CASE call[d] = Untouched
      BY <1>1, <3>1 DEF CallSound
    <3>2. CASE call[d] # Untouched
      <4>1. call[d].at \in Nat /\ call[d].at <= now + Drift
        BY <3>2 DEF CallsSound, CallSound, TypeOK
      <4>2. call[d].at <= now' + Drift
        BY <1>0, <1>1, <4>1
      <4> QED  BY <1>1, <3>2, <4>2 DEF CallsSound, CallSound
    <3> QED  BY <3>1, <3>2
  <2> QED  BY <1>1, <2>1 DEF CallsSound, CallsGo
<1>2. CASE Tick
  BY <1>0, <1>1, <1>2 DEF Tick
<1>3. CASE Start
  BY <1>0, <1>1, <1>3 DEF Start
<1>4. CASE Stop
  BY <1>0, <1>1, <1>4 DEF Stop
<1>5. ASSUME NEW c \in Calls, NEW q \in SignRequests \cup GenerateRequests, Post(c, q)
      PROVE  CallsSound' /\ CallsGo
  <2>1. PICK at \in now..now + Drift :
          call' = [call EXCEPT ![c] = [state |-> "sent", asked |-> q, at |-> at,
                                       address |-> NoAddress]]
    BY <1>5 DEF Post
  <2> DEFINE r == [state |-> "sent", asked |-> q, at |-> at, address |-> NoAddress]
  <2>2. /\ r.state # "idle" /\ r.asked \in SignRequests \cup GenerateRequests /\ r.at <= now + Drift
        /\ r.state # "ok"
    BY <1>0
  <2>3. call[c] = Untouched /\ now' = now /\ call' = [call EXCEPT ![c] = r]
    BY <1>5, <2>1 DEF Post
  <2> HIDE DEF r
  <2> QED  BY <2>2, <2>3, CallChanges
<1>6. ASSUME NEW c \in Calls, GiveUp(c) PROVE CallsSound' /\ CallsGo
  <2> DEFINE r == [call[c] EXCEPT !.state = "unavailable"]
  <2>1. call' = [call EXCEPT ![c] = r] /\ now' = now
    BY <1>6 DEF GiveUp
  <2>2. call[c] # Untouched
    BY <1>6 DEF GiveUp, Untouched
  <2>3. /\ r.state = "unavailable" /\ r.asked = call[c].asked /\ r.at = call[c].at
    BY DEF TypeOK
  <2> HIDE DEF r
  <2>4. call[c].asked \in SignRequests \cup GenerateRequests /\ call[c].at <= now + Drift
    BY <2>2 DEF CallsSound, CallSound
  <2> QED  BY <2>1, <2>2, <2>3, <2>4, CallChanges
<1>7. ASSUME NEW c \in Calls, StoreWallet(c) PROVE CallsSound' /\ CallsGo
  <2> DEFINE r == [call[c] EXCEPT !.state = "stored"]
  <2>1. call' = [call EXCEPT ![c] = r] /\ now' = now
    BY <1>7 DEF StoreWallet
  <2>2. call[c] # Untouched
    BY <1>7 DEF StoreWallet, Untouched
  <2>3. /\ r.state = "stored" /\ r.asked = call[c].asked /\ r.at = call[c].at
    BY DEF TypeOK
  <2> HIDE DEF r
  <2>4. call[c].asked \in SignRequests \cup GenerateRequests /\ call[c].at <= now + Drift
    BY <2>2 DEF CallsSound, CallSound
  <2> QED  BY <2>1, <2>2, <2>3, <2>4, CallChanges
<1>8. ASSUME NEW c \in Calls, Refuse(c) PROVE CallsSound' /\ CallsGo
  <2>1. Answer(c, "rejected", NoAddress) /\ now' = now
    BY <1>8 DEF Refuse
  <2> QED  BY <1>0, <2>1, AnswerKeeps
<1>9. ASSUME NEW c \in Calls, HandleSign(c) PROVE CallsSound' /\ CallsGo
  <2>1. Answer(c, "ok", NoAddress) /\ now' = now /\ call[c].asked.path # "/generate"
    BY <1>9 DEF HandleSign
  <2> QED  BY <1>0, <2>1, AnswerKeeps
<1>10. ASSUME NEW c \in Calls, RefuseSign(c) PROVE CallsSound' /\ CallsGo
  <2>1. Answer(c, "rejected", NoAddress) /\ now' = now
    BY <1>10 DEF RefuseSign
  <2> QED  BY <1>0, <2>1, AnswerKeeps
<1>11. ASSUME NEW c \in Calls, GenerateAtOnce(c) PROVE CallsSound' /\ CallsGo
  <2>1. PICK p \in PreviousResult("/generate", call[c].asked.key) : Answer(c, "ok", p.address)
    BY <1>11 DEF GenerateAtOnce
  <2>2. p.address \in {NoAddress} \cup 1..minted /\ p.address # NoAddress
    BY DEF TypeOK, PreviousResult, FileKept, Answers
  <2>3. now' = now
    BY <1>11 DEF GenerateAtOnce
  <2> QED  BY <1>0, <2>1, <2>2, <2>3, AnswerKeeps
<1>12. ASSUME NEW c \in Calls, Generate(c) PROVE CallsSound' /\ CallsGo
  BY <1>0, <1>1, <1>12 DEF Generate
<1>13. ASSUME NEW w \in writes, OpenFile(w) PROVE CallsSound' /\ CallsGo
  BY <1>0, <1>1, <1>13 DEF OpenFile
<1>14. ASSUME NEW w \in writes, WriteEnds(w) PROVE CallsSound' /\ CallsGo
  <2>1. w.call \in Calls /\ w.address \in 1..minted
    BY DEF TypeOK
  <2>2. Answer(w.call, "ok", w.address) /\ now' = now
    BY <1>14 DEF WriteEnds
  <2>3. w.address # NoAddress
    BY <1>0, <2>1 DEF NoAddress
  <2> QED  BY <1>0, <2>1, <2>2, <2>3, AnswerKeeps
<1>15. ASSUME NEW w \in writes, WriteFails(w) PROVE CallsSound' /\ CallsGo
  <2>1. w.call \in Calls
    BY DEF TypeOK
  <2>2. Answer(w.call, "unavailable", NoAddress) /\ now' = now
    BY <1>15 DEF WriteFails
  <2> QED  BY <1>0, <2>1, <2>2, AnswerKeeps
<1> QED  BY <1>2, <1>3, <1>4, <1>5, <1>6, <1>7, <1>8, <1>9, <1>10, <1>11, <1>12, <1>13, <1>14, <1>15 DEF Next

LEMMA WritesStep ==
  ASSUME TypeOK, CallsSound, WritesSound, CallsGo, Next
  PROVE  WritesSound'
<1>1. ASSUME NEW w \in writes PROVE call'[w.call].asked = call[w.call].asked
  <2>1. w.call \in Calls /\ call[w.call].asked.path = "/generate"
    BY RequestsAre DEF TypeOK, WritesSound
  <2>2. call[w.call] # Untouched
    BY <2>1 DEF Untouched, NoRequest
  <2> QED  BY <2>1, <2>2 DEF CallsGo
<1>2. ASSUME keys \subseteq keys', up' = up,
             \A w \in writes' : \E v \in writes :
                 w.call = v.call /\ w.address = v.address /\ w.entries = v.entries
      PROVE  WritesSound'
  BY <1>1, <1>2 DEF WritesSound
<1>3. CASE Tick
  BY <1>2, <1>3 DEF Tick, disk, memory
<1>4. CASE Start
  BY <1>4 DEF Start, disk, WritesSound
<1>5. CASE Stop
  BY <1>5 DEF Stop, WritesSound
<1>6. ASSUME NEW c \in Calls, NEW q \in SignRequests \cup GenerateRequests, Post(c, q)
      PROVE  WritesSound'
  BY <1>2, <1>6 DEF Post, disk, memory
<1>7. ASSUME NEW c \in Calls,
             GiveUp(c) \/ StoreWallet(c) \/ Refuse(c) \/ HandleSign(c) \/ RefuseSign(c) \/ GenerateAtOnce(c)
      PROVE  WritesSound'
  BY <1>2, <1>7 DEF GiveUp, StoreWallet, Refuse, HandleSign, RefuseSign, GenerateAtOnce, disk, memory
<1>8. ASSUME NEW c \in Calls, Generate(c) PROVE WritesSound'
  <2>1. call[c] # Untouched /\ up /\ call[c].asked.path = "/generate"
    BY <1>8 DEF Generate, Arrives
  <2>2. call[c].asked \in GenerateRequests
    BY <2>1, RequestsAre DEF CallsSound, CallSound
  <2>3. /\ up' = up /\ keys' = WithKey(minted + 1) /\ call' = call
        /\ writes' = writes \cup {[call |-> c, address |-> minted + 1, entries |-> WithKey(minted + 1),
                                   opened |-> FALSE]}
    BY <1>8 DEF Generate
  <2>4. minted + 1 \in WithKey(minted + 1) /\ keys \subseteq WithKey(minted + 1)
    BY DEF WithKey
  <2> QED  BY <2>1, <2>2, <2>3, <2>4 DEF WritesSound
<1>9. ASSUME NEW w \in writes, OpenFile(w) PROVE WritesSound'
  <2>1. LET v == [w EXCEPT !.opened = TRUE]
        IN  v.call = w.call /\ v.address = w.address /\ v.entries = w.entries
    BY DEF TypeOK
  <2> QED  BY <1>2, <1>9, <2>1 DEF OpenFile, memory
<1>10. ASSUME NEW w \in writes, WriteEnds(w) \/ WriteFails(w) PROVE WritesSound'
  BY <1>2, <1>10 DEF WriteEnds, WriteFails, memory
<1> QED  BY <1>3, <1>4, <1>5, <1>6, <1>7, <1>8, <1>9, <1>10 DEF Next

----------------------------------------------------------------------------
(* Nonces and answers *)

LEMMA LiveKept ==
  LET live == {s \in seen : s.until > now} IN
  /\ Remembered = live \/ Remembered = {}
  /\ Remembered # {} => Remembered = live
BY DEF Remembered

\* What was handled stays handled while no nonce is lost before its time.
LEMMA NonceSame ==
  ASSUME TypeOK, TypeOK', NonceKept, CallsGo, handled' = handled, now <= now',
         \A s \in seen : s \in seen' \/ s.until <= now'
  PROVE  NonceKept'
<1> SUFFICES ASSUME NEW c \in Calls, handled[c] = 1
             PROVE  /\ call'[c] # Untouched
                    /\ \/ now' > call'[c].at + Skew
                       \/ \E s \in seen' : s.nonce = c /\ s.until > call'[c].at + Skew
  BY DEF NonceKept
<1>1. call'[c] # Untouched /\ call'[c].at = call[c].at
  BY DEF NonceKept, CallsGo
<1>2. call[c].at \in Nat /\ now \in Nat /\ now' \in Nat /\ \A s \in seen : s.until \in Nat
  BY DEF TypeOK
<1>3. CASE now > call[c].at + Skew
  BY <1>1, <1>2, <1>3
<1>4. CASE \E s \in seen : s.nonce = c /\ s.until > call[c].at + Skew
  BY <1>1, <1>2, <1>4
<1> QED  BY <1>3, <1>4 DEF NonceKept

LEMMA ClaimStep ==
  ASSUME TypeOK, CallsSound, NonceKept, CallsGo, now' = now,
         NEW c \in Calls, ClaimNonce(c), call[c] # Untouched
  PROVE  NonceKept'
<1> DEFINE lost == Remembered = {} /\ \E s \in seen : s.until > now
           live == {s \in seen : s.until > now}
<1>1. /\ now \in Nat /\ \A s \in seen : s.until \in Nat
      /\ \A d \in Calls : call[d].at \in Nat /\ handled[d] \in Nat
  BY DEF TypeOK
<1>2. ASSUME NEW d \in Calls
      PROVE  handled'[d] = (IF lost THEN 0 ELSE handled[d]) + IF d = c THEN 1 ELSE 0
  BY <1>2 DEF ClaimNonce
<1>3. Remembered \subseteq seen' /\ [nonce |-> c, until |-> now + 2 * Skew] \in seen'
  BY DEF ClaimNonce
<1>4. ~ lost => Remembered = live
  BY LiveKept
<1>5. ASSUME NEW d \in Calls, ~ lost, handled[d] = 1
      PROVE  \/ now > call[d].at + Skew
             \/ \E s \in Remembered : s.nonce = d /\ s.until > call[d].at + Skew
  <2>1. CASE now > call[d].at + Skew
    BY <2>1
  <2>2. CASE ~ (now > call[d].at + Skew)
    <3>1. PICK s \in seen : s.nonce = d /\ s.until > call[d].at + Skew
      BY <1>5, <2>2 DEF NonceKept
    <3>2. s \in live
      BY <1>1, <2>2, <3>1
    <3> QED  BY <1>4, <1>5, <3>1, <3>2
  <2> QED  BY <2>1, <2>2
<1>6. \A d \in Calls : call[d] # Untouched => call'[d] # Untouched /\ call'[d].at = call[d].at
  BY DEF CallsGo
<1>7. handled'[c] = 1
  <2>1. CASE lost
    BY <1>2, <2>1
  <2>2. CASE ~ lost
    <3>1. ~ Replayed(c) /\ ~ (now > call[c].at + Skew)
      BY <1>1 DEF ClaimNonce, InWindow
    <3>2. handled[c] # 1
      BY <1>5, <2>2, <3>1 DEF Replayed
    <3>3. handled[c] = 0
      BY <1>1, <3>2 DEF NonceKept
    <3> QED  BY <1>2, <2>2, <3>3
  <2> QED  BY <2>1, <2>2
<1>8. now + 2 * Skew > call[c].at + Skew
  <2>1. call[c].at <= now + Drift
    BY DEF CallsSound, CallSound
  <2> QED  BY <1>1, <2>1
<1>9. ASSUME NEW d \in Calls, d # c
      PROVE  /\ handled'[d] <= 1
             /\ handled'[d] = 1 =>
                   /\ call'[d] # Untouched
                   /\ \/ now' > call'[d].at + Skew
                      \/ \E s \in seen' : s.nonce = d /\ s.until > call'[d].at + Skew
  <2>1. CASE lost
    <3>1. handled'[d] = 0
      BY <1>2, <1>9, <2>1
    <3> QED  BY <3>1
  <2>2. CASE ~ lost
    <3>1. handled'[d] = handled[d]
      BY <1>1, <1>2, <1>9, <2>2
    <3>2. handled[d] <= 1
      BY DEF NonceKept
    <3>3. ASSUME handled[d] = 1
          PROVE  /\ call'[d] # Untouched
                 /\ \/ now' > call'[d].at + Skew
                    \/ \E s \in seen' : s.nonce = d /\ s.until > call'[d].at + Skew
      <4>1. call'[d] # Untouched /\ call'[d].at = call[d].at
        BY <1>6, <3>3 DEF NonceKept
      <4> QED  BY <1>3, <1>5, <2>2, <3>3, <4>1
    <3> QED  BY <3>1, <3>2, <3>3
  <2> QED  BY <2>1, <2>2
<1>10. /\ call'[c] # Untouched
       /\ \E s \in seen' : s.nonce = c /\ s.until > call'[c].at + Skew
  BY <1>3, <1>6, <1>8
<1> HIDE DEF lost, live
<1> QED  BY <1>7, <1>9, <1>10 DEF NonceKept

LEMMA NonceStep ==
  ASSUME TypeOK, TypeOK', CallsSound, NonceKept, CallsGo, Next
  PROVE  NonceKept'
<1>0. now \in Nat
  BY DEF TypeOK
<1>1. ASSUME handled' = handled, seen' = seen, now' = now PROVE NonceKept'
  BY <1>0, <1>1, NonceSame
<1>2. CASE Tick
  BY <1>0, <1>2, NonceSame DEF Tick, memory, history
<1>3. CASE Start
  BY <1>1, <1>3 DEF Start, history
<1>4. CASE Stop
  <2>1. \A c \in Calls : handled'[c] = 0
    BY <1>4 DEF Stop
  <2> QED  BY <2>1 DEF NonceKept
<1>5. ASSUME NEW c \in Calls, NEW q \in SignRequests \cup GenerateRequests, Post(c, q)
      PROVE  NonceKept'
  BY <1>1, <1>5 DEF Post, memory, history
<1>6. ASSUME NEW c \in Calls, GiveUp(c) \/ StoreWallet(c) PROVE NonceKept'
  BY <1>1, <1>6 DEF GiveUp, StoreWallet, memory, history
<1>7. ASSUME NEW c \in Calls, Refuse(c) PROVE NonceKept'
  <2>1. handled' = handled /\ now' = now
    BY <1>7 DEF Refuse
  <2>2. CASE UNCHANGED seen
    BY <1>1, <2>1, <2>2
  <2>3. CASE Replayed(c) /\ seen' = Remembered
    <3>1. seen' = {s \in seen : s.until > now}
      BY <2>3, LiveKept DEF Replayed
    <3>2. \A s \in seen : s.until \in Nat
      BY DEF TypeOK
    <3>3. \A s \in seen : s \in seen' \/ s.until <= now'
      BY <1>0, <2>1, <3>1, <3>2
    <3> QED  BY <1>0, <2>1, <3>3, NonceSame
  <2> QED  BY <1>7, <2>2, <2>3 DEF Refuse
<1>8. ASSUME NEW c \in Calls,
             HandleSign(c) \/ RefuseSign(c) \/ GenerateAtOnce(c) \/ Generate(c)
      PROVE  NonceKept'
  <2>1. ClaimNonce(c) /\ call[c] # Untouched /\ now' = now
    BY <1>8 DEF HandleSign, RefuseSign, GenerateAtOnce, Generate, Arrives
  <2> QED  BY <2>1, ClaimStep
<1>9. ASSUME NEW w \in writes, OpenFile(w) \/ WriteEnds(w) \/ WriteFails(w) PROVE NonceKept'
  BY <1>1, <1>9 DEF OpenFile, WriteEnds, WriteFails, memory, history
<1> QED  BY <1>2, <1>3, <1>4, <1>5, <1>6, <1>7, <1>8, <1>9 DEF Next

LEMMA AnswerStep ==
  ASSUME TypeOK, AnswerKept, Next
  PROVE  AnswerKept'
<1>1. ASSUME repeats' = repeats, processed' = processed PROVE AnswerKept'
  BY <1>1 DEF AnswerKept, PreviousResult
<1>2. CASE Tick \/ Start
  BY <1>1, <1>2 DEF Tick, Start, memory, history
<1>3. CASE Stop
  <2>1. \A i \in Intents : repeats'[i] = 0
    BY <1>3 DEF Stop
  <2> QED  BY <2>1 DEF AnswerKept
<1>4. ASSUME NEW c \in Calls, NEW q \in SignRequests \cup GenerateRequests, Post(c, q)
      PROVE  AnswerKept'
  BY <1>1, <1>4 DEF Post, memory, history
<1>5. ASSUME NEW c \in Calls,
             GiveUp(c) \/ StoreWallet(c) \/ Refuse(c) \/ RefuseSign(c) \/ GenerateAtOnce(c) \/ Generate(c)
      PROVE  AnswerKept'
  BY <1>1, <1>5 DEF GiveUp, StoreWallet, Refuse, RefuseSign, GenerateAtOnce, Generate, memory, history
<1>6. ASSUME NEW c \in Calls, HandleSign(c) PROVE AnswerKept'
  <2> DEFINE key == call[c].asked.key
             kept == IF AnswersDropped THEN {} ELSE processed
  <2>1. PreviousResult("/sign", key) = {}
    BY <1>6 DEF HandleSign, Signable
  <2>2. ASSUME NEW i \in Intents
        PROVE  repeats'[i] = (IF AnswersDropped THEN 0 ELSE repeats[i]) + IF i = key THEN 1 ELSE 0
    BY <1>6 DEF HandleSign
  <2>3. processed' = {p \in kept : p.path # "/sign" \/ p.key # key}
                       \cup {[path |-> "/sign", key |-> key, address |-> NoAddress]}
    BY <1>6 DEF HandleSign, RememberResult, AnswersDropped
  <2>4. \A i \in Intents : repeats[i] \in Nat /\ repeats[i] <= 1
    BY DEF TypeOK, AnswerKept
  <2> HIDE DEF key, kept
  <2>5. ASSUME NEW i \in Intents, i = key
        PROVE  repeats'[i] <= 1 /\ PreviousResult("/sign", i)' # {}
    <3>1. repeats[i] = 0
      BY <2>1, <2>4, <2>5 DEF AnswerKept
    <3>2. repeats'[i] = 1
      BY <2>2, <2>5, <3>1
    <3>3. [path |-> "/sign", key |-> key, address |-> NoAddress] \in processed'
      BY <2>3
    <3>4. \E p \in processed' : p.path = "/sign" /\ p.key = i
      BY <2>5, <3>3
    <3> QED  BY <3>2, <3>4 DEF PreviousResult
  <2>6. ASSUME NEW i \in Intents, i # key
        PROVE  repeats'[i] <= 1 /\ (repeats'[i] = 1 => PreviousResult("/sign", i)' # {})
    <3>1. repeats'[i] = IF AnswersDropped THEN 0 ELSE repeats[i]
      BY <2>2, <2>4, <2>6
    <3>2. CASE AnswersDropped
      BY <3>1, <3>2
    <3>3. CASE ~ AnswersDropped
      <4>1. repeats'[i] = 1 => \E p \in processed : p.path = "/sign" /\ p.key = i
        BY <3>1, <3>3 DEF AnswerKept, PreviousResult
      <4>2. \A p \in processed : p.key = i => p \in processed'
        BY <2>3, <2>6, <3>3 DEF kept
      <4> QED  BY <2>4, <3>1, <3>3, <4>1, <4>2 DEF PreviousResult
    <3> QED  BY <3>2, <3>3
  <2> QED  BY <2>5, <2>6 DEF AnswerKept
<1>7. ASSUME NEW w \in writes, OpenFile(w) \/ WriteFails(w) PROVE AnswerKept'
  BY <1>1, <1>7 DEF OpenFile, WriteFails, memory, history
<1>8. ASSUME NEW w \in writes, WriteEnds(w) PROVE AnswerKept'
  <2>1. CASE AnswersDropped
    <3>1. \A i \in Intents : repeats'[i] = 0
      BY <1>8, <2>1 DEF WriteEnds
    <3> QED  BY <3>1 DEF AnswerKept
  <2>2. CASE ~ AnswersDropped
    <3>1. repeats' = repeats
      BY <1>8, <2>2 DEF WriteEnds
    <3>2. \A p \in processed : p.path = "/sign" => p \in processed'
      BY <1>8, <2>2 DEF WriteEnds, RememberResult, AnswersDropped
    <3> QED  BY <3>1, <3>2 DEF AnswerKept, PreviousResult
  <2> QED  BY <2>1, <2>2
<1> QED  BY <1>2, <1>3, <1>4, <1>5, <1>6, <1>7, <1>8 DEF Next

----------------------------------------------------------------------------
(* The daily cap *)

\* What one window of the process that made s signed.
Within(s) == {t \in signatures : t.start = s.start /\ t.at \in (s.at - Window)..s.at}

LEMMA CapSame ==
  ASSUME TypeOK, SpendKept, DailyCapHolds, spent' = spent, signatures' = signatures,
         starts' = starts, up' = up, now <= now', now' \in Nat
  PROVE  SpendKept' /\ DailyCapHolds'
<1>1. DailyCapHolds'
  BY DEF DailyCapHolds
<1>2. ASSUME NEW s \in signatures
      PROVE  s.at <= now' /\ (s.at >= now' - Window => s.at >= now - Window)
  <2>1. s.at \in Nat /\ s.at <= now /\ now \in Nat /\ Window \in Nat
    BY DEF TypeOK, SpendKept
  <2> QED  BY <2>1
<1> QED  BY <1>1, <1>2 DEF SpendKept

LEMMA SignCap ==
  ASSUME TypeOK, CallsSound, SpendKept, DailyCapHolds, NEW c \in Calls, HandleSign(c)
  PROVE  SpendKept' /\ DailyCapHolds'
<1> DEFINE x == SpendRecord(call[c].asked)
           size == Cardinality(signatures)
<1>1. call[c].asked \in SignRequests /\ up
  BY RequestsAre DEF HandleSign, Arrives, TypeOK
<1>2. /\ x \in [n : Nat, at : 0..MaxTime, value : Values, start : 0..MaxStarts]
      /\ x.n = size + 1 /\ x.at = now /\ x.start = starts /\ x.value = call[c].asked.value
  BY <1>1, RecordTyped
<1>3. /\ spent' = Recent \cup {x} /\ signatures' = signatures \cup {x}
      /\ SpentUsd + x.value <= DayCap
      /\ up' = up /\ now' = now /\ starts' = starts
  BY <1>2 DEF HandleSign, Signable, Permits
<1>4. /\ size \in Nat /\ now \in Nat /\ Window \in Nat /\ starts \in Nat
      /\ \A s \in signatures : s.n \in Nat /\ s.at \in Nat /\ s.start \in Nat /\ s.value \in Nat
      /\ x.value \in Nat
  <2>1. size \in Nat
    BY FS_CardinalityType DEF TypeOK
  <2> HIDE DEF size, x
  <2>2. \A s \in signatures : s.n \in Nat /\ s.at \in Nat /\ s.start \in Nat /\ s.value \in Nat
    <3>1. \A s \in signatures : s \in [n : Nat, at : 0..MaxTime, value : Values, start : 0..MaxStarts]
      BY DEF TypeOK
    <3>2. ASSUME NEW s \in signatures
          PROVE  s.n \in Nat /\ s.at \in 0..MaxTime /\ s.start \in 0..MaxStarts /\ s.value \in Values
      BY <3>1
    <3>3. Values \subseteq Nat /\ 0..MaxTime \subseteq Nat /\ 0..MaxStarts \subseteq Nat
      OBVIOUS
    <3> QED  BY <3>2, <3>3
  <2>3. now \in Nat /\ Window \in Nat /\ starts \in Nat
    BY DEF TypeOK
  <2>4. x.value \in Nat
    BY <1>2
  <2> QED  BY <2>1, <2>2, <2>3, <2>4
<1>5. \A s \in signatures : s.n <= size /\ s.at <= now /\ s.start <= starts
  BY DEF SpendKept
<1> HIDE DEF x, size
<1>6. x \notin signatures
  BY <1>2, <1>4, <1>5
<1>7. Cardinality(signatures') = size + 1
  BY <1>3, <1>6, FS_AddElement DEF TypeOK, size
<1>8. Recent \subseteq spent /\ spent \subseteq signatures /\ IsFiniteSet(Recent)
  BY FS_Subset DEF Recent, TypeOK
<1>9. Usd(Recent \cup {x}) <= DayCap
  <2>1. \A r \in Recent : r.value \in Nat
    BY <1>4, <1>8
  <2>2. x \notin Recent
    BY <1>6, <1>8
  <2>3. Usd(Recent \cup {x}) = Usd(Recent) + x.value
    BY <1>4, <1>8, <2>1, <2>2, UsdAdd
  <2> QED  BY <1>3, <2>3 DEF SpentUsd
<1>10. ASSUME NEW s \in signatures', s.start = starts, s.at = now
       PROVE  Within(s)' = Recent \cup {x}
  <2>1. ASSUME NEW t \in signatures PROVE t \in Within(s)' <=> t \in Recent
    <3>1. t \in Within(s)' <=> t.start = starts /\ t.at \in (now - Window)..now
      BY <1>3, <1>10 DEF Within
    <3>2. t.at \in (now - Window)..now <=> t.at >= now - Window
      BY <1>4, <1>5
    <3>3. t \in spent => t.start = starts
      BY DEF SpendKept
    <3>4. t.start = starts /\ t.at >= now - Window => t \in spent
      BY <1>1 DEF SpendKept
    <3> QED  BY <3>1, <3>2, <3>3, <3>4 DEF Recent
  <2>2. x \in Within(s)'
    <3>1. now \in (now - Window)..now
      BY <1>4
    <3> QED  BY <1>2, <1>3, <1>10, <3>1 DEF Within
  <2>3. Within(s)' \subseteq signatures \cup {x} /\ Recent \subseteq signatures
    BY <1>3, <1>8 DEF Within
  <2> QED  BY <2>1, <2>2, <2>3
<1>11. ASSUME NEW s \in signatures, ~ (s.start = starts /\ s.at = now)
       PROVE  Within(s)' = Within(s)
  <2>1. ~ (x.start = s.start /\ x.at \in (s.at - Window)..s.at)
    BY <1>2, <1>4, <1>5, <1>11
  <2> QED  BY <1>3, <2>1 DEF Within
<1>12. ASSUME NEW s \in signatures' PROVE Usd(Within(s)') <= DayCap
  <2>1. CASE s.start = starts /\ s.at = now
    BY <1>9, <1>10, <2>1
  <2>2. CASE ~ (s.start = starts /\ s.at = now)
    <3>1. s \in signatures
      BY <1>2, <1>3, <2>2
    <3>2. Usd(Within(s)) <= DayCap
      BY <3>1 DEF DailyCapHolds, Within
    <3> QED  BY <1>11, <2>2, <3>1, <3>2
  <2> QED  BY <2>1, <2>2
<1>13. DailyCapHolds'
  BY <1>12 DEF DailyCapHolds, Within
<1>14. ~ up' => spent' = {}
  BY <1>1, <1>3
<1>15. \A r \in spent' : r.start = starts'
  BY <1>2, <1>3, <1>8 DEF SpendKept
<1>16. ASSUME NEW s \in signatures'
       PROVE  /\ s.n <= Cardinality(signatures') /\ s.at <= now' /\ s.start <= starts'
              /\ up' /\ s.start = starts' /\ s.at >= now' - Window => s \in spent'
  <2>1. CASE s = x
    BY <1>2, <1>3, <1>4, <1>7, <2>1
  <2>2. CASE s \in signatures
    <3>1. s.n <= Cardinality(signatures') /\ s.at <= now' /\ s.start <= starts'
      BY <1>3, <1>4, <1>5, <1>7, <2>2
    <3>2. up /\ s.start = starts /\ s.at >= now - Window => s \in spent
      BY <2>2 DEF SpendKept
    <3> QED  BY <1>3, <3>1, <3>2 DEF Recent
  <2> QED  BY <1>3, <2>1, <2>2
<1> QED  BY <1>13, <1>14, <1>15, <1>16 DEF SpendKept

LEMMA CapStep ==
  ASSUME TypeOK, CallsSound, SpendKept, DailyCapHolds, Next
  PROVE  SpendKept' /\ DailyCapHolds'
<1>0. now \in Nat /\ starts \in Nat
  BY DEF TypeOK
<1>1. CASE Tick
  BY <1>0, <1>1, CapSame DEF Tick, memory, history
<1>2. CASE Start
  <2>1. /\ spent = {} /\ spent' = spent /\ signatures' = signatures /\ starts' = starts + 1 /\ now' = now
    BY <1>2 DEF Start, SpendKept, history
  <2>2. \A s \in signatures : s.start \in Nat /\ s.start <= starts
    BY DEF TypeOK, SpendKept
  <2>3. \A s \in signatures : s.start <= starts' /\ s.start # starts'
    BY <1>0, <2>1, <2>2
  <2>4. DailyCapHolds'
    BY <2>1 DEF DailyCapHolds
  <2> QED  BY <2>1, <2>3, <2>4 DEF SpendKept
<1>3. CASE Stop
  <2>1. ~ up' /\ spent' = {} /\ signatures' = signatures /\ starts' = starts /\ now' = now
    BY <1>3 DEF Stop
  <2>2. DailyCapHolds'
    BY <2>1 DEF DailyCapHolds
  <2> QED  BY <2>1, <2>2 DEF SpendKept
<1>4. ASSUME NEW c \in Calls, NEW q \in SignRequests \cup GenerateRequests, Post(c, q)
      PROVE  SpendKept' /\ DailyCapHolds'
  BY <1>0, <1>4, CapSame DEF Post, memory, history
<1>5. ASSUME NEW c \in Calls,
             GiveUp(c) \/ StoreWallet(c) \/ Refuse(c) \/ RefuseSign(c) \/ GenerateAtOnce(c) \/ Generate(c)
      PROVE  SpendKept' /\ DailyCapHolds'
  <2>1. spent' = spent /\ signatures' = signatures /\ starts' = starts /\ up' = up /\ now' = now
    BY <1>5 DEF GiveUp, StoreWallet, Refuse, RefuseSign, GenerateAtOnce, Generate, memory, history
  <2> QED  BY <1>0, <2>1, CapSame
<1>6. ASSUME NEW c \in Calls, HandleSign(c) PROVE SpendKept' /\ DailyCapHolds'
  BY <1>6, SignCap
<1>7. ASSUME NEW w \in writes, OpenFile(w) \/ WriteEnds(w) \/ WriteFails(w)
      PROVE  SpendKept' /\ DailyCapHolds'
  <2>1. spent' = spent /\ signatures' = signatures /\ starts' = starts /\ up' = up /\ now' = now
    BY <1>7 DEF OpenFile, WriteEnds, WriteFails, memory, history
  <2> QED  BY <1>0, <2>1, CapSame
<1> QED  BY <1>1, <1>2, <1>3, <1>4, <1>5, <1>6, <1>7 DEF Next

----------------------------------------------------------------------------
(* The keystore file *)

OneWrite == \A w, v \in writes : w = v
FileSound ==
    /\ OneWrite
    /\ up => Promised \subseteq keys
    /\ IF \E w \in writes : w.opened
       THEN file = Truncated
       ELSE file.parses /\ Promised \subseteq file.text /\ (up => file.text \subseteq keys)
    /\ \A w \in writes : Promised \cup file.text \subseteq w.entries
AnswersReal == \A p \in Answers : p.address # NoAddress

LEMMA FileIs == FileKept <=> AnswersReal /\ (~damaged => FileSound)
BY DEF FileKept, AnswersReal, FileSound, OneWrite

\* What an answer adds to what is promised.
LEMMA PromisedGrows ==
  ASSUME TypeOK, NEW c \in Calls, NEW state \in {"ok", "rejected", "unavailable"},
         NEW address \in {NoAddress} \cup 1..minted, Answer(c, state, address),
         wallets' = wallets, processed' = processed
  PROVE  Promised' \subseteq Promised \cup ({address} \ {NoAddress})
<1>1. Answered(c, state, address)
  BY AnswerShape DEF TypeOK, CallStates
<1>2. \A d \in Calls : call'[d].address = call[d].address \/ call'[d].address = address
  BY <1>1 DEF Answered
<1> QED  BY <1>2 DEF Promised, GivenOut, Answers

LEMMA FileSame ==
  ASSUME TypeOK, FileKept, keys' = keys, writes' = writes, file' = file, up' = up,
         damaged' = damaged, Promised' \subseteq Promised, Answers' \subseteq Answers
  PROVE  FileKept'
<1>1. AnswersReal'
  BY FileIs DEF AnswersReal
<1>2. ~damaged => FileSound'
  BY FileIs DEF FileSound, OneWrite
<1>3. FileKept' <=> AnswersReal' /\ (~damaged' => FileSound')
  BY DEF FileKept, AnswersReal, FileSound, OneWrite
<1> QED  BY <1>1, <1>2, <1>3

LEMMA FileStep ==
  ASSUME TypeOK, CallsSound, WritesSound, FileKept, Next
  PROVE  FileKept'
<1>0. FileKept' <=> AnswersReal' /\ (~damaged' => FileSound')
  BY DEF FileKept, AnswersReal, FileSound, OneWrite
<1>1. CASE Tick
  <2>1. UNCHANGED <<keys, processed, writes, file, damaged, up, call, wallets>>
    BY <1>1 DEF Tick, memory, disk
  <2> QED  BY <2>1, FileSame DEF Promised, GivenOut, Answers
<1>2. CASE Start
  <2>1. /\ UNCHANGED <<processed, writes, file, damaged, call, wallets>> /\ keys' = file.text /\ ~up
    BY <1>2 DEF Start, disk
  <2>2. writes = {}
    BY <2>1 DEF WritesSound
  <2>3. AnswersReal'
    BY <2>1, FileIs DEF AnswersReal, Answers
  <2>4. Promised' = Promised
    BY <2>1 DEF Promised, GivenOut, Answers
  <2>5. ~damaged => FileSound'
    BY <2>1, <2>2, <2>4, FileIs DEF FileSound, OneWrite
  <2> QED  BY <1>0, <2>1, <2>3, <2>5
<1>3. CASE Stop
  <2>1. /\ UNCHANGED <<file, call, wallets>> /\ ~up' /\ keys' = {} /\ processed' = {} /\ writes' = {}
        /\ damaged' = (damaged \/ \E w \in writes : w.opened)
    BY <1>3 DEF Stop
  <2>2. AnswersReal'
    BY <2>1 DEF AnswersReal, Answers
  <2>3. Promised' \subseteq Promised
    BY <2>1 DEF Promised, GivenOut, Answers
  <2>4. ~damaged' => FileSound'
    BY <2>1, <2>3, FileIs DEF FileSound, OneWrite
  <2> QED  BY <1>0, <2>2, <2>4
<1>4. ASSUME NEW c \in Calls, NEW q \in SignRequests \cup GenerateRequests, Post(c, q)
      PROVE  FileKept'
  <2>1. UNCHANGED <<keys, processed, writes, file, damaged, up, wallets>>
    BY <1>4 DEF Post, memory, disk
  <2>2. \A d \in Calls : call'[d] = call[d] \/ call'[d].address = NoAddress
    BY <1>4 DEF Post, TypeOK
  <2>3. Promised' \subseteq Promised
    BY <2>1, <2>2 DEF Promised, GivenOut, Answers
  <2> QED  BY <2>1, <2>3, FileSame DEF Answers
<1>5. ASSUME NEW c \in Calls, GiveUp(c) PROVE FileKept'
  <2>1. UNCHANGED <<keys, processed, writes, file, damaged, up, wallets>>
    BY <1>5 DEF GiveUp, memory, disk
  <2>2. \A d \in Calls : call'[d].address = call[d].address
    BY <1>5 DEF GiveUp, TypeOK
  <2>3. Promised' \subseteq Promised
    BY <2>1, <2>2 DEF Promised, GivenOut, Answers
  <2> QED  BY <2>1, <2>3, FileSame DEF Answers
<1>6. ASSUME NEW c \in Calls, StoreWallet(c) PROVE FileKept'
  <2>1. UNCHANGED <<keys, processed, writes, file, damaged, up>>
    BY <1>6 DEF StoreWallet, memory, disk
  <2>2. \A d \in Calls : call'[d].address = call[d].address
    BY <1>6 DEF StoreWallet, TypeOK
  <2>3. call[c].address # NoAddress
    BY <1>6 DEF StoreWallet, CallsSound, CallSound, Untouched
  <2>4. \A w \in wallets' : w \in wallets \/ w.address = call[c].address
    BY <1>6 DEF StoreWallet, WalletRow
  <2>5. Promised' \subseteq Promised
    BY <2>1, <2>2, <2>3, <2>4 DEF Promised, GivenOut, Answers
  <2> QED  BY <2>1, <2>5, FileSame DEF Answers
<1>7. ASSUME NEW c \in Calls, Refuse(c) \/ RefuseSign(c) PROVE FileKept'
  <2>1. /\ UNCHANGED <<keys, processed, writes, file, damaged, up, wallets>>
        /\ Answer(c, "rejected", NoAddress)
    BY <1>7 DEF Refuse, RefuseSign, disk
  <2>2. Promised' \subseteq Promised
    BY <2>1, PromisedGrows
  <2> QED  BY <2>1, <2>2, FileSame DEF Answers
<1>8. ASSUME NEW c \in Calls, HandleSign(c) PROVE FileKept'
  <2>1. /\ UNCHANGED <<keys, writes, file, damaged, up, wallets>>
        /\ Answer(c, "ok", NoAddress)
    BY <1>8 DEF HandleSign, disk
  <2>2. Answers' \subseteq Answers
    BY <1>8 DEF HandleSign, RememberResult, Answers
  <2>3. Answered(c, "ok", NoAddress)
    BY <2>1, AnswerShape DEF TypeOK, CallStates
  <2>4. \A d \in Calls : call'[d].address = call[d].address \/ call'[d].address = NoAddress
    BY <2>3 DEF Answered
  <2>5. Promised' \subseteq Promised
    BY <2>1, <2>2, <2>4 DEF Promised, GivenOut
  <2> QED  BY <2>1, <2>2, <2>5, FileSame
<1>9. ASSUME NEW c \in Calls, GenerateAtOnce(c) PROVE FileKept'
  <2>1. UNCHANGED <<keys, processed, writes, file, damaged, up, wallets>>
    BY <1>9 DEF GenerateAtOnce, disk
  <2>2. PICK p \in PreviousResult("/generate", call[c].asked.key) : Answer(c, "ok", p.address)
    BY <1>9 DEF GenerateAtOnce
  <2>3. p \in Answers /\ p.address \in {NoAddress} \cup 1..minted
    BY DEF PreviousResult, Answers, TypeOK
  <2>4. Promised' \subseteq Promised
    BY <2>1, <2>2, <2>3, PromisedGrows DEF Promised
  <2> QED  BY <2>1, <2>4, FileSame DEF Answers
<1>10. ASSUME NEW c \in Calls, Generate(c) PROVE FileKept'
  <2> DEFINE w == [call |-> c, address |-> minted + 1, entries |-> WithKey(minted + 1), opened |-> FALSE]
  <2>1. /\ UNCHANGED <<processed, file, call, wallets, up>> /\ up
        /\ keys' = WithKey(minted + 1) /\ writes' = writes \cup {w}
        /\ damaged' = (damaged \/ writes # {})
    BY <1>10 DEF Generate, Arrives
  <2>2. w.entries = WithKey(minted + 1) /\ ~ w.opened
    OBVIOUS
  <2> HIDE DEF w
  <2>3. AnswersReal'
    BY <2>1, FileIs DEF AnswersReal, Answers
  <2>4. Promised' = Promised
    BY <2>1 DEF Promised, GivenOut, Answers
  <2>5. ASSUME ~damaged' PROVE FileSound'
    <3>1. writes' = {w} /\ ~damaged /\ writes = {}
      BY <2>1, <2>5
    <3>2. file.parses /\ Promised \subseteq file.text /\ file.text \subseteq keys /\ Promised \subseteq keys
      BY <2>1, <3>1, FileIs DEF FileSound
    <3>3. keys \subseteq keys'
      BY <2>1 DEF WithKey
    <3> QED  BY <2>1, <2>2, <2>4, <3>1, <3>2, <3>3 DEF FileSound, OneWrite
  <2> QED  BY <1>0, <2>3, <2>5
<1>11. ASSUME NEW w \in writes, OpenFile(w) PROVE FileKept'
  <2> DEFINE v == [w EXCEPT !.opened = TRUE]
  <2>1. /\ UNCHANGED <<keys, processed, damaged, call, wallets, up>> /\ file' = Truncated
        /\ writes' = (writes \ {w}) \cup {v}
    BY <1>11 DEF OpenFile, memory
  <2>2. v.opened /\ v.entries = w.entries
    BY DEF TypeOK
  <2> HIDE DEF v
  <2>3. AnswersReal'
    BY <2>1, FileIs DEF AnswersReal, Answers
  <2>4. Promised' = Promised
    BY <2>1 DEF Promised, GivenOut, Answers
  <2>5. ASSUME ~damaged' PROVE FileSound'
    <3>1. FileSound /\ writes' = {v}
      BY <2>1, <2>5, FileIs DEF FileSound, OneWrite
    <3>2. Promised \subseteq w.entries /\ (up => Promised \subseteq keys)
      BY <3>1 DEF FileSound
    <3>3. file'.text = {}
      BY <2>1 DEF Truncated
    <3> QED  BY <2>1, <2>2, <2>4, <3>1, <3>2, <3>3 DEF FileSound, OneWrite
  <2> QED  BY <1>0, <2>3, <2>5
<1>12. ASSUME NEW w \in writes, WriteEnds(w) PROVE FileKept'
  <2> DEFINE key == call[w.call].asked.key
             p == [path |-> "/generate", key |-> key, address |-> w.address]
  <2>1. /\ UNCHANGED <<keys, damaged, wallets, up>> /\ file' = Overwrite(file, w.entries)
        /\ writes' = writes \ {w} /\ w.opened /\ Answer(w.call, "ok", w.address)
    BY <1>12 DEF WriteEnds
  <2>2. w.call \in Calls /\ w.address \in 1..minted /\ minted \in Nat /\ w.address # NoAddress
    BY DEF TypeOK, NoAddress
  <2>3. w.address \in w.entries /\ w.entries \subseteq keys /\ up
    BY DEF WritesSound
  <2>4. Answers' \subseteq Answers \cup {p} /\ p.address = w.address
    BY <1>12 DEF WriteEnds, RememberResult, Answers
  <2> HIDE DEF p, key
  <2>5. AnswersReal'
    BY <2>2, <2>4, FileIs DEF AnswersReal
  <2>6. Answered(w.call, "ok", w.address)
    BY <2>1, <2>2, AnswerShape DEF CallStates
  <2>7. \A d \in Calls : call'[d].address = call[d].address \/ call'[d].address = w.address
    BY <2>6 DEF Answered
  <2>8. Promised' \subseteq Promised \cup {w.address}
    BY <2>1, <2>4, <2>7 DEF Promised, GivenOut
  <2>9. ASSUME ~damaged' PROVE FileSound'
    <3>1. FileSound /\ writes' = {}
      BY <2>1, <2>9, FileIs DEF FileSound, OneWrite
    <3>2. file = Truncated /\ Promised \subseteq w.entries /\ Promised \subseteq keys
      BY <2>1, <2>3, <3>1 DEF FileSound
    <3>3. file'.parses /\ file'.text = w.entries
      BY <2>1, <3>2 DEF Overwrite, Truncated
    <3> QED  BY <2>1, <2>3, <2>8, <3>1, <3>2, <3>3 DEF FileSound, OneWrite
  <2> QED  BY <1>0, <2>5, <2>9
<1>13. ASSUME NEW w \in writes, WriteFails(w) PROVE FileKept'
  <2>1. /\ UNCHANGED <<keys, processed, wallets, up, file>> /\ writes' = writes \ {w}
        /\ damaged' = (damaged \/ w.opened) /\ Answer(w.call, "unavailable", NoAddress)
    BY <1>13 DEF WriteFails, memory
  <2>2. w.call \in Calls
    BY DEF TypeOK
  <2>3. Promised' \subseteq Promised
    BY <2>1, <2>2, PromisedGrows
  <2>4. AnswersReal'
    BY <2>1, FileIs DEF AnswersReal, Answers
  <2>5. ASSUME ~damaged' PROVE FileSound'
    <3>1. FileSound /\ writes' = {} /\ ~ \E v \in writes : v.opened
      BY <2>1, <2>5, FileIs DEF FileSound, OneWrite
    <3> QED  BY <2>1, <2>3, <3>1 DEF FileSound, OneWrite
  <2> QED  BY <1>0, <2>4, <2>5
<1> QED  BY <1>1, <1>2, <1>3, <1>4, <1>5, <1>6, <1>7, <1>8, <1>9, <1>10, <1>11, <1>12, <1>13 DEF Next

----------------------------------------------------------------------------
(* The invariant *)

LEMMA InitInv == Init => IInv
<1> SUFFICES ASSUME Init PROVE IInv
  OBVIOUS
<1> USE DEF Init
<1>1. TypeOK
  <2>1. IsFiniteSet(signatures)
    BY FS_EmptySet
  <2>2. call \in [Calls -> CallType(minted)]
    BY DEF Untouched, CallType, CallStates
  <2>3. /\ handled \in [Calls -> Nat] /\ repeats \in [Intents -> Nat]
    OBVIOUS
  <2>4. file \in [text : SUBSET (0..minted), parses : BOOLEAN]
    <3>1. SUBSET {Provisioned} \subseteq SUBSET (0..minted)
      BY DEF Provisioned
    <3>2. file \in [text : SUBSET {Provisioned}, parses : {TRUE}]
      OBVIOUS
    <3> QED  BY <3>1, <3>2
  <2>5. arrivals = handled /\ now = 0 /\ starts = 0 /\ minted = 0 /\ up = FALSE /\ damaged = FALSE
    OBVIOUS
  <2>6. /\ keys = {} /\ writes = {} /\ seen = {} /\ processed = {} /\ wallets = {}
        /\ signatures = {} /\ spent = {}
    OBVIOUS
  <2>7. 0 \in 0..MaxTime /\ 0 \in 0..MaxStarts
    OBVIOUS
  <2> HIDE DEF Init
  <2> QED  BY <2>1, <2>2, <2>3, <2>4, <2>5, <2>6, <2>7 DEF TypeOK, CallType
<1>2. CallsSound
  BY DEF CallsSound, CallSound
<1>3. WritesSound /\ SpendKept /\ DailyCapHolds
  BY DEF WritesSound, SpendKept, DailyCapHolds
<1>4. NonceKept /\ AnswerKept
  BY DEF NonceKept, AnswerKept
<1>5. FileKept
  <2>1. \A d \in Calls : call[d].address = NoAddress
    BY DEF Untouched
  <2> QED  BY <2>1 DEF FileKept, Promised, GivenOut, Answers
<1> QED  BY <1>1, <1>2, <1>3, <1>4, <1>5 DEF IInv

LEMMA InvStep == IInv /\ [Next]_vars => IInv'
<1> SUFFICES ASSUME IInv, [Next]_vars PROVE IInv'
  OBVIOUS
<1>1. CASE Next
  <2>1. TypeOK'
    BY <1>1, TypeStep DEF IInv
  <2>2. CallsSound' /\ CallsGo
    BY <1>1, CallStep DEF IInv
  <2>3. WritesSound'
    BY <1>1, <2>2, WritesStep DEF IInv
  <2>4. NonceKept' /\ AnswerKept'
    BY <1>1, <2>1, <2>2, NonceStep, AnswerStep DEF IInv
  <2>5. SpendKept' /\ DailyCapHolds' /\ FileKept'
    BY <1>1, CapStep, FileStep DEF IInv
  <2> QED  BY <2>1, <2>2, <2>3, <2>4, <2>5 DEF IInv
<1>2. CASE UNCHANGED vars
  <2> USE <1>2 DEF vars, memory, disk, history
  <2>1. TypeOK' /\ CallsSound' /\ WritesSound'
    BY DEF IInv, TypeOK, CallsSound, CallSound, WritesSound
  <2>2. NonceKept' /\ AnswerKept'
    BY DEF IInv, NonceKept, AnswerKept, PreviousResult
  <2>3. SpendKept' /\ DailyCapHolds'
    BY DEF IInv, SpendKept, DailyCapHolds
  <2>4. FileKept'
    BY DEF IInv, FileKept, Promised, GivenOut, Answers
  <2> QED  BY <2>1, <2>2, <2>3, <2>4 DEF IInv
<1> QED  BY <1>1, <1>2

LEMMA InvHolds == Spec => []IInv
BY InitInv, InvStep, PTL DEF Spec

\* What the signer, its callers and the database keep has its type, whatever the bounds.
THEOREM TypeCorrect == Spec => []TypeOK
<1>1. IInv => TypeOK
  BY DEF IInv
<1> QED  BY <1>1, InvHolds, PTL

\* No request is handled twice while its nonce is kept and no intent is signed for twice
\* while its answer is: verifySignedRequest and rememberResult, for every skew that the
\* clocks stay within.
THEOREM OneSignature == Spec => []SignedOnce
<1>1. IInv => SignedOnce
  BY DEF IInv, NonceKept, AnswerKept, SignedOnce
<1> QED  BY <1>1, InvHolds, PTL

\* Whatever is asked of one process, no window of time holds more than the daily cap of
\* what it signed: enforceSpendPolicy over the pruned records of SpendTracker.
THEOREM CapKept == Spec => []DailyCapHolds
<1>1. IInv => DailyCapHolds
  BY DEF IInv
<1> QED  BY <1>1, InvHolds, PTL

\* The key of an address that was given out is never lost, unless two writes of the
\* keystore file overlapped or one was cut short.
THEOREM KeysSafe == Spec => []KeysKept
<1>1. IInv => KeysKept
  <2> SUFFICES ASSUME IInv, ~damaged
               PROVE  /\ up => GivenOut \subseteq keys
                      /\ (\A w \in writes : ~w.opened) => file.parses /\ GivenOut \subseteq file.text
    BY DEF KeysKept
  <2>1. FileSound
    BY FileIs DEF IInv
  <2> QED  BY <2>1 DEF FileSound, Promised
<1> QED  BY <1>1, InvHolds, PTL
=============================================================================
