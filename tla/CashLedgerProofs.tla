-------------------------- MODULE CashLedgerProofs --------------------------
(***************************************************************************)
(* The types of the ledger, one row per key, the agreement of an expected  *)
(* income with its row, the status of a goal, the balances as sums of      *)
(* their rows and the pages of the history, for any executions, keys, ids, *)
(* amounts and page size; the arithmetic of money for every amount, the    *)
(* rates it is converted at, and the prices, reports and alerts shown;     *)
(* totals, overviews and periods; and decimal strings.  The run's formula  *)
(* (module MCCashLedger) is an instance of these.                          *)
(*                                                                         *)
(* What is true of the sum over a finite set is proved by taking away one  *)
(* element of a set that would be a smallest exception (WFMin, on the      *)
(* cardinality): the library's induction theorems take the predicate as a  *)
(* parameter, which the provers cannot instantiate.                        *)
(***************************************************************************)
EXTENDS MCCashLedger, Market, FiniteSetTheorems, WellFoundedInduction, TLAPS
-----------------------------------------------------------------------------
(* Sums.  SumInts folds over the domain of a function; its value is that of the  *)
(* function that the fold defines on the subsets of the domain, whichever member *)
(* is taken first.                                                               *)

Pick(S) == CHOOSE x \in S : TRUE
SameOn(e, f, R) == \A x \in R : e[x] = f[x]
IntsOn(f, S) == \A x \in S : f[x] \in Int

Sums(g, f, S) == g = [T \in SUBSET S |-> IF T = {} THEN 0 ELSE f[Pick(T)] + g[T \ {Pick(T)}]]

LEMMA SumUnfolds ==
  ASSUME NEW f
  PROVE  SumInts(f) = (CHOOSE s : Sums(s, f, DOMAIN f))[DOMAIN f]
BY DEF SumInts, FoldFunction, FoldFunctionOnSet, MapThenFoldSet, Sums, Pick

\* Induction over finite sets: what fails for some subset fails for a least one.
LEMMA Least ==
  ASSUME NEW S, IsFiniteSet(S), NEW B \in SUBSET SUBSET S, B # {}
  PROVE  \E T \in B : \A U \in B : U \subseteq T => U = T
<1>1. IsWellFoundedOn(StrictSubsetOrdering(S), SUBSET S)
  BY FS_StrictSubsetOrderingWellFounded, FS_FiniteSubsetsOfFinite
<1>2. PICK T \in B : \A U \in B : ~ (<<U, T>> \in StrictSubsetOrdering(S))
  BY <1>1, WFMin
<1> QED  BY <1>2 DEF StrictSubsetOrdering

\* One step of the recursion.
Unfolds(g, f, T) ==
    /\ T = {} => g[T] = 0
    /\ T # {} => Pick(T) \in T /\ g[T] = f[Pick(T)] + g[T \ {Pick(T)}]

LEMMA SumsStep ==
  ASSUME NEW S, NEW f, NEW g, Sums(g, f, S)
  PROVE  \A T \in SUBSET S : Unfolds(g, f, T)
<1> SUFFICES ASSUME NEW T \in SUBSET S PROVE Unfolds(g, f, T)
  OBVIOUS
<1>1. g[T] = IF T = {} THEN 0 ELSE f[Pick(T)] + g[T \ {Pick(T)}]
  BY DEF Sums
<1>2. T # {} => Pick(T) \in T
  BY DEF Pick
<1> QED  BY <1>1, <1>2 DEF Unfolds

\* The sum of a set depends on nothing but its members' values.
LEMMA SumsAgree ==
  ASSUME NEW S, IsFiniteSet(S), NEW R \in SUBSET S, NEW f, NEW g, Sums(g, f, S),
         NEW e, NEW h, Sums(h, e, R), SameOn(e, f, R), NEW T \in SUBSET R
  PROVE  g[T] = h[T]
<1> DEFINE Bad == {U \in SUBSET R : g[U] # h[U]}
<1> SUFFICES Bad = {}
  OBVIOUS
<1> SUFFICES ASSUME Bad # {} PROVE FALSE
  OBVIOUS
<1>1. PICK U \in Bad : \A V \in Bad : V \subseteq U => V = U
  <2>1. Bad \in SUBSET SUBSET R
    OBVIOUS
  <2>2. IsFiniteSet(R)
    BY FS_Subset
  <2> HIDE DEF Bad
  <2> QED  BY <2>1, <2>2, Least
<1>2. U \in SUBSET R /\ U \in SUBSET S
  OBVIOUS
<1>3. (\A V \in SUBSET S : Unfolds(g, f, V)) /\ (\A V \in SUBSET R : Unfolds(h, e, V))
  BY SumsStep
<1>4. /\ U # {} /\ Pick(U) \in U
      /\ g[U] = f[Pick(U)] + g[U \ {Pick(U)}]
      /\ h[U] = e[Pick(U)] + h[U \ {Pick(U)}]
  BY <1>2, <1>3 DEF Unfolds
<1>5. U \ {Pick(U)} \notin Bad
  BY <1>1, <1>4
<1>6. e[Pick(U)] = f[Pick(U)]
  BY <1>2, <1>4 DEF SameOn
<1> QED  BY <1>2, <1>4, <1>5, <1>6

\* The function exists.
LEMMA SumsExist ==
  ASSUME NEW S, NEW f, IsFiniteSet(S)
  PROVE  \E g : Sums(g, f, S)
<1> DEFINE Bad == {R \in SUBSET S : ~ \E g : Sums(g, f, R)}
<1> SUFFICES ASSUME Bad # {} PROVE FALSE
  OBVIOUS
<1>1. PICK R \in Bad : \A V \in Bad : V \subseteq R => V = R
  <2>1. Bad \in SUBSET SUBSET S
    OBVIOUS
  <2> HIDE DEF Bad
  <2> QED  BY <2>1, Least
<1> DEFINE Of(T) == CHOOSE s : Sums(s, f, T)
           s == [T \in SUBSET R |-> IF T = {} THEN 0
                                     ELSE f[Pick(T)] + Of(T \ {Pick(T)})[T \ {Pick(T)}]]
<1>2. ASSUME NEW T \in SUBSET R, T # R PROVE Sums(Of(T), f, T)
  <2>1. T \notin Bad
    BY <1>1, <1>2
  <2> QED  BY <2>1
<1>3. ASSUME NEW T \in SUBSET R, T # R PROVE Of(T)[T] = s[T]
  <2>1. Sums(Of(T), f, T)
    BY <1>2, <1>3
  <2>0. Unfolds(Of(T), f, T)
    <3> HIDE DEF Of
    <3> QED  BY <2>1, SumsStep
  <2>2. CASE T = {}
    <3>1. Of(T)[T] = 0
      BY <2>0, <2>2 DEF Unfolds
    <3> QED  BY <2>2, <3>1
  <2>3. CASE T # {}
    <3> DEFINE U == T \ {Pick(T)}
    <3>1. Pick(T) \in T /\ Of(T)[T] = f[Pick(T)] + Of(T)[U]
      BY <2>0, <2>3 DEF Unfolds
    <3>2. U \in SUBSET R /\ U # R /\ U \in SUBSET T /\ U \in SUBSET U
      BY <3>1
    <3>3. Sums(Of(U), f, U)
      BY <1>2, <3>2
    <3>4. IsFiniteSet(T)
      BY FS_Subset
    <3> HIDE DEF Of
    <3>5. Of(T)[U] = Of(U)[U]
      <4>1. SameOn(f, f, U)
        BY DEF SameOn
      <4> QED  BY <2>1, <3>2, <3>3, <3>4, <4>1, SumsAgree
    <3>6. s[T] = f[Pick(T)] + Of(U)[U]
      BY <2>3
    <3> QED  BY <3>1, <3>5, <3>6
  <2> QED  BY <2>2, <2>3
<1>4. Sums(s, f, R)
  <2> HIDE DEF Of
  <2>1. ASSUME NEW T \in SUBSET R, T # {}
        PROVE  s[T] = f[Pick(T)] + s[T \ {Pick(T)}]
    <3>1. Pick(T) \in T
      BY <2>1 DEF Pick
    <3>2. T \ {Pick(T)} \in SUBSET R /\ T \ {Pick(T)} # R
      BY <3>1
    <3>3. Of(T \ {Pick(T)})[T \ {Pick(T)}] = s[T \ {Pick(T)}]
      BY <1>3, <3>2
    <3>4. s[T] = f[Pick(T)] + Of(T \ {Pick(T)})[T \ {Pick(T)}]
      BY <2>1
    <3> QED  BY <3>3, <3>4
  <2>2. s = [T \in SUBSET R |-> s[T]]
    OBVIOUS
  <2>3. \A T \in SUBSET R : s[T] = IF T = {} THEN 0 ELSE f[Pick(T)] + s[T \ {Pick(T)}]
    <3>1. {} \in SUBSET R => s[{}] = 0
      OBVIOUS
    <3> HIDE DEF s
    <3> QED  BY <2>1, <3>1
  <2> HIDE DEF s
  <2> QED  BY <2>2, <2>3 DEF Sums
<1> QED  BY <1>1, <1>4

\* The sum of a set counts each member once, whichever is taken out first.
LEMMA SumsRemove ==
  ASSUME NEW S, NEW f, IsFiniteSet(S), IntsOn(f, S), NEW g, Sums(g, f, S)
  PROVE  \A T \in SUBSET S :
            /\ g[T] \in Int
            /\ \A x \in T : g[T] = f[x] + g[T \ {x}]
<1> DEFINE Good(T) == g[T] \in Int /\ \A x \in T : g[T] = f[x] + g[T \ {x}]
           Bad == {T \in SUBSET S : ~ Good(T)}
<1> SUFFICES ASSUME Bad # {} PROVE FALSE
  OBVIOUS
<1>1. PICK T \in Bad : \A V \in Bad : V \subseteq T => V = T
  <2>1. Bad \in SUBSET SUBSET S
    OBVIOUS
  <2> HIDE DEF Bad
  <2> QED  BY <2>1, Least
<1>0. \A U \in SUBSET S : Unfolds(g, f, U)
  BY SumsStep
<1>2. T \in SUBSET S /\ ~ Good(T)
  OBVIOUS
<1>3. ASSUME NEW U \in SUBSET T, U # T PROVE Good(U)
  <2>1. U \in SUBSET S /\ U \notin Bad
    BY <1>1, <1>2, <1>3
  <2> HIDE DEF Good
  <2> QED  BY <2>1
<1>4. T # {}
  <2>1. {} \in SUBSET S /\ g[{}] = 0
    <3>1. {} \in SUBSET S
      OBVIOUS
    <3> QED  BY <3>1, <1>0 DEF Unfolds
  <2>2. Good({})
    BY <2>1
  <2> HIDE DEF Good
  <2> QED  BY <1>2, <2>2
<1> DEFINE c == Pick(T)
<1>5. c \in T /\ g[T] = f[c] + g[T \ {c}]
  BY <1>0, <1>2, <1>4 DEF Unfolds
<1> HIDE DEF c
<1>6. T \ {c} \in SUBSET T /\ T \ {c} # T
  BY <1>5
<1>7. f[c] \in Int /\ g[T \ {c}] \in Int
  BY <1>2, <1>3, <1>5, <1>6 DEF IntsOn
<1>8. g[T] \in Int
  BY <1>5, <1>7
<1>9. ASSUME NEW x \in T, x # c PROVE g[T] = f[x] + g[T \ {x}]
  <2>1. T \ {x} \in SUBSET T /\ T \ {x} # T /\ c \in T \ {x} /\ x \in T \ {c}
    BY <1>5, <1>9
  <2>2. (T \ {x}) \ {c} = (T \ {c}) \ {x} /\ (T \ {c}) \ {x} \in SUBSET T /\ (T \ {c}) \ {x} # T
    BY <1>9
  <2>3. g[T \ {x}] = f[c] + g[(T \ {c}) \ {x}]
    <3>1. g[T \ {x}] = f[c] + g[(T \ {x}) \ {c}]
      BY <1>3, <2>1
    <3> QED  BY <2>2, <3>1
  <2>4. g[T \ {c}] = f[x] + g[(T \ {c}) \ {x}]
    BY <1>3, <1>6, <2>1
  <2>5. g[(T \ {c}) \ {x}] \in Int
    BY <1>3, <2>2
  <2>6. f[x] \in Int
    BY <1>2, <1>9 DEF IntsOn
  <2> QED  BY <1>5, <1>7, <2>3, <2>4, <2>5, <2>6
<1> QED  BY <1>2, <1>5, <1>8, <1>9

LEMMA SumsAdd ==
  ASSUME NEW A, IsFiniteSet(A), NEW x \in A, NEW S, S = A \ {x},
         NEW f, IntsOn(f, A), NEW e, SameOn(e, f, S),
         NEW g, Sums(g, e, S), NEW h, Sums(h, f, A)
  PROVE  g[S] \in Int /\ h[A] = g[S] + f[x]
<1>1. S \in SUBSET A /\ S \in SUBSET S /\ A \in SUBSET A
  OBVIOUS
<1>2. h[S] = g[S]
  <2>1. \A T \in SUBSET S : h[T] = g[T]
    BY <1>1, SumsAgree
  <2> QED  BY <1>1, <2>1
<1>3. \A T \in SUBSET A : h[T] \in Int /\ \A y \in T : h[T] = f[y] + h[T \ {y}]
  BY SumsRemove
<1>4. h[A] = f[x] + h[S] /\ h[S] \in Int /\ f[x] \in Int
  BY <1>1, <1>3 DEF IntsOn
<1> QED  BY <1>2, <1>4

\* A sum grows by the value of what joins its domain.
LEMMA SumAdd ==
  ASSUME NEW A, IsFiniteSet(A), NEW x \in A, NEW f, DOMAIN f = A, IntsOn(f, A),
         NEW e, DOMAIN e = A \ {x}, SameOn(e, f, A \ {x})
  PROVE  SumInts(e) \in Int /\ SumInts(f) = SumInts(e) + f[x]
<1> DEFINE g == CHOOSE s : Sums(s, e, A \ {x})
           h == CHOOSE s : Sums(s, f, A)
<1>1. IsFiniteSet(A \ {x})
  BY FS_RemoveElement
<1>2. Sums(g, e, A \ {x}) /\ Sums(h, f, A)
  BY <1>1, SumsExist
<1>3. SumInts(e) = g[A \ {x}] /\ SumInts(f) = h[A]
  BY SumUnfolds
<1> HIDE DEF g, h
<1> QED  BY <1>2, <1>3, SumsAdd

LEMMA SumTyped ==
  ASSUME NEW f, IsFiniteSet(DOMAIN f), IntsOn(f, DOMAIN f)
  PROVE  SumInts(f) \in Int
<1> DEFINE g == CHOOSE s : Sums(s, f, DOMAIN f)
<1>1. Sums(g, f, DOMAIN f)
  BY SumsExist
<1>2. SumInts(f) = g[DOMAIN f]
  BY SumUnfolds
<1> HIDE DEF g
<1>3. \A T \in SUBSET DOMAIN f : g[T] \in Int
  BY <1>1, SumsRemove
<1> QED  BY <1>2, <1>3

LEMMA SumNone == ASSUME NEW f, DOMAIN f = {} PROVE SumInts(f) = 0
<1> DEFINE g == CHOOSE s : Sums(s, f, {})
<1>1. Sums(g, f, {})
  BY SumsExist, FS_EmptySet
<1>2. SumInts(f) = g[{}]
  BY SumUnfolds
<1> HIDE DEF g
<1>3. Unfolds(g, f, {})
  BY <1>1, SumsStep
<1> QED  BY <1>2, <1>3 DEF Unfolds

\* A set of numbers has a least one.
LEMMA LeastNumber ==
    ASSUME NEW S, S \subseteq Nat, S # {}
    PROVE  \E i \in S : \A j \in S : i <= j
<1>1. PICK i \in S : \A j \in S : <<j, i>> \notin OpToRel(<, Nat)
    BY WFMin, NatLessThanWellFounded
<1>2. ASSUME NEW j \in S PROVE i <= j
    <2>1. <<j, i>> \notin {ss \in Nat \X Nat : ss[1] < ss[2]}
        BY <1>1 DEF OpToRel
    <2>2. i \in Nat /\ j \in Nat
        OBVIOUS
    <2> QED BY <2>1, <2>2
<1> QED BY <1>2

\* The trigger leaves a sequence of accounts a sequence of accounts.
LEMMA AccountTyped ==
    ASSUME NEW s \in Seq(Account), NEW i, NEW v \in Int
    PROVE  [s EXCEPT ![i].balance = @ + v] \in Seq(Account)
<1>1. PICK n \in Nat : s \in [1..n -> Account]
    OBVIOUS
<1> DEFINE a == [s[i] EXCEPT !.balance = @ + v]
<1>2. i \in 1..n => a \in Account
    <2> SUFFICES ASSUME i \in 1..n PROVE a \in Account
        OBVIOUS
    <2>1. s[i] \in Account
        BY <1>1
    <2>2. s[i].balance \in Int
        BY <2>1 DEF Account
    <2>3. s[i].balance + v \in Int
        BY <2>2
    <2> QED BY <2>1, <2>3 DEF Account
<1> HIDE DEF a
<1>3. [s EXCEPT ![i] = a] \in [1..n -> Account]
    BY <1>1, <1>2
<1>4. [s EXCEPT ![i] = a] \in Seq(Account)
    BY <1>3
<1> QED BY <1>4 DEF a

(* Accounts and rows.                                                      *)

LEMMA RowsTyped ==
    ASSUME NEW id \in Ids, ledger \in [Ids -> Row \cup {None}], ledger[id] # None
    PROVE  /\ ledger[id] \in Row /\ ledger[id].key \in Keys \cup {IncomeKey}
           /\ ledger[id].account \in Nat /\ ledger[id].amount \in Int
           /\ ledger[id].at \in Nat /\ ledger[id].deleted \in BOOLEAN
BY DEF Row

\* What an execution remembers has its type.
ExecTyped(x) ==
    /\ x.key \in Keys \cup {None, IncomeKey} /\ x.amount \in Int
    /\ x.currency \in FiatCurrencies /\ x.account \in Nat
    /\ x.first \in BOOLEAN /\ x.row \in Ids \cup {None}

LEMMA ExecFields ==
    ASSUME TablesOK, NEW e \in Executions
    PROVE  ExecTyped(exec[e])
BY DEF TablesOK, ExecTyped, Execution

\* The account a transaction finds as it begins is one of those there are.
LEMMA FindsAccount ==
    ASSUME TablesOK, NEW currency
    PROVE  FindDefaultCashAccount(currency) \in {0} \cup DOMAIN accounts
<1> DEFINE mine == {i \in DOMAIN accounts : accounts[i].currency = currency}
           default == {i \in mine : accounts[i].isDefault}
<1>1. mine \subseteq Nat
    BY DEF TablesOK
<1>2. CASE mine = {}
    BY <1>2 DEF FindDefaultCashAccount
<1>3. CASE default # {}
    <2>1. (CHOOSE i \in default : TRUE) \in mine
        BY <1>3
    <2> QED BY <2>1, <1>3 DEF FindDefaultCashAccount
<1>4. CASE mine # {} /\ default = {}
    <2>1. \E i \in mine : \A j \in mine : i <= j
        <3> HIDE DEF mine
        <3> QED BY <1>1, <1>4, LeastNumber
    <2>2. (CHOOSE i \in mine : \A j \in mine : i <= j) \in mine
        BY <2>1
    <2> QED BY <2>2, <1>4 DEF FindDefaultCashAccount
<1> QED BY <1>2, <1>3, <1>4

LEMMA AccountOfTyped ==
    ASSUME TablesOK, NEW e \in Executions
    PROVE  AccountOf(e) \in Nat
BY ExecFields DEF TablesOK, AccountOf, ExecTyped

\* The accounts after a row was inserted.
LEMMA AccountsAfterInsert ==
    ASSUME TablesOK, NEW e \in Executions, NEW row \in Row
    PROVE  SyncCashBalance(EnsureCashAccount(e), None, row) \in Seq(Account)
<1>1. ExecTyped(exec[e]) /\ accounts \in Seq(Account)
    BY ExecFields DEF TablesOK
<1> DEFINE new == [currency |-> exec[e].currency, balance |-> 0,
                   isDefault |-> exec[e].first]
           cleared == [i \in DOMAIN accounts |->
                           [accounts[i] EXCEPT !.isDefault = FALSE]]
<1>3. new \in Account
    BY <1>1 DEF Account, ExecTyped
<1>4. cleared \in Seq(Account)
    <2>1. PICK n \in Nat : accounts \in [1..n -> Account]
        BY <1>1
    <2>2. \A i \in 1..n : [accounts[i] EXCEPT !.isDefault = FALSE] \in Account
        BY <2>1 DEF Account
    <2>3. cleared \in [1..n -> Account]
        BY <2>1, <2>2
    <2> QED BY <2>3
<1>5. EnsureCashAccount(e) \in Seq(Account)
    <2> HIDE DEF new, cleared
    <2>1. Append(cleared, new) \in Seq(Account) /\ Append(accounts, new) \in Seq(Account)
        BY <1>1, <1>3, <1>4
    <2>2. EnsureCashAccount(e) \in {accounts, Append(cleared, new), Append(accounts, new)}
        BY DEF EnsureCashAccount, new, cleared
    <2> QED BY <1>1, <2>1, <2>2
<1>6. CashEffectiveAmount(row) - CashEffectiveAmount(None) \in Int
    BY DEF CashEffectiveAmount, Live, Row
<1>7. SyncCashBalance(EnsureCashAccount(e), None, row) \in Seq(Account)
    BY <1>5, <1>6, AccountTyped DEF SyncCashBalance
<1> QED BY <1>7

\* A transaction that inserts a row: one id, one key, nothing else touched.
LEMMA InsertStep ==
    ASSUME TablesOK, NEW e \in Executions, NEW id \in Ids, NEW at \in Times,
           NEW source \in {"manual", "system"}, exec[e].key \in Keys \cup {IncomeKey},
           CreateCashTransaction(e, id, source, at)
    PROVE  /\ ledger' \in [Ids -> Row \cup {None}] /\ accounts' \in Seq(Account)
           /\ ~KeyUsed(exec[e].key) /\ ledger[id] = None
           /\ ledger'[id] # None /\ ledger'[id].key = exec[e].key
           /\ ledger'[id].source = source
           /\ \A x \in Ids \ {id} : ledger'[x] = ledger[x]
<1> DEFINE row == [key |-> exec[e].key, source |-> source, account |-> AccountOf(e),
                   amount |-> exec[e].amount, at |-> at, deleted |-> FALSE]
<1>1. row \in Row
    BY ExecFields, AccountOfTyped, LedgerAssumption DEF Row, ExecTyped
<1>2. /\ ledger[id] = None /\ ~KeyUsed(exec[e].key)
      /\ ledger' = [ledger EXCEPT ![id] = row]
      /\ accounts' = SyncCashBalance(EnsureCashAccount(e), None, row)
    BY DEF CreateCashTransaction
<1>3. row.key = exec[e].key /\ row.source = source
    OBVIOUS
<1>4. row # None
    BY <1>1, NoneAssumption
<1> HIDE DEF row
<1>5. ledger \in [Ids -> Row \cup {None}]
    BY DEF TablesOK
<1>6. accounts' \in Seq(Account)
    BY <1>1, <1>2, AccountsAfterInsert
<1> QED BY <1>1, <1>2, <1>3, <1>4, <1>5, <1>6

-----------------------------------------------------------------------------
(* What a step does to the ledger.                                         *)

\* No row appears, none goes, none changes its key.
SameRows == \A id \in Ids : /\ (ledger'[id] = None) <=> (ledger[id] = None)
                            /\ ledger'[id] # None => /\ ledger'[id].key = ledger[id].key
                                                     /\ ledger'[id].source = ledger[id].source

\* One row appears, under a key no row had.
NewRow(id, k) == /\ ledger[id] = None /\ ~KeyUsed(k)
                 /\ ledger'[id] # None /\ ledger'[id].key = k
                 /\ \A x \in Ids \ {id} : ledger'[x] = ledger[x]

\* The step an execution that inserts is at, and the key it inserts under.
KeysFollowStep ==
    \A e \in Executions :
        /\ exec[e].step \in {"insert", "replay", "get"} => exec[e].key \in Keys
        /\ exec[e].step = "receive" => exec[e].key \in Keys \cup {IncomeKey}
        /\ exec[e].row # None => exec[e].step \in {"get", "done"}

Base == TablesOK /\ KeysFollowStep

LEMMA RestingTyped ==
    ASSUME NEW step \in {"idle", "done"}
    PROVE  /\ Resting(step) \in Execution /\ Resting(step).row = None
           /\ Resting(step).step = step
<1>1. /\ step \in Steps /\ None \in Keys \cup {None, IncomeKey} /\ 0 \in Int /\ 0 \in Nat
      /\ "USD" \in FiatCurrencies /\ FALSE \in BOOLEAN /\ None \in Ids \cup {None}
    BY DEF FiatCurrencies, Steps
<1>2. Resting(step) \in Execution
    BY <1>1, Zenon DEF Resting, Execution
<1>3. Resting(step).row = None /\ Resting(step).step = step
    BY DEF Resting
<1> QED BY <1>2, <1>3

LEMMA FinishTyped ==
    ASSUME TablesOK, NEW e \in Executions, Finish(e)
    PROVE  /\ exec' \in [Executions -> Execution]
           /\ exec'[e].row = None /\ exec'[e].step = "done"
           /\ \A x \in Executions \ {e} : exec'[x] = exec[x]
<1>1. exec \in [Executions -> Execution]
    BY DEF TablesOK
<1> DEFINE d == Resting("done")
<1>2. exec' = [exec EXCEPT ![e] = d]
    BY DEF Finish
<1>3. d \in Execution /\ d.row = None /\ d.step = "done"
    BY RestingTyped
<1> HIDE DEF d
<1> QED BY <1>1, <1>2, <1>3

\* An execution that goes on, at a step of its own.
LEMMA MoveTyped ==
    ASSUME TablesOK, NEW e \in Executions, NEW step \in {"replay", "get", "done"}, NEW row \in Ids \cup {None},
           exec' = [exec EXCEPT ![e] = [exec[e] EXCEPT !.step = step, !.row = row]]
    PROVE  /\ exec' \in [Executions -> Execution]
           /\ exec'[e].row = row /\ exec'[e].step = step /\ exec'[e].key = exec[e].key
           /\ \A x \in Executions \ {e} : exec'[x] = exec[x]
<1>1. exec \in [Executions -> Execution] /\ exec[e] \in Execution
    BY DEF TablesOK
<1> DEFINE x == [exec[e] EXCEPT !.step = step, !.row = row]
<1>2. x \in Execution /\ x.row = row /\ x.step = step /\ x.key = exec[e].key
    BY <1>1 DEF Execution, Steps
<1> HIDE DEF x
<1>3. exec' = [exec EXCEPT ![e] = x]
    BY DEF x
<1> QED BY <1>1, <1>2, <1>3

LEMMA BeginTyped ==
    ASSUME TablesOK, NEW e \in Executions, NEW step \in {"insert", "receive"},
           NEW key \in Keys \cup {IncomeKey},
           NEW amount \in Int, NEW currency \in FiatCurrencies, NEW named \in Named,
           exec' = [exec EXCEPT ![e] = Begun(step, key, amount, currency, named)]
    PROVE  /\ exec' \in [Executions -> Execution]
           /\ exec'[e].row = None /\ exec'[e].step = step /\ exec'[e].key = key
           /\ \A x \in Executions \ {e} : exec'[x] = exec[x]
<1> DEFINE x == Begun(step, key, amount, currency, named)
<1> DEFINE account == IF named # 0 THEN named ELSE FindDefaultCashAccount(currency)
<1>0. account \in Nat
    <2>1. DOMAIN accounts \subseteq Nat
        BY DEF TablesOK
    <2> QED BY <2>1, FindsAccount DEF Named
<1>4. x = [step |-> step, key |-> key, amount |-> amount, currency |-> currency,
           account |-> account, first |-> accounts = <<>>, row |-> None]
    BY DEF Begun
<1> HIDE DEF account
<1>1. x \in Execution /\ x.row = None /\ x.step = step /\ x.key = key
    BY <1>0, <1>4 DEF Execution, Steps
<1> HIDE DEF x
<1>2. exec \in [Executions -> Execution]
    BY DEF TablesOK
<1>3. exec' = [exec EXCEPT ![e] = x]
    BY DEF x
<1> QED BY <1>1, <1>2, <1>3

\* Deleting or editing a row leaves every row where it is.
LEMMA RowChanged ==
    ASSUME TablesOK, NEW id \in Ids, NEW row \in Row, ledger[id] # None,
           row.key = ledger[id].key, row.source = ledger[id].source, ledger' = [ledger EXCEPT ![id] = row]
    PROVE  SameRows /\ ledger' \in [Ids -> Row \cup {None}]
<1>1. ledger \in [Ids -> Row \cup {None}]
    BY DEF TablesOK
<1>2. row # None
    BY NoneAssumption
<1> QED BY <1>1, <1>2 DEF SameRows

\* Every step adds one row under a fresh key, on behalf of an execution that is
\* at that point, or leaves the rows alone.
Change ==
    \/ /\ SameRows
       /\ \A e \in Executions : exec'[e].row # None =>
             \/ exec[e].row # None /\ exec'[e].row = exec[e].row /\ exec'[e].key = exec[e].key
             \/ /\ ledger[exec'[e].row] # None /\ exec'[e].key = exec[e].key
                /\ ledger[exec'[e].row].key = exec[e].key
    \/ \E e \in Executions, id \in Ids :
          /\ exec[e].step \in {"insert", "receive"}
          /\ NewRow(id, exec[e].key)
          /\ exec'[e].row # None => exec'[e].row = id /\ exec'[e].key = exec[e].key
          /\ \A x \in Executions \ {e} : exec'[x] = exec[x]

Goal == [status : {"active", "achieved", "archived"}, target : Int,
         current : Nat, deleted : BOOLEAN]
Income == [status : IncomeStatuses, amount : Int, currency : FiatCurrencies,
           received : Ids \cup {None}, deleted : BOOLEAN]

LEMMA GoalTyped ==
    ASSUME NEW g \in Goal
    PROVE  SyncGoalStatus(g) \in Goal
<1>1. g.status \in {"active", "achieved", "archived"} /\ g.current \in Int /\ g.target \in Int
    BY DEF Goal
<1>2. [g EXCEPT !.status = "achieved"] \in Goal /\ [g EXCEPT !.status = "active"] \in Goal
    BY DEF Goal
<1> QED BY <1>1, <1>2 DEF SyncGoalStatus

-----------------------------------------------------------------------------
(* The step of each handler.                                               *)

LEMMA InitBase == Init => Base
<1> SUFFICES ASSUME Init PROVE Base
    OBVIOUS
<1>1. exec \in [Executions -> Execution]
    BY RestingTyped DEF Init
<1>2. goal \in Goal /\ income \in Income
    BY LedgerAssumption DEF Init, Goal, Income, IncomeStatuses, FiatCurrencies
<1>3. accounts \in Seq(Account) /\ ledger \in [Ids -> Row \cup {None}]
      /\ counted \in [Keys -> Nat]
    BY DEF Init
<1>4. TablesOK
    BY <1>1, <1>2, <1>3 DEF TablesOK, Goal, Income
<1>5. KeysFollowStep
    BY RestingTyped DEF Init, KeysFollowStep
<1> QED BY <1>4, <1>5 DEF Base

\* An execution that ends leaves the others where they are.
LEMMA FinishStep ==
    ASSUME Base, NEW e \in Executions, Finish(e)
    PROVE  exec' \in [Executions -> Execution] /\ KeysFollowStep'
<1>1. /\ exec' \in [Executions -> Execution]
      /\ exec'[e].row = None /\ exec'[e].step = "done"
      /\ \A x \in Executions \ {e} : exec'[x] = exec[x]
    BY FinishTyped DEF Base
<1> QED BY <1>1 DEF KeysFollowStep, Base

\* A step that changes neither the rows nor what any execution answers with.
LEMMA FinishChange ==
    ASSUME Base, NEW e \in Executions, Finish(e), SameRows
    PROVE  Change
<1>1. /\ exec'[e].row = None
      /\ \A x \in Executions \ {e} : exec'[x] = exec[x]
    BY FinishTyped DEF Base
<1> QED BY <1>1 DEF Change

LEMMA SameLedger == ASSUME UNCHANGED ledger PROVE SameRows
BY DEF SameRows

\* What a step must keep.
Kept == Base' /\ Change

LEMMA KeptBy ==
    ASSUME accounts' \in Seq(Account), ledger' \in [Ids -> Row \cup {None}],
           income' \in Income, goal' \in Goal, counted' \in [Keys -> Nat],
           exec' \in [Executions -> Execution], KeysFollowStep', Change
    PROVE  Kept
BY DEF Kept, Base, TablesOK, Income, Goal

LEMMA BaseTyped ==
    ASSUME Base
    PROVE  /\ accounts \in Seq(Account) /\ ledger \in [Ids -> Row \cup {None}]
           /\ income \in Income /\ goal \in Goal /\ counted \in [Keys -> Nat]
           /\ exec \in [Executions -> Execution] /\ KeysFollowStep /\ TablesOK
BY DEF Base, TablesOK, Income, Goal

\* A step that only ends an execution and changes the income or the goal.
LEMMA FinishKept ==
    ASSUME Base, NEW e \in Executions, Finish(e), UNCHANGED <<accounts, ledger>>,
           income' \in Income, goal' \in Goal, counted' \in [Keys -> Nat]
    PROVE  Kept
BY BaseTyped, FinishStep, FinishChange, SameLedger, KeptBy

\* A handler whose transaction begins.
LEMMA BeginKept ==
    ASSUME Base, NEW e \in Executions, NEW step \in {"insert", "receive"},
           NEW key \in Keys \cup {IncomeKey}, step = "insert" => key \in Keys,
           NEW amount \in Int, NEW currency \in FiatCurrencies, NEW named \in Named,
           exec' = [exec EXCEPT ![e] = Begun(step, key, amount, currency, named)],
           UNCHANGED <<accounts, ledger, income, goal, counted>>
    PROVE  Kept
<1>1. /\ exec' \in [Executions -> Execution]
      /\ exec'[e].row = None /\ exec'[e].step = step /\ exec'[e].key = key
      /\ \A x \in Executions \ {e} : exec'[x] = exec[x]
    BY BeginTyped, BaseTyped
<1>2. KeysFollowStep'
    BY <1>1 DEF Base, KeysFollowStep
<1>3. Change
    BY <1>1, SameLedger DEF Change
<1> QED BY <1>1, <1>2, <1>3, BaseTyped, KeptBy

\* An execution that goes on without writing.
LEMMA MoveKept ==
    ASSUME Base, NEW e \in Executions, NEW step \in {"replay", "get", "done"},
           NEW row \in Ids \cup {None},
           exec' = [exec EXCEPT ![e] = [exec[e] EXCEPT !.step = step, !.row = row]],
           step \in {"replay", "get"} => exec[e].key \in Keys,
           row # None => /\ step # "replay" /\ ledger[row] # None
                         /\ ledger[row].key = exec[e].key,
           UNCHANGED <<accounts, ledger, income, goal, counted>>
    PROVE  Kept
<1>1. /\ exec' \in [Executions -> Execution]
      /\ exec'[e].row = row /\ exec'[e].step = step /\ exec'[e].key = exec[e].key
      /\ \A x \in Executions \ {e} : exec'[x] = exec[x]
    BY MoveTyped, BaseTyped
<1>2. KeysFollowStep'
    BY <1>1 DEF Base, KeysFollowStep
<1>3. Change
    BY <1>1, SameLedger DEF Change
<1> QED BY <1>1, <1>2, <1>3, BaseTyped, KeptBy

\* A handler that inserts a row and then goes on or ends.
LEMMA InsertKept ==
    ASSUME Base, NEW e \in Executions, NEW id \in Ids, NEW at \in Times,
           exec[e].step \in {"insert", "receive"}, NEW source \in {"manual", "system"},
           CreateCashTransaction(e, id, source, at),
           exec' \in [Executions -> Execution], KeysFollowStep',
           exec'[e].row # None => exec'[e].row = id /\ exec'[e].key = exec[e].key,
           \A x \in Executions \ {e} : exec'[x] = exec[x],
           income' \in Income, goal' \in Goal, counted' \in [Keys -> Nat]
    PROVE  Kept /\ NewRow(id, exec[e].key) /\ ledger'[id].source = source
<1>1. exec[e].key \in Keys \cup {IncomeKey}
    BY DEF Base, KeysFollowStep
<1>2. /\ ledger' \in [Ids -> Row \cup {None}] /\ accounts' \in Seq(Account)
      /\ ~KeyUsed(exec[e].key) /\ ledger[id] = None
      /\ ledger'[id] # None /\ ledger'[id].key = exec[e].key
      /\ ledger'[id].source = source
      /\ \A x \in Ids \ {id} : ledger'[x] = ledger[x]
    BY <1>1, InsertStep, BaseTyped
<1>3. NewRow(id, exec[e].key)
    BY <1>2 DEF NewRow
<1>4. Change
    BY <1>3 DEF Change
<1> QED BY <1>2, <1>3, <1>4, KeptBy

\* The handlers of transactions.
LEMMA BeginCashKept == ASSUME Base, NEW e \in Executions, BeginCash(e) PROVE Kept
<1>1. PICK k \in Keys, type \in {"income", "expense", "adjustment"},
           amount \in Amounts \ {0}, currency \in FiatCurrencies, named \in Named :
          exec' = [exec EXCEPT ![e] =
              Begun("insert", k, SignedAmount(type, amount), currency, named)]
    BY DEF BeginCash
<1>2. SignedAmount(type, amount) \in Int
    BY LedgerAssumption DEF SignedAmount, AbsInt
<1>3. UNCHANGED <<accounts, ledger, income, goal, counted>>
    BY DEF BeginCash
<1> DEFINE a == SignedAmount(type, amount)
<1> HIDE DEF a
<1>4. exec' = [exec EXCEPT ![e] = Begun("insert", k, a, currency, named)] /\ a \in Int
    BY <1>1, <1>2 DEF a
<1> QED BY <1>3, <1>4, BeginKept

LEMMA CommitCashKept ==
    ASSUME Base, NEW e \in Executions, CommitCash(e)
    PROVE  Kept /\ \E id \in Ids : NewRow(id, exec[e].key) /\ ledger'[id].source = "manual"
<1>1. PICK id \in Ids, at \in Times :
          /\ CreateCashTransaction(e, id, "manual", at)
          /\ exec' = [exec EXCEPT ![e].step = "get", ![e].row = id]
    BY DEF CommitCash
<1>2. exec[e].step = "insert" /\ exec[e].key \in Keys
    BY DEF CommitCash, At, Base, KeysFollowStep
<1>3. exec' = [exec EXCEPT ![e] = [exec[e] EXCEPT !.step = "get", !.row = id]]
    BY <1>1, BaseTyped DEF Execution
<1>4. /\ exec' \in [Executions -> Execution]
      /\ exec'[e].row = id /\ exec'[e].step = "get" /\ exec'[e].key = exec[e].key
      /\ \A x \in Executions \ {e} : exec'[x] = exec[x]
    BY <1>3, MoveTyped, BaseTyped
<1>5. KeysFollowStep'
    BY <1>2, <1>4 DEF Base, KeysFollowStep
<1>6. UNCHANGED <<income, goal, counted>>
    BY DEF CommitCash
<1> QED BY <1>1, <1>2, <1>4, <1>5, <1>6, InsertKept, BaseTyped

LEMMA ConflictCashKept == ASSUME Base, NEW e \in Executions, ConflictCash(e) PROVE Kept
<1>1. /\ exec[e].step = "insert" /\ exec[e].key \in Keys /\ exec[e].row = None
      /\ exec' = [exec EXCEPT ![e].step = "replay"]
      /\ UNCHANGED <<accounts, ledger, income, goal, counted>>
    BY DEF ConflictCash, At, Base, KeysFollowStep
<1>2. exec' = [exec EXCEPT ![e] = [exec[e] EXCEPT !.step = "replay", !.row = None]]
    BY <1>1, BaseTyped DEF Execution
<1> QED BY <1>1, <1>2, MoveKept

LEMMA ReplayCashKept == ASSUME Base, NEW e \in Executions, ReplayCash(e) PROVE Kept
<1>1. /\ exec[e].step = "replay" /\ exec[e].key \in Keys
      /\ UNCHANGED <<accounts, ledger, income, goal, counted>>
    BY DEF ReplayCash, At, Base, KeysFollowStep
<1>2. ASSUME NEW id \in Ids, ledger[id] # None /\ ledger[id].key = exec[e].key,
             exec' = [exec EXCEPT ![e].step = "get", ![e].row = id]
      PROVE  Kept
    <2>1. exec' = [exec EXCEPT ![e] = [exec[e] EXCEPT !.step = "get", !.row = id]]
        BY <1>2, BaseTyped DEF Execution
    <2> QED BY <1>1, <1>2, <2>1, MoveKept
<1>3. ASSUME Finish(e) PROVE Kept
    BY <1>1, <1>3, FinishKept, BaseTyped
<1> QED BY <1>2, <1>3 DEF ReplayCash

LEMMA GetCashKept ==
    ASSUME Base, RecordedOnce, NEW e \in Executions, GetCash(e)
    PROVE  Kept
<1>1. /\ exec[e].step = "get" /\ exec[e].row \in Ids \cup {None}
      /\ UNCHANGED <<accounts, ledger, income, goal, counted>>
    BY BaseTyped DEF GetCash, At, Execution
<1>2. exec[e].row # None => /\ ledger[exec[e].row] # None
                            /\ ledger[exec[e].row].key = exec[e].key
    BY DEF RecordedOnce
<1>3. ASSUME exec' = [exec EXCEPT ![e].step = "done"] PROVE Kept
    <2>1. exec' = [exec EXCEPT ![e] = [exec[e] EXCEPT !.step = "done", !.row = exec[e].row]]
        BY <1>3, BaseTyped DEF Execution
    <2> DEFINE r == exec[e].row
    <2> HIDE DEF r
    <2>2. exec' = [exec EXCEPT ![e] = [exec[e] EXCEPT !.step = "done", !.row = r]]
          /\ r \in Ids \cup {None}
          /\ (r # None => ledger[r] # None /\ ledger[r].key = exec[e].key)
        BY <1>1, <1>2, <2>1 DEF r
    <2> QED BY <1>1, <2>2, MoveKept
<1>4. ASSUME Finish(e) PROVE Kept
    BY <1>1, <1>4, FinishKept, BaseTyped
<1> QED BY <1>3, <1>4 DEF GetCash

LEMMA RemoveCashKept == ASSUME Base, NEW e \in Executions, RemoveCash(e) PROVE Kept /\ SameRows
<1>1. PICK id \in Ids :
          /\ Live(ledger[id])
          /\ ledger' = [ledger EXCEPT ![id] = [ledger[id] EXCEPT !.deleted = TRUE]]
          /\ accounts' = SyncCashBalance(accounts, ledger[id],
                                         [ledger[id] EXCEPT !.deleted = TRUE])
    BY DEF RemoveCash
<1>2. Finish(e) /\ UNCHANGED <<income, goal, counted>>
    BY DEF RemoveCash
<1> DEFINE old == ledger[id]
           new == [old EXCEPT !.deleted = TRUE]
<1>3. old # None /\ old \in Row
    BY <1>1, BaseTyped, RowsTyped DEF Live
<1>4. new \in Row /\ new.key = old.key /\ new.source = old.source
      /\ new.account = old.account
    BY <1>3 DEF Row
<1>5. CashEffectiveAmount(new) - CashEffectiveAmount(old) \in Int
    <2>1. CashEffectiveAmount(old) \in Int /\ CashEffectiveAmount(new) \in Int
        BY <1>3, <1>4 DEF CashEffectiveAmount, Row
    <2> QED BY <2>1
<1> HIDE DEF new
<1>6. SyncCashBalance(accounts, old, new) \in Seq(Account)
    BY <1>5, BaseTyped, AccountTyped DEF SyncCashBalance
<1>7. SameRows /\ ledger' \in [Ids -> Row \cup {None}]
    <2>1. ledger' = [ledger EXCEPT ![id] = new]
        BY <1>1 DEF new
    <2> QED BY <2>1, <1>3, <1>4, RowChanged, BaseTyped
<1>8. accounts' \in Seq(Account)
    BY <1>1, <1>6 DEF new
<1> QED BY <1>2, <1>7, <1>8, FinishStep, FinishChange, KeptBy, BaseTyped

LEMMA UpdateCashKept == ASSUME Base, NEW e \in Executions, UpdateCash(e) PROVE Kept /\ SameRows
<1>1. PICK id \in Ids, at \in Times :
          /\ Live(ledger[id])
          /\ ledger' = [ledger EXCEPT ![id].at = at]
    BY DEF UpdateCash
<1>2. Finish(e) /\ UNCHANGED <<accounts, income, goal, counted>>
    BY DEF UpdateCash
<1> DEFINE old == ledger[id]
           new == [old EXCEPT !.at = at]
<1>3. old # None /\ old \in Row /\ at \in Nat
    BY <1>1, BaseTyped, RowsTyped, LedgerAssumption DEF Live
<1>4. new \in Row /\ new.key = old.key /\ new.source = old.source
    BY <1>3 DEF Row
<1> HIDE DEF new
<1>5. SameRows /\ ledger' \in [Ids -> Row \cup {None}]
    <2>1. ledger' = [ledger EXCEPT ![id] = new]
        BY <1>1 DEF new
    <2> QED BY <2>1, <1>3, <1>4, RowChanged, BaseTyped
<1> QED BY <1>2, <1>5, FinishStep, FinishChange, KeptBy, BaseTyped

\* The handlers of expected income.
LEMMA BeginReceiveKept == ASSUME Base, NEW e \in Executions, BeginReceive(e) PROVE Kept
<1>1. PICK k \in Keys \cup {IncomeKey}, named \in Named :
          exec' = [exec EXCEPT ![e] =
              Begun("receive", k, income.amount, income.currency, named)]
    BY DEF BeginReceive
<1>2. UNCHANGED <<accounts, ledger, income, goal, counted>>
    BY DEF BeginReceive
<1>3. income.amount \in Int /\ income.currency \in FiatCurrencies
    BY BaseTyped DEF Income
<1> QED BY <1>1, <1>2, <1>3, BeginKept

LEMMA CommitReceiveKept ==
    ASSUME Base, NEW e \in Executions, CommitReceive(e)
    PROVE  /\ Kept
           /\ \E id \in Ids : /\ NewRow(id, exec[e].key) /\ ledger'[id].source = "system"
                              /\ income'.status = "received" /\ income'.received = id
<1>1. PICK id \in Ids, at \in Times :
          /\ CreateCashTransaction(e, id, "system", at)
          /\ income' = [income EXCEPT !.status = "received", !.received = id]
    BY DEF CommitReceive
<1>2. Finish(e) /\ UNCHANGED <<goal, counted>> /\ exec[e].step = "receive"
    BY DEF CommitReceive, At
<1>3. income' \in Income /\ income'.status = "received" /\ income'.received = id
    BY <1>1, BaseTyped DEF Income, IncomeStatuses
<1>4. /\ exec' \in [Executions -> Execution] /\ KeysFollowStep'
      /\ exec'[e].row = None
      /\ \A x \in Executions \ {e} : exec'[x] = exec[x]
    BY <1>2, FinishStep, FinishTyped, BaseTyped
<1>5. Kept /\ NewRow(id, exec[e].key) /\ ledger'[id].source = "system"
    BY <1>1, <1>2, <1>3, <1>4, InsertKept, BaseTyped
<1> QED BY <1>3, <1>5

LEMMA SetExpectedIncomeStatusKept ==
    ASSUME Base, NEW e \in Executions, SetExpectedIncomeStatus(e)
    PROVE  /\ Kept /\ SameRows
           /\ \E status \in IncomeStatuses :
                 /\ IncomeAccepts(status)
                 /\ status = "received" => income.received # None
                 /\ income'.status = status /\ income'.received = income.received
<1>1. PICK status \in IncomeStatuses :
          /\ IncomeAccepts(status)
          /\ status = "received" => income.received # None
          /\ income' = [income EXCEPT !.status = status]
    BY DEF SetExpectedIncomeStatus
<1>2. /\ income' \in Income /\ income'.status = status
      /\ income'.received = income.received
    BY <1>1, BaseTyped DEF Income
<1>3. Finish(e) /\ UNCHANGED <<accounts, ledger, goal, counted>>
    BY DEF SetExpectedIncomeStatus
<1>4. Kept
    BY <1>2, <1>3, BaseTyped, FinishKept
<1> QED BY <1>1, <1>2, <1>3, <1>4, SameLedger

LEMMA UpdateExpectedIncomeKept ==
    ASSUME Base, NEW e \in Executions, UpdateExpectedIncome(e) \/ RemoveExpectedIncome(e)
    PROVE  /\ Kept /\ SameRows
           /\ income'.status = income.status /\ income'.received = income.received
<1>1. /\ income' \in Income
      /\ income'.status = income.status /\ income'.received = income.received
    <2>1. CASE UpdateExpectedIncome(e)
        <3>1. PICK amount \in Amounts, currency \in FiatCurrencies :
                  income' = [income EXCEPT !.amount = amount, !.currency = currency]
            BY <2>1 DEF UpdateExpectedIncome
        <3> QED BY <3>1, BaseTyped, LedgerAssumption DEF Income
    <2>2. CASE RemoveExpectedIncome(e)
        BY <2>2, BaseTyped DEF RemoveExpectedIncome, Income
    <2> QED BY <2>1, <2>2
<1>2. Finish(e) /\ UNCHANGED <<accounts, ledger, goal, counted>>
    BY DEF UpdateExpectedIncome, RemoveExpectedIncome
<1> QED BY <1>1, <1>2, BaseTyped, FinishKept, SameLedger

\* The handlers of goals.
LEMMA SyncedAgrees ==
    ASSUME NEW g \in Goal
    PROVE  LET s == SyncGoalStatus(g)
           IN  /\ s \in Goal
               /\ s.status # "archived" =>
                     ((s.status = "achieved") <=> (s.current >= s.target))
<1>1. /\ g.status \in {"active", "achieved", "archived"}
      /\ g.current \in Int /\ g.target \in Int
    BY DEF Goal
<1>2. /\ [g EXCEPT !.status = "achieved"].status = "achieved"
      /\ [g EXCEPT !.status = "achieved"].current = g.current
      /\ [g EXCEPT !.status = "achieved"].target = g.target
      /\ [g EXCEPT !.status = "active"].status = "active"
      /\ [g EXCEPT !.status = "active"].current = g.current
      /\ [g EXCEPT !.status = "active"].target = g.target
    BY DEF Goal
<1> QED BY <1>1, <1>2, GoalTyped DEF SyncGoalStatus

LEMMA GoalStep ==
    ASSUME Base, NEW e \in Executions,
           ContributeToGoal(e) \/ UpdateGoal(e) \/ RemoveGoal(e)
    PROVE  Kept /\ (GoalAgrees => GoalAgrees')
<1>1. Finish(e) /\ UNCHANGED <<accounts, ledger, income>>
    BY DEF ContributeToGoal, UpdateGoal, RemoveGoal
<1>2. CASE ContributeToGoal(e)
    <2>1. PICK k \in Keys, delta \in Amounts :
              /\ goal' = SyncGoalStatus([goal EXCEPT !.current = MaxInt(@ + delta, 0)])
              /\ counted' = [counted EXCEPT ![k] = @ + 1]
        BY <1>2 DEF ContributeToGoal
    <2> DEFINE g == [goal EXCEPT !.current = MaxInt(goal.current + delta, 0)]
    <2>2. g \in Goal
        <3>1. goal \in Goal /\ goal.current \in Int /\ delta \in Int
            BY BaseTyped, LedgerAssumption DEF Goal
        <3>2. MaxInt(goal.current + delta, 0) \in Nat
            BY <3>1 DEF MaxInt
        <3> QED BY <3>1, <3>2 DEF Goal
    <2> HIDE DEF g
    <2>3. goal' = SyncGoalStatus(g)
        BY <2>1 DEF g
    <2>4. counted' \in [Keys -> Nat]
        BY <2>1, BaseTyped
    <2>5. goal' \in Goal /\ GoalAgrees'
        BY <2>2, <2>3, SyncedAgrees DEF GoalAgrees
    <2> QED BY <1>1, <2>4, <2>5, FinishKept, BaseTyped
<1>3. CASE UpdateGoal(e)
    <2>1. PICK target \in Amounts, current \in Amounts,
               status \in {"active", "achieved", "archived"} :
              /\ current >= 0
              /\ goal' = SyncGoalStatus([goal EXCEPT !.target = target,
                                       !.current = current, !.status = status])
        BY <1>3 DEF UpdateGoal
    <2> DEFINE g == [goal EXCEPT !.target = target, !.current = current,
                                 !.status = status]
    <2>2. g \in Goal
        <3>1. goal \in Goal /\ target \in Int /\ current \in Nat
            BY <2>1, BaseTyped, LedgerAssumption
        <3> QED BY <3>1 DEF Goal
    <2> HIDE DEF g
    <2>3. goal' = SyncGoalStatus(g)
        BY <2>1 DEF g
    <2>4. goal' \in Goal /\ GoalAgrees' /\ counted' = counted
        BY <1>3, <2>2, <2>3, SyncedAgrees DEF GoalAgrees, UpdateGoal
    <2> QED BY <1>1, <2>4, FinishKept, BaseTyped
<1>4. CASE RemoveGoal(e)
    <2>1. /\ goal' \in Goal /\ goal'.status = goal.status
          /\ goal'.current = goal.current /\ goal'.target = goal.target
          /\ counted' = counted
        BY <1>4, BaseTyped DEF RemoveGoal, Goal
    <2> QED BY <1>1, <2>1, FinishKept, BaseTyped DEF GoalAgrees
<1> QED BY <1>2, <1>3, <1>4

-----------------------------------------------------------------------------
(* The invariant.                                                          *)

LEMMA RowsKept ==
    ASSUME Base, RecordedOnce, Kept
    PROVE  RecordedOnce'
<1>1. ledger' \in [Ids -> Row \cup {None}] /\ exec' \in [Executions -> Execution]
    BY DEF Kept, Base, TablesOK
<1>2. ASSUME NEW e \in Executions PROVE exec'[e].row \in Ids \cup {None}
    BY <1>1 DEF Execution
<1>3. CASE SameRows /\ \A e \in Executions : exec'[e].row # None =>
             \/ exec[e].row # None /\ exec'[e].row = exec[e].row /\ exec'[e].key = exec[e].key
             \/ /\ ledger[exec'[e].row] # None /\ exec'[e].key = exec[e].key
                /\ ledger[exec'[e].row].key = exec[e].key
    <2>1. ASSUME NEW a \in Ids, NEW b \in Ids, ledger'[a] # None, ledger'[b] # None,
                 ledger'[a].key = ledger'[b].key
          PROVE  a = b
        BY <1>3, <2>1 DEF RecordedOnce, SameRows
    <2>2. ASSUME NEW e \in Executions, exec'[e].row # None
          PROVE  ledger'[exec'[e].row] # None /\ ledger'[exec'[e].row].key = exec'[e].key
        BY <1>2, <1>3, <2>2 DEF RecordedOnce, SameRows
    <2> QED BY <2>1, <2>2 DEF RecordedOnce
<1>4. CASE \E e \in Executions, id \in Ids :
          /\ exec[e].step \in {"insert", "receive"}
          /\ NewRow(id, exec[e].key)
          /\ exec'[e].row # None => exec'[e].row = id /\ exec'[e].key = exec[e].key
          /\ \A x \in Executions \ {e} : exec'[x] = exec[x]
    <2>1. PICK e \in Executions, id \in Ids :
          /\ NewRow(id, exec[e].key)
          /\ exec'[e].row # None => exec'[e].row = id /\ exec'[e].key = exec[e].key
          /\ \A x \in Executions \ {e} : exec'[x] = exec[x]
        BY <1>4
    <2>2. ASSUME NEW a \in Ids, NEW b \in Ids, ledger'[a] # None, ledger'[b] # None,
                 ledger'[a].key = ledger'[b].key
          PROVE  a = b
        BY <2>1, <2>2 DEF RecordedOnce, NewRow, KeyUsed
    <2>3. ASSUME NEW x \in Executions, exec'[x].row # None
          PROVE  ledger'[exec'[x].row] # None /\ ledger'[exec'[x].row].key = exec'[x].key
        <3>1. CASE x = e
            BY <2>1, <2>3, <3>1 DEF NewRow
        <3>2. CASE x # e
            <4>1. exec'[x] = exec[x] /\ exec[x].row \in Ids
                BY <2>1, <2>3, <3>2, <1>2
            <4>2. ledger[exec[x].row] # None /\ ledger[exec[x].row].key = exec[x].key
                BY <4>1, <2>3 DEF RecordedOnce
            <4>3. exec[x].row # id
                BY <2>1, <4>2 DEF NewRow
            <4> QED BY <2>1, <4>1, <4>2, <4>3 DEF NewRow
        <3> QED BY <3>1, <3>2
    <2> QED BY <2>2, <2>3 DEF RecordedOnce
<1> QED BY <1>3, <1>4 DEF Kept, Change

\* Every handler keeps the types, and changes the rows as Change says.
LEMMA HandlersKeep ==
    ASSUME Base, RecordedOnce, NEW e \in Executions, Execute(e)
    PROVE  Kept
<1>1. ASSUME RefuseCash(e) \/ RefuseReceive(e) PROVE Kept
    BY <1>1, FinishKept, BaseTyped DEF RefuseCash, RefuseReceive
<1> QED BY <1>1, BeginCashKept, CommitCashKept, ConflictCashKept, ReplayCashKept,
           GetCashKept, RemoveCashKept, UpdateCashKept, BeginReceiveKept,
           CommitReceiveKept, SetExpectedIncomeStatusKept, UpdateExpectedIncomeKept,
           GoalStep DEF Execute

LEMMA StutterKeeps ==
    ASSUME Base, RecordedOnce,
           UNCHANGED <<accounts, ledger, income, goal, counted, exec>>
    PROVE  Kept
<1>1. Base'
    BY DEF Base, TablesOK, KeysFollowStep
<1>2. Change
    BY SameLedger DEF Change
<1> QED BY <1>1, <1>2 DEF Kept

LEMMA NextKeeps == ASSUME Base, RecordedOnce, [Next]_vars PROVE Kept
<1>1. OpenHistory \/ NextPage \/ UNCHANGED vars
      => UNCHANGED <<accounts, ledger, income, goal, counted, exec>>
    BY DEF OpenHistory, NextPage, vars
<1> QED BY <1>1, HandlersKeep, StutterKeeps DEF Next

\* Whatever is sent again, under however many interleaved transactions, no two
\* rows have one key, and an answer shows the row of its own key.
THEOREM RecordedAtMostOnce == Spec => []RecordedOnce
<1>1. Init => Base /\ RecordedOnce
    <2>1. Init => RecordedOnce
        BY RestingTyped DEF Init, RecordedOnce
    <2> QED BY <2>1, InitBase
<1>2. Base /\ RecordedOnce /\ [Next]_vars => Base' /\ RecordedOnce'
    BY NextKeeps, RowsKept DEF Kept
<1> QED BY <1>1, <1>2, PTL DEF Spec

\* Every step but a receipt leaves alone what an expected income says of itself,
\* or changes its status as the trigger allows.
LEMMA IncomeUntouched ==
    ASSUME IncomeAgrees, SameRows, income'.status = income.status,
           income'.received = income.received
    PROVE  IncomeAgrees'
<1>1. Recorded' = Recorded
    BY DEF Recorded, SameRows
<1>2. \A id \in Recorded : ledger'[id].key = ledger[id].key
    BY <1>1 DEF Recorded, SameRows
<1> QED BY <1>1, <1>2 DEF IncomeAgrees

LEMMA IncomeKept ==
    ASSUME Base, RecordedOnce, IncomeAgrees, [Next]_vars
    PROVE  IncomeAgrees'
<1>1. ASSUME UNCHANGED <<ledger, income>> PROVE IncomeAgrees'
    BY <1>1, IncomeUntouched, SameLedger
<1>2. ASSUME NEW e \in Executions, CommitCash(e) PROVE IncomeAgrees'
    <2>1. exec[e].key \in Keys /\ UNCHANGED income
        BY <1>2 DEF CommitCash, At, Base, KeysFollowStep
    <2>2. PICK id \in Ids : NewRow(id, exec[e].key) /\ ledger'[id].source = "manual"
        BY <1>2, CommitCashKept
    <2>3. Recorded' = Recorded /\ \A x \in Recorded : ledger'[x] = ledger[x]
        BY <2>2 DEF Recorded, NewRow
    <2> QED BY <2>1, <2>3 DEF IncomeAgrees
<1>3. ASSUME NEW e \in Executions, CommitReceive(e) PROVE IncomeAgrees'
    <2>1. PICK id \in Ids : /\ NewRow(id, exec[e].key) /\ ledger'[id].source = "system"
                            /\ income'.status = "received" /\ income'.received = id
        BY <1>3, CommitReceiveKept
    <2>2. id # None
        BY LedgerAssumption
    <2>3. Recorded' = Recorded \cup {id}
        BY <2>1 DEF Recorded, NewRow
    <2>4. ASSUME \A x \in Recorded' : ledger'[x].key = IncomeKey, NEW x \in Recorded
          PROVE  FALSE
        <3>1. ledger[x] # None /\ ledger'[x] = ledger[x]
            BY <2>1, <2>4 DEF Recorded, NewRow
        <3>2. ledger[x].key = IncomeKey /\ exec[e].key = IncomeKey
            BY <2>1, <2>3, <2>4, <3>1 DEF NewRow
        <3> QED BY <2>1, <3>1, <3>2 DEF NewRow, KeyUsed, Recorded
    <2> QED BY <2>1, <2>2, <2>3, <2>4 DEF IncomeAgrees
<1>4. ASSUME NEW e \in Executions, SetExpectedIncomeStatus(e) PROVE IncomeAgrees'
    <2>1. PICK status \in IncomeStatuses :
                 /\ IncomeAccepts(status) /\ SameRows
                 /\ status = "received" => income.received # None
                 /\ income'.status = status /\ income'.received = income.received
        BY <1>4, SetExpectedIncomeStatusKept
    <2>2. income.status = "received" => status = "received"
        BY <2>1 DEF IncomeAccepts, AllowedIncomeStatuses
    <2>3. (income'.status = "received") <=> (income'.received # None)
        BY <2>1, <2>2 DEF IncomeAgrees
    <2>4. Recorded' = Recorded /\ \A id \in Recorded : ledger'[id].key = ledger[id].key
        BY <2>1 DEF Recorded, SameRows
    <2> QED BY <2>1, <2>3, <2>4 DEF IncomeAgrees
<1>5. ASSUME NEW e \in Executions,
             \/ RemoveCash(e) \/ UpdateCash(e)
             \/ UpdateExpectedIncome(e) \/ RemoveExpectedIncome(e)
      PROVE  IncomeAgrees'
    <2>1. SameRows /\ income'.status = income.status /\ income'.received = income.received
        BY <1>5, RemoveCashKept, UpdateCashKept, UpdateExpectedIncomeKept
           DEF RemoveCash, UpdateCash
    <2> QED BY <2>1, IncomeUntouched
<1>6. ASSUME NEW e \in Executions,
             \/ BeginCash(e) \/ RefuseCash(e) \/ ConflictCash(e) \/ ReplayCash(e)
             \/ GetCash(e) \/ BeginReceive(e) \/ RefuseReceive(e)
             \/ ContributeToGoal(e) \/ UpdateGoal(e) \/ RemoveGoal(e)
      PROVE  UNCHANGED <<ledger, income>>
    BY <1>6 DEF BeginCash, RefuseCash, ConflictCash, ReplayCash, GetCash,
        BeginReceive, RefuseReceive, ContributeToGoal, UpdateGoal, RemoveGoal
<1>7. OpenHistory \/ NextPage \/ UNCHANGED vars => UNCHANGED <<ledger, income>>
    BY DEF OpenHistory, NextPage, vars
<1> QED BY <1>1, <1>2, <1>3, <1>4, <1>5, <1>6, <1>7 DEF Next, Execute

\* An expected income is received exactly when a row was recorded for it, and it
\* points to such a row: no double tap, no refused transition, no edit and no key
\* or account a client sends with "received" makes the plan and the ledger disagree
\* about whether the money arrived; and while clients send no key of their own (the
\* web client sends none) no second row stands beside it.
THEOREM IncomeAgreement == Spec => []IncomeAgrees
<1> DEFINE IInv == Base /\ RecordedOnce /\ IncomeAgrees
<1>1. Init => IInv
    <2> SUFFICES ASSUME Init PROVE IInv
        OBVIOUS
    <2>1. RecordedOnce
        BY RestingTyped DEF Init, RecordedOnce
    <2>2. Recorded = {}
        BY DEF Init, Recorded
    <2>3. IncomeAgrees
        BY <2>2 DEF Init, IncomeAgrees
    <2> QED BY <2>1, <2>3, InitBase
<1>2. IInv /\ [Next]_vars => IInv'
    BY NextKeeps, RowsKept, IncomeKept DEF Kept
<1>3. IInv => IncomeAgrees
    OBVIOUS
<1> QED BY <1>1, <1>2, <1>3, PTL DEF Spec

\* A goal in use is achieved exactly when its target is reached: contributions,
\* edits of the target and changes of the status cannot leave it otherwise.
THEOREM GoalAgreement == Spec => []GoalAgrees
<1> DEFINE IInv == Base /\ RecordedOnce /\ GoalAgrees
<1>1. Init => IInv
    <2> SUFFICES ASSUME Init PROVE IInv
        OBVIOUS
    <2>1. RecordedOnce
        BY RestingTyped DEF Init, RecordedOnce
    <2>2. GoalAgrees
        BY LedgerAssumption DEF Init, GoalAgrees
    <2> QED BY <2>1, <2>2, InitBase
<1>2. IInv /\ [Next]_vars => IInv'
    <2> SUFFICES ASSUME IInv, [Next]_vars PROVE GoalAgrees'
        BY NextKeeps, RowsKept DEF Kept
    <2>1. ASSUME UNCHANGED goal PROVE GoalAgrees'
        BY <2>1 DEF GoalAgrees
    <2>2. ASSUME NEW e \in Executions, Execute(e),
                 ~(ContributeToGoal(e) \/ UpdateGoal(e) \/ RemoveGoal(e))
          PROVE  UNCHANGED goal
        BY <2>2 DEF Execute, BeginCash, RefuseCash, CommitCash, ConflictCash, ReplayCash,
            GetCash, RemoveCash, UpdateCash, BeginReceive, CommitReceive, RefuseReceive,
            SetExpectedIncomeStatus, UpdateExpectedIncome, RemoveExpectedIncome
    <2>3. OpenHistory \/ NextPage \/ UNCHANGED vars => UNCHANGED goal
        BY DEF OpenHistory, NextPage, vars
    <2> QED BY <2>1, <2>2, <2>3, GoalStep DEF Next
<1>3. IInv => GoalAgrees
    OBVIOUS
<1> QED BY <1>1, <1>2, <1>3, PTL DEF Spec
-----------------------------------------------------------------------------
(* The balances.                                                           *)

\* The rows there are, those of an account, and what each is worth to it.
Booked == {id \in Ids : ledger[id] # None}
RowsOf(i) == {x \in Ids : ledger[x] # None /\ ledger[x].account = i}
Worth(i) == [id \in RowsOf(i) |-> CashEffectiveAmount(ledger[id])]

\* A finite number of rows, each of an account there is; who is about to insert one
\* has found an account there is, or none.
BooksSound ==
    /\ IsFiniteSet(Booked)
    /\ \A id \in Booked : ledger[id].account \in DOMAIN accounts
    /\ \A e \in Executions : exec[e].step \in {"insert", "receive"} =>
            exec[e].account = 0 \/ exec[e].account \in DOMAIN accounts

LEMMA WorthIs ==
    ASSUME TablesOK, BooksSound, NEW i
    PROVE  /\ RecomputeCashBalance(i) = SumInts(Worth(i)) /\ IsFiniteSet(RowsOf(i))
           /\ DOMAIN Worth(i) = RowsOf(i) /\ IntsOn(Worth(i), RowsOf(i))
<1>1. RowsOf(i) \subseteq Booked
    BY DEF RowsOf, Booked
<1>2. IsFiniteSet(RowsOf(i))
    BY <1>1, FS_Subset DEF BooksSound
<1>3. ASSUME NEW id \in RowsOf(i) PROVE CashEffectiveAmount(ledger[id]) \in Int
    <2>1. ledger[id].amount \in Int
        BY RowsTyped DEF RowsOf, TablesOK
    <2> QED BY <2>1 DEF CashEffectiveAmount
<1> QED BY <1>2, <1>3 DEF RecomputeCashBalance, Worth, RowsOf, IntsOn

\* A row that joins an account adds its worth; the other accounts keep theirs.
LEMMA RowJoins ==
    ASSUME TablesOK, TablesOK', BooksSound, NEW id \in Ids, ledger[id] = None, ledger'[id] # None,
           \A x \in Ids \ {id} : ledger'[x] = ledger[x], NEW i
    PROVE  /\ IsFiniteSet(Booked') /\ RecomputeCashBalance(i) \in Int
           /\ RecomputeCashBalance(i)' =
                  IF ledger'[id].account = i
                  THEN RecomputeCashBalance(i) + CashEffectiveAmount(ledger'[id])
                  ELSE RecomputeCashBalance(i)
<1>1. IsFiniteSet(Booked')
    <2>1. Booked' = Booked \cup {id}
        BY DEF Booked
    <2> QED BY <2>1, FS_AddElement DEF BooksSound
<1> DEFINE f == Worth(i)'
           e == Worth(i)
<1>2. /\ RecomputeCashBalance(i) = SumInts(e) /\ IsFiniteSet(RowsOf(i))
      /\ DOMAIN e = RowsOf(i) /\ IntsOn(e, RowsOf(i))
    BY WorthIs
<1>3. RecomputeCashBalance(i)' = SumInts(f) /\ DOMAIN f = RowsOf(i)'
    BY DEF RecomputeCashBalance, Worth, RowsOf
<1>4. ASSUME NEW x \in RowsOf(i), x # id PROVE e[x] = CashEffectiveAmount(ledger'[x])
    <2>1. x \in Ids /\ ledger'[x] = ledger[x]
        BY <1>4 DEF RowsOf
    <2> QED BY <2>1 DEF Worth
<1>5. ASSUME NEW x \in RowsOf(i)' PROVE f[x] = CashEffectiveAmount(ledger'[x]) /\ f[x] \in Int
    <2>1. f[x] = CashEffectiveAmount(ledger'[x])
        BY <1>5 DEF Worth
    <2>2. ledger'[x].amount \in Int
        <3>1. x \in Ids /\ ledger'[x] # None
            BY <1>5 DEF RowsOf
        <3> QED BY <3>1 DEF TablesOK, Row
    <2> QED BY <2>1, <2>2 DEF CashEffectiveAmount
<1>6. id \notin RowsOf(i)
    BY DEF RowsOf
<1>7. CASE ledger'[id].account = i
    <2>1. RowsOf(i)' = RowsOf(i) \cup {id}
        BY <1>7 DEF RowsOf
    <2>2. SameOn(e, f, RowsOf(i)' \ {id})
        BY <1>4, <1>5, <1>6, <2>1 DEF SameOn
    <2>3. IntsOn(f, RowsOf(i)')
        BY <1>5 DEF IntsOn
    <2>4. IsFiniteSet(RowsOf(i)') /\ id \in RowsOf(i)' /\ RowsOf(i) = RowsOf(i)' \ {id}
        BY <1>2, <1>6, <2>1, FS_AddElement
    <2>5. f[id] = CashEffectiveAmount(ledger'[id])
        BY <1>5, <2>1
    <2> HIDE DEF e, f
    <2>6. SumInts(e) \in Int /\ SumInts(f) = SumInts(e) + f[id]
        BY <1>2, <1>3, <2>2, <2>3, <2>4, SumAdd
    <2> QED BY <1>1, <1>2, <1>3, <1>7, <2>5, <2>6
<1>8. CASE ledger'[id].account # i
    <2>1. RowsOf(i)' = RowsOf(i)
        BY <1>8 DEF RowsOf
    <2>2. f = e
        <3>1. \A x \in RowsOf(i) : CashEffectiveAmount(ledger'[x]) = CashEffectiveAmount(ledger[x])
            BY <1>6 DEF RowsOf
        <3> QED BY <2>1, <3>1 DEF Worth
    <2>3. SumInts(e) \in Int
        BY <1>2, SumTyped
    <2> QED BY <1>1, <1>2, <1>3, <1>8, <2>2, <2>3
<1> QED BY <1>7, <1>8

\* A row that changes but stays where it is moves its account by the difference.
LEMMA RowTurns ==
    ASSUME TablesOK, TablesOK', BooksSound, NEW id \in Ids, ledger[id] # None, ledger'[id] # None,
           ledger'[id].account = ledger[id].account,
           \A x \in Ids \ {id} : ledger'[x] = ledger[x], NEW i
    PROVE  /\ Booked' = Booked /\ RecomputeCashBalance(i) \in Int
           /\ RecomputeCashBalance(i)' =
                  IF ledger[id].account = i
                  THEN RecomputeCashBalance(i)
                         + (CashEffectiveAmount(ledger'[id]) - CashEffectiveAmount(ledger[id]))
                  ELSE RecomputeCashBalance(i)
<1>1. Booked' = Booked /\ RowsOf(i)' = RowsOf(i)
    BY DEF Booked, RowsOf
<1> DEFINE f == Worth(i)'
           e == Worth(i)
           S == RowsOf(i)
           r == [x \in S \ {id} |-> e[x]]
<1>2. /\ RecomputeCashBalance(i) = SumInts(e) /\ IsFiniteSet(S) /\ DOMAIN e = S /\ IntsOn(e, S)
    BY WorthIs
<1>3. RecomputeCashBalance(i)' = SumInts(f) /\ DOMAIN f = S
    BY <1>1 DEF RecomputeCashBalance, Worth, RowsOf
<1>4. ASSUME NEW x \in S PROVE /\ e[x] = CashEffectiveAmount(ledger[x])
                               /\ f[x] = CashEffectiveAmount(ledger'[x])
                               /\ x # id => f[x] = e[x]
    <2>1. e[x] = CashEffectiveAmount(ledger[x]) /\ f[x] = CashEffectiveAmount(ledger'[x])
        BY <1>1, <1>4 DEF Worth
    <2>2. x \in Ids
        BY <1>4 DEF RowsOf
    <2> QED BY <2>1, <2>2
<1>5. IntsOn(f, S)
    <2>1. ASSUME NEW x \in S PROVE ledger'[x].amount \in Int
        <3>1. x \in Ids /\ ledger'[x] # None
            BY <1>1, <2>1 DEF RowsOf
        <3> QED BY <3>1 DEF TablesOK, Row
    <2> QED BY <1>4, <2>1 DEF IntsOn, CashEffectiveAmount
<1>6. SumInts(e) \in Int
    BY <1>2, SumTyped
<1>7. CASE ledger[id].account = i
    <2>1. id \in S
        BY <1>7 DEF RowsOf
    <2>2. SameOn(r, e, S \ {id}) /\ SameOn(r, f, S \ {id}) /\ DOMAIN r = S \ {id}
        BY <1>4 DEF SameOn
    <2>3. e[id] = CashEffectiveAmount(ledger[id]) /\ f[id] = CashEffectiveAmount(ledger'[id])
          /\ e[id] \in Int /\ f[id] \in Int
        BY <1>2, <1>4, <1>5, <2>1 DEF IntsOn
    <2> HIDE DEF e, f, r, S
    <2>4. SumInts(r) \in Int /\ SumInts(e) = SumInts(r) + e[id]
        BY <1>2, <2>1, <2>2, SumAdd
    <2>5. SumInts(f) = SumInts(r) + f[id]
        BY <1>2, <1>3, <1>5, <2>1, <2>2, SumAdd
    <2>6. SumInts(f) = SumInts(e) + (f[id] - e[id])
        BY <2>3, <2>4, <2>5
    <2> QED BY <1>1, <1>2, <1>3, <1>6, <1>7, <2>3, <2>6
<1>8. CASE ledger[id].account # i
    <2>1. \A x \in S : f[x] = e[x]
        <3>1. id \notin S
            BY <1>8 DEF RowsOf
        <3> QED BY <1>4, <3>1
    <2>2. f = e
        <3>1. f = [x \in S |-> f[x]] /\ e = [x \in S |-> e[x]]
            BY <1>1 DEF Worth
        <3> HIDE DEF e, f
        <3> QED BY <2>1, <3>1
    <2> QED BY <1>1, <1>2, <1>3, <1>6, <1>8, <2>2
<1> QED BY <1>7, <1>8

\* The trigger moves the balance of one account.
LEMMA BalanceMoved ==
    ASSUME NEW s \in Seq(Account), NEW a \in DOMAIN s, NEW v \in Int,
           NEW t, t = [s EXCEPT ![a].balance = @ + v]
    PROVE  /\ DOMAIN t = DOMAIN s
           /\ \A i \in DOMAIN s :
                 t[i].balance = IF i = a THEN s[i].balance + v ELSE s[i].balance
<1>1. s[a] \in Account
    OBVIOUS
<1> DEFINE r == [s[a] EXCEPT !.balance = s[a].balance + v]
<1>2. t = [s EXCEPT ![a] = r]
    OBVIOUS
<1>3. r.balance = s[a].balance + v
    BY <1>1 DEF Account
<1> HIDE DEF r
<1> QED BY <1>2, <1>3

\* The accounts that a new row finds: those there were, with their balances, and the
\* one it goes to.
LEMMA EnsuredAccounts ==
    ASSUME TablesOK, NEW e \in Executions, exec[e].account = 0 \/ exec[e].account \in DOMAIN accounts
    PROVE  /\ EnsureCashAccount(e) \in Seq(Account)
           /\ DOMAIN EnsureCashAccount(e) = DOMAIN accounts \cup {AccountOf(e)}
           /\ \A i \in DOMAIN accounts : EnsureCashAccount(e)[i].balance = accounts[i].balance
           /\ AccountOf(e) \notin DOMAIN accounts => EnsureCashAccount(e)[AccountOf(e)].balance = 0
<1> DEFINE new == [currency |-> exec[e].currency, balance |-> 0, isDefault |-> exec[e].first]
           cleared == [i \in DOMAIN accounts |-> [accounts[i] EXCEPT !.isDefault = FALSE]]
           others == IF exec[e].first THEN cleared ELSE accounts
<1>1. accounts \in Seq(Account) /\ ExecTyped(exec[e])
    BY ExecFields DEF TablesOK
<1>2. PICK n \in Nat : accounts \in [1..n -> Account] /\ n = Len(accounts)
    BY <1>1
<1>3. new \in Account /\ new.balance = 0
    BY <1>1 DEF Account, ExecTyped
<1>4. \A i \in 1..n : /\ [accounts[i] EXCEPT !.isDefault = FALSE] \in Account
                      /\ [accounts[i] EXCEPT !.isDefault = FALSE].balance = accounts[i].balance
    BY <1>2 DEF Account
<1>5. /\ others \in [1..n -> Account]
      /\ \A i \in 1..n : others[i].balance = accounts[i].balance
    BY <1>2, <1>4
<1>6. CASE exec[e].account # 0
    <2>1. AccountOf(e) \in DOMAIN accounts /\ EnsureCashAccount(e) = accounts
        BY <1>6 DEF AccountOf, EnsureCashAccount
    <2> QED BY <1>1, <2>1
<1>7. CASE exec[e].account = 0
    <2>1. AccountOf(e) = n + 1 /\ EnsureCashAccount(e) = Append(others, new)
        BY <1>2, <1>7 DEF AccountOf, EnsureCashAccount
    <2> HIDE DEF new, others
    <2>2. others \in Seq(Account) /\ Len(others) = n
        BY <1>5
    <2> DEFINE t == Append(others, new)
    <2>3. t \in Seq(Account) /\ DOMAIN t = 1..(n + 1) /\ t[n + 1] = new
          /\ \A i \in 1..n : t[i] = others[i]
        BY <1>3, <2>2
    <2> HIDE DEF t
    <2>4. EnsureCashAccount(e) = t /\ DOMAIN accounts = 1..n
        BY <1>2, <2>1 DEF t
    <2>5. 1..(n + 1) = 1..n \cup {n + 1} /\ n + 1 \notin 1..n
        BY <1>2
    <2> QED BY <1>3, <1>5, <2>1, <2>3, <2>4, <2>5
<1> QED BY <1>6, <1>7

\* An insertion keeps every balance the sum of its rows.
LEMMA InsertBalances ==
    ASSUME Base, TablesOK', BooksSound, BalanceIsSum, NEW e \in Executions, NEW id \in Ids, NEW at \in Times,
           exec[e].step \in {"insert", "receive"},
           NEW source \in {"manual", "system"}, CreateCashTransaction(e, id, source, at),
           \A x \in Executions \ {e} : exec'[x] = exec[x],
           exec'[e].step \notin {"insert", "receive"}
    PROVE  BooksSound' /\ BalanceIsSum'
<1> DEFINE row == [key |-> exec[e].key, source |-> source, account |-> AccountOf(e),
                   amount |-> exec[e].amount, at |-> at, deleted |-> FALSE]
           a == AccountOf(e)
           s == EnsureCashAccount(e)
           v == CashEffectiveAmount(row)
<1>1. /\ ledger[id] = None /\ ledger' = [ledger EXCEPT ![id] = row]
      /\ accounts' = SyncCashBalance(s, None, row)
    BY DEF CreateCashTransaction
<1>2. row.account = a /\ ledger \in [Ids -> Row \cup {None}] /\ TablesOK
    BY BaseTyped
<1>3. ledger'[id] = row /\ \A x \in Ids \ {id} : ledger'[x] = ledger[x]
    BY <1>1, <1>2
<1>4. /\ s \in Seq(Account) /\ DOMAIN s = DOMAIN accounts \cup {a}
      /\ \A i \in DOMAIN accounts : s[i].balance = accounts[i].balance
      /\ a \notin DOMAIN accounts => s[a].balance = 0
    BY <1>2, EnsuredAccounts DEF BooksSound
<1>5. row \in Row /\ row # None
    <2>1. exec[e].key \in Keys \cup {IncomeKey}
        BY DEF Base, KeysFollowStep
    <2>2. row \in Row
        BY <1>2, <2>1, ExecFields, AccountOfTyped, LedgerAssumption DEF Row, ExecTyped
    <2> QED BY <2>2, NoneAssumption
<1>6. v \in Int /\ v = CashEffectiveAmount(row) - CashEffectiveAmount(None)
    BY <1>5 DEF CashEffectiveAmount, Live, Row
<1> HIDE DEF row, s
<1>7. accounts' = [s EXCEPT ![a].balance = @ + v]
    BY <1>1, <1>2, <1>6 DEF SyncCashBalance
<1> HIDE DEF a, v
<1>8. /\ DOMAIN accounts' = DOMAIN s
      /\ \A i \in DOMAIN s :
            accounts'[i].balance = IF i = a THEN s[i].balance + v ELSE s[i].balance
    BY <1>4, <1>6, <1>7, BalanceMoved
<1>9. ASSUME NEW i
      PROVE  /\ IsFiniteSet(Booked') /\ RecomputeCashBalance(i) \in Int
             /\ RecomputeCashBalance(i)' = IF a = i THEN RecomputeCashBalance(i) + v
                                                    ELSE RecomputeCashBalance(i)
    <2>1. ledger'[id].account = a /\ ledger'[id] # None /\ CashEffectiveAmount(ledger'[id]) = v
        BY <1>2, <1>3, <1>5 DEF v
    <2> QED BY <1>1, <1>2, <1>3, <2>1, RowJoins
<1>10. a \notin DOMAIN accounts => RecomputeCashBalance(a) = 0
    <2>1. a \notin DOMAIN accounts => RowsOf(a) = {}
        BY DEF BooksSound, RowsOf, Booked
    <2> QED BY <1>2, <2>1, WorthIs, SumNone
<1>11. BalanceIsSum'
    <2>1. ASSUME NEW i \in DOMAIN accounts'
          PROVE  s[i].balance = RecomputeCashBalance(i)
        <3>1. CASE i \in DOMAIN accounts
            BY <1>4, <3>1 DEF BalanceIsSum
        <3>2. CASE i \notin DOMAIN accounts
            BY <1>4, <1>8, <1>10, <2>1, <3>2
        <3> QED BY <3>1, <3>2
    <2> QED BY <1>8, <1>9, <2>1 DEF BalanceIsSum
<1>12. ASSUME NEW x \in Booked' PROVE ledger'[x].account \in DOMAIN accounts'
    <2>1. CASE x = id
        BY <1>2, <1>3, <1>4, <1>8, <2>1
    <2>2. CASE x # id
        <3>1. x \in Booked /\ ledger'[x] = ledger[x]
            BY <1>3, <1>12, <2>2 DEF Booked
        <3> QED BY <1>4, <1>8, <3>1 DEF BooksSound
    <2> QED BY <2>1, <2>2
<1>13. ASSUME NEW x \in Executions, exec'[x].step \in {"insert", "receive"}
       PROVE  exec'[x].account = 0 \/ exec'[x].account \in DOMAIN accounts'
    BY <1>4, <1>8, <1>13 DEF BooksSound
<1> QED BY <1>9, <1>11, <1>12, <1>13 DEF BooksSound

\* What leaves accounts and rows alone leaves the balances alone.
LEMMA BalancesSame ==
    ASSUME BooksSound, BalanceIsSum, UNCHANGED <<accounts, ledger>>,
           \A e \in Executions : exec'[e].step \in {"insert", "receive"} =>
               \/ exec'[e] = exec[e]
               \/ exec'[e].account = 0 \/ exec'[e].account \in DOMAIN accounts
    PROVE  BooksSound' /\ BalanceIsSum'
<1>1. BalanceIsSum' /\ Booked' = Booked
    BY DEF BalanceIsSum, RecomputeCashBalance, CashEffectiveAmount, Live, Booked
<1> QED BY <1>1 DEF BooksSound, Booked

LEMMA BalanceStep ==
    ASSUME Base, Base', BooksSound, BalanceIsSum, [Next]_vars
    PROVE  BooksSound' /\ BalanceIsSum'
<1>0. TablesOK /\ TablesOK'
    BY DEF Base
<1>1. ASSUME NEW e \in Executions, Finish(e), UNCHANGED <<accounts, ledger>>
      PROVE  BooksSound' /\ BalanceIsSum'
    <2>1. exec'[e].step = "done" /\ \A x \in Executions \ {e} : exec'[x] = exec[x]
        BY <1>0, <1>1, FinishTyped
    <2> QED BY <1>1, <2>1, BalancesSame
<1>2. ASSUME NEW e \in Executions, BeginCash(e) \/ BeginReceive(e)
      PROVE  BooksSound' /\ BalanceIsSum'
    <2>1. /\ UNCHANGED <<accounts, ledger>>
          /\ \E named \in Named : \E step, k, amount, currency :
                exec' = [exec EXCEPT ![e] = Begun(step, k, amount, currency, named)]
        BY <1>2 DEF BeginCash, BeginReceive
    <2>2. PICK named \in Named : \E step, k, amount, currency :
                exec' = [exec EXCEPT ![e] = Begun(step, k, amount, currency, named)]
        BY <2>1
    <2>3. \A step, k, amount, currency :
              Begun(step, k, amount, currency, named).account \in {0} \cup DOMAIN accounts
        BY <1>0, FindsAccount DEF Begun, Named
    <2>4. /\ exec'[e].account \in {0} \cup DOMAIN accounts
          /\ \A x \in Executions \ {e} : exec'[x] = exec[x]
        BY <1>0, <2>2, <2>3 DEF TablesOK
    <2> QED BY <2>1, <2>4, BalancesSame
<1>3. ASSUME NEW e \in Executions, CommitCash(e) PROVE BooksSound' /\ BalanceIsSum'
    <2>1. PICK id \in Ids, at \in Times :
            /\ CreateCashTransaction(e, id, "manual", at)
            /\ exec' = [exec EXCEPT ![e].step = "get", ![e].row = id]
        BY <1>3 DEF CommitCash
    <2>2. exec[e].step \in {"insert", "receive"}
        BY <1>3 DEF CommitCash, At
    <2>3. exec'[e].step = "get" /\ \A x \in Executions \ {e} : exec'[x] = exec[x]
        BY <1>0, <2>1 DEF TablesOK, Execution
    <2> QED BY <1>0, <2>1, <2>2, <2>3, InsertBalances
<1>4. ASSUME NEW e \in Executions, CommitReceive(e) PROVE BooksSound' /\ BalanceIsSum'
    <2>1. PICK id \in Ids, at \in Times : CreateCashTransaction(e, id, "system", at)
        BY <1>4 DEF CommitReceive
    <2>2. exec[e].step \in {"insert", "receive"}
        BY <1>4 DEF CommitReceive, At
    <2>3. exec'[e].step = "done" /\ \A x \in Executions \ {e} : exec'[x] = exec[x]
        BY <1>0, <1>4, FinishTyped DEF CommitReceive
    <2> QED BY <1>0, <2>1, <2>2, <2>3, InsertBalances
<1>5. ASSUME NEW e \in Executions, ConflictCash(e) \/ ReplayCash(e) \/ GetCash(e), ~Finish(e)
      PROVE  BooksSound' /\ BalanceIsSum'
    <2>1. UNCHANGED <<accounts, ledger>>
        BY <1>5 DEF ConflictCash, ReplayCash, GetCash
    <2>2. /\ exec'[e].step \in {"get", "replay", "done"}
          /\ \A y \in Executions \ {e} : exec'[y] = exec[y]
        <3>1. exec \in [Executions -> Execution]
            BY <1>0 DEF TablesOK
        <3>2. CASE ConflictCash(e)
            BY <3>1, <3>2 DEF ConflictCash, Execution
        <3>3. ASSUME NEW id \in Ids, exec' = [exec EXCEPT ![e].step = "get", ![e].row = id]
              PROVE  exec'[e].step = "get" /\ \A y \in Executions \ {e} : exec'[y] = exec[y]
            BY <3>1, <3>3 DEF Execution
        <3>4. CASE ReplayCash(e)
            BY <1>5, <3>3, <3>4 DEF ReplayCash
        <3>5. CASE GetCash(e)
            BY <1>5, <3>1, <3>5 DEF GetCash, Execution
        <3> QED BY <1>5, <3>2, <3>4, <3>5
    <2> QED BY <2>1, <2>2, BalancesSame
<1>6. ASSUME NEW e \in Executions, RemoveCash(e) PROVE BooksSound' /\ BalanceIsSum'
    <2>1. PICK id \in Ids :
            /\ Live(ledger[id])
            /\ ledger' = [ledger EXCEPT ![id] = [ledger[id] EXCEPT !.deleted = TRUE]]
            /\ accounts' = SyncCashBalance(accounts, ledger[id],
                                           [ledger[id] EXCEPT !.deleted = TRUE])
        BY <1>6 DEF RemoveCash
    <2> DEFINE old == ledger[id]
               new == [old EXCEPT !.deleted = TRUE]
               v == CashEffectiveAmount(new) - CashEffectiveAmount(old)
    <2>2. old # None /\ old \in Row
        BY <1>0, <2>1, RowsTyped DEF Live, TablesOK
    <2>3. new \in Row /\ new.account = old.account
        BY <2>2 DEF Row
    <2>4. v \in Int
        <3>1. CashEffectiveAmount(old) \in Int /\ CashEffectiveAmount(new) \in Int
            BY <2>2, <2>3 DEF CashEffectiveAmount, Row
        <3> QED BY <3>1
    <2> HIDE DEF new
    <2>5. ledger'[id] = new /\ new # None /\ \A x \in Ids \ {id} : ledger'[x] = ledger[x]
        BY <1>0, <2>1, <2>3, NoneAssumption DEF TablesOK, new
    <2> DEFINE a == old.account
    <2>6. a \in DOMAIN accounts
        BY <2>2 DEF BooksSound, Booked
    <2>7. accounts' = [accounts EXCEPT ![a].balance = @ + v]
        BY <2>1, <2>3 DEF SyncCashBalance, new
    <2> HIDE DEF v
    <2>8. /\ DOMAIN accounts' = DOMAIN accounts
          /\ \A i \in DOMAIN accounts : accounts'[i].balance =
                IF i = a THEN accounts[i].balance + v ELSE accounts[i].balance
        BY <1>0, <2>4, <2>6, <2>7, BalanceMoved DEF TablesOK
    <2>9. ASSUME NEW i
          PROVE  /\ Booked' = Booked /\ RecomputeCashBalance(i) \in Int
                 /\ RecomputeCashBalance(i)' =
                        IF a = i THEN RecomputeCashBalance(i) + v ELSE RecomputeCashBalance(i)
        <3>1. ledger'[id].account = ledger[id].account /\ ledger'[id] # None
            BY <2>3, <2>5
        <3> QED BY <1>0, <2>2, <2>5, <3>1, RowTurns DEF v
    <2>10. BalanceIsSum'
        BY <2>8, <2>9 DEF BalanceIsSum
    <2>11. \A x \in Booked' : ledger'[x].account \in DOMAIN accounts'
        BY <2>3, <2>5, <2>6, <2>8, <2>9 DEF BooksSound, Booked
    <2>12. exec'[e].step = "done" /\ \A x \in Executions \ {e} : exec'[x] = exec[x]
        BY <1>0, <1>6, FinishTyped DEF RemoveCash
    <2> QED BY <2>8, <2>9, <2>10, <2>11, <2>12 DEF BooksSound
<1>7. ASSUME NEW e \in Executions, UpdateCash(e) PROVE BooksSound' /\ BalanceIsSum'
    <2>1. PICK id \in Ids, at \in Times :
            /\ Live(ledger[id])
            /\ ledger' = [ledger EXCEPT ![id] = [ledger[id] EXCEPT !.at = at]]
        BY <1>7 DEF UpdateCash
    <2> DEFINE new == [ledger[id] EXCEPT !.at = at]
    <2>2. ledger[id] # None /\ ledger[id] \in Row /\ at \in Nat
        BY <1>0, <2>1, RowsTyped, LedgerAssumption DEF Live, TablesOK
    <2>3. /\ new \in Row /\ new.account = ledger[id].account /\ new.amount = ledger[id].amount
          /\ new.deleted = ledger[id].deleted
        BY <2>2 DEF Row
    <2> HIDE DEF new
    <2>4. ledger'[id] = new /\ new # None /\ \A x \in Ids \ {id} : ledger'[x] = ledger[x]
        BY <1>0, <2>1, <2>3, NoneAssumption DEF TablesOK, new
    <2>5. CashEffectiveAmount(ledger'[id]) = CashEffectiveAmount(ledger[id])
          /\ CashEffectiveAmount(ledger[id]) \in Int
        BY <2>2, <2>3, <2>4 DEF CashEffectiveAmount, Live, Row
    <2>6. ASSUME NEW i
          PROVE  Booked' = Booked /\ RecomputeCashBalance(i)' = RecomputeCashBalance(i)
        BY <1>0, <2>2, <2>3, <2>4, <2>5, RowTurns
    <2>7. UNCHANGED accounts
        BY <1>7 DEF UpdateCash
    <2>8. BalanceIsSum'
        BY <2>6, <2>7 DEF BalanceIsSum
    <2>9. \A x \in Booked' : ledger'[x].account \in DOMAIN accounts'
        BY <2>2, <2>3, <2>4, <2>6, <2>7 DEF BooksSound, Booked
    <2>10. exec'[e].step = "done" /\ \A x \in Executions \ {e} : exec'[x] = exec[x]
        BY <1>0, <1>7, FinishTyped DEF UpdateCash
    <2> QED BY <2>6, <2>7, <2>8, <2>9, <2>10 DEF BooksSound
<1>8. ASSUME NEW e \in Executions,
             \/ RefuseCash(e) \/ RefuseReceive(e) \/ SetExpectedIncomeStatus(e)
             \/ UpdateExpectedIncome(e) \/ RemoveExpectedIncome(e)
             \/ ContributeToGoal(e) \/ UpdateGoal(e) \/ RemoveGoal(e)
      PROVE  BooksSound' /\ BalanceIsSum'
    <2>1. Finish(e) /\ UNCHANGED <<accounts, ledger>>
        BY <1>8 DEF RefuseCash, RefuseReceive, SetExpectedIncomeStatus, UpdateExpectedIncome,
            RemoveExpectedIncome, ContributeToGoal, UpdateGoal, RemoveGoal
    <2> QED BY <1>1, <2>1
<1>9. ASSUME NEW e \in Executions, ConflictCash(e) \/ ReplayCash(e) \/ GetCash(e), Finish(e)
      PROVE  BooksSound' /\ BalanceIsSum'
    BY <1>1, <1>9 DEF ConflictCash, ReplayCash, GetCash
<1>10. CASE OpenHistory \/ NextPage \/ UNCHANGED vars
    BY <1>10, BalancesSame DEF OpenHistory, NextPage, vars
<1> QED BY <1>2, <1>3, <1>4, <1>5, <1>6, <1>7, <1>8, <1>9, <1>10 DEF Next, Execute


\* The invariant of the balances, inductive: the rows and accounts fit together and
\* every balance is a sum already.
BalanceIInv == Base /\ RecordedOnce /\ BooksSound /\ BalanceIsSum

LEMMA BalanceInit == Init => BalanceIInv
<1> SUFFICES ASSUME Init PROVE BalanceIInv
    OBVIOUS
<1>1. RecordedOnce
    BY RestingTyped DEF Init, RecordedOnce
<1>2. BalanceIsSum
    BY DEF Init, BalanceIsSum
<1>3. Booked = {}
    BY DEF Init, Booked
<1>4. \A e \in Executions : exec[e].step \notin {"insert", "receive"}
    BY DEF Init, Resting
<1> QED BY <1>1, <1>2, <1>3, <1>4, InitBase, FS_EmptySet DEF BalanceIInv, BooksSound

LEMMA BalanceNext == BalanceIInv /\ [Next]_vars => BalanceIInv'
BY NextKeeps, RowsKept, BalanceStep DEF Kept, BalanceIInv

\* Under any interleaving of insertions, deletions, edits and receipts of any number of
\* clients, the balance the trigger keeps of an account is the sum of its confirmed rows
\* that are not deleted.
THEOREM BalancesAddUp == Spec => []BalanceIsSum
<1>1. BalanceIInv => BalanceIsSum
    BY DEF BalanceIInv
<1> QED BY <1>1, BalanceInit, BalanceNext, PTL DEF Spec
-----------------------------------------------------------------------------
(* The pages of the history.                                               *)

\* PostgreSQL's order of (occurred_at, id) is a strict order of all rows.
LEMMA OrderOfPairs ==
    ASSUME NEW a \in Nat \X Nat, NEW b \in Nat \X Nat
    PROVE  /\ ~(Before(a, b) /\ Before(b, a)) /\ ~Before(a, a)
           /\ a = b \/ Before(a, b) \/ Before(b, a)
           /\ \A c \in Nat \X Nat : Before(a, b) /\ Before(b, c) => Before(a, c)
<1>1. /\ a[1] \in Nat /\ a[2] \in Nat /\ b[1] \in Nat /\ b[2] \in Nat
      /\ a = <<a[1], a[2]>> /\ b = <<b[1], b[2]>>
    OBVIOUS
<1>2. \A c \in Nat \X Nat : c[1] \in Nat /\ c[2] \in Nat
    OBVIOUS
<1> QED BY <1>1, <1>2 DEF Before

\* The rows a page may show, each at its place.
LEMMA Places ==
    ASSUME TablesOK, NEW id \in Ids, Live(ledger[id])
    PROVE  Position(id) \in Nat \X Nat
BY RowsTyped, LedgerAssumption DEF TablesOK, Live, Position

Older(x, y) == Before(Position(x), Position(y))

\* No two rows have one place.
LEMMA OlderOrders ==
    ASSUME TablesOK, NEW x \in Ids, NEW y \in Ids, Live(ledger[x]), Live(ledger[y])
    PROVE  /\ ~(Older(x, y) /\ Older(y, x)) /\ ~Older(x, x)
           /\ x = y \/ Older(x, y) \/ Older(y, x)
           /\ \A z \in Ids : Live(ledger[z]) /\ Older(x, y) /\ Older(y, z) => Older(x, z)
<1>1. \A z \in Ids : Live(ledger[z]) => Position(z) \in Nat \X Nat
    BY Places
<1>2. Position(x) = Position(y) => x = y
    BY DEF Position
<1> QED BY <1>1, <1>2, OrderOfPairs DEF Older

\* Among some rows, those that are newer than one of them, and how many.
Newer(S, x) == {y \in S : Older(x, y)}
Rank(S, x) == Cardinality(Newer(S, x))

LEMMA RankGrows ==
    ASSUME TablesOK, NEW S \in SUBSET Ids, IsFiniteSet(S), \A x \in S : Live(ledger[x]),
           NEW x \in S, NEW y \in S, Older(x, y)
    PROVE  Rank(S, x) \in Nat /\ Rank(S, y) \in Nat /\ Rank(S, y) < Rank(S, x)
<1>1. IsFiniteSet(Newer(S, x)) /\ IsFiniteSet(Newer(S, y))
    BY FS_Subset DEF Newer
<1>2. Newer(S, y) \subseteq Newer(S, x) \ {y} /\ y \in Newer(S, x)
    BY OlderOrders DEF Newer
<1>3. IsFiniteSet(Newer(S, x) \ {y}) /\ Cardinality(Newer(S, x) \ {y}) = Rank(S, x) - 1
    BY <1>1, <1>2, FS_RemoveElement DEF Rank
<1>4. Rank(S, y) <= Cardinality(Newer(S, x) \ {y})
    BY <1>2, <1>3, FS_Subset DEF Rank
<1>5. Rank(S, x) \in Nat /\ Rank(S, y) \in Nat
    BY <1>1, FS_CardinalityType DEF Rank
<1> QED BY <1>3, <1>4, <1>5

\* Finitely many rows have a newest one, and an oldest one.
LEMMA NewestRow ==
    ASSUME TablesOK, NEW S \in SUBSET Ids, IsFiniteSet(S), \A x \in S : Live(ledger[x]), S # {}
    PROVE  \E x \in S : Newer(S, x) = {}
<1> DEFINE ranks == {Rank(S, x) : x \in S}
<1>1. ranks \subseteq Nat /\ ranks # {}
    <2>1. ASSUME NEW x \in S PROVE Rank(S, x) \in Nat
        BY FS_Subset, FS_CardinalityType DEF Rank, Newer
    <2> QED BY <2>1
<1>2. PICK n \in ranks : \A m \in ranks : n <= m
    <2> HIDE DEF ranks
    <2> QED BY <1>1, LeastNumber
<1>3. PICK x \in S : n = Rank(S, x)
    BY <1>2
<1>4. ASSUME NEW y \in Newer(S, x) PROVE FALSE
    <2>1. y \in S /\ Older(x, y)
        BY DEF Newer
    <2>2. Rank(S, y) < Rank(S, x) /\ Rank(S, y) \in Nat /\ Rank(S, x) \in Nat
        BY <2>1, RankGrows
    <2> QED BY <1>2, <1>3, <2>1, <2>2
<1> QED BY <1>4

LEMMA OldestRow ==
    ASSUME TablesOK, NEW S \in SUBSET Ids, \A x \in S : Live(ledger[x]), S # {}
    PROVE  \E x \in S : \A y \in S : y # x => Older(x, y)
<1> DEFINE times == {ledger[x].at : x \in S}
<1>1. times \subseteq Nat /\ times # {}
    BY RowsTyped DEF TablesOK, Live
<1>2. PICK t \in times : \A u \in times : t <= u
    <2> HIDE DEF times
    <2> QED BY <1>1, LeastNumber
<1> DEFINE first == {x \in S : ledger[x].at = t}
<1>3. first \subseteq Nat /\ first # {}
    BY <1>2, LedgerAssumption
<1>4. PICK x \in first : \A y \in first : x <= y
    <2> HIDE DEF first
    <2> QED BY <1>3, LeastNumber
<1>5. ASSUME NEW y \in S, y # x PROVE Older(x, y)
    <2>1. x \in Nat /\ y \in Nat /\ ledger[x].at = t
        BY <1>4, LedgerAssumption
    <2>2. ledger[y].at \in times /\ t \in times
        BY <1>2
    <2>3. ledger[y].at = t => x <= y
        BY <1>4
    <2> HIDE DEF times
    <2>4. t \in Nat /\ ledger[y].at \in Nat /\ t <= ledger[y].at
        BY <1>1, <1>2, <2>2
    <2> HIDE DEF first
    <2> QED BY <1>5, <2>1, <2>3, <2>4 DEF Older, Before, Position
<1> QED BY <1>4, <1>5

\* A page shows the newest rows of what is listed, and something if there is anything;
\* what is listed after its last row is exactly what it left out.
LEMMA PageCuts ==
    ASSUME TablesOK, BooksSound, NEW cursor \in (Nat \X Nat) \cup {None},
           ListTransactions(cursor) # Page(cursor),
           NEW last, last = CHOOSE id \in Page(cursor) :
                         \A x \in Page(cursor) : x # id => Before(Position(id), Position(x))
    PROVE  /\ Position(last) \in Nat \X Nat
           /\ ListTransactions(Position(last)) = ListTransactions(cursor) \ Page(cursor)
<1> DEFINE L == ListTransactions(cursor)
           P == Page(cursor)
<1>1. L \in SUBSET Ids /\ \A x \in L : Live(ledger[x])
    BY DEF ListTransactions
<1>2. IsFiniteSet(L)
    <2>1. L \subseteq Booked
        BY DEF ListTransactions, Booked, Live
    <2> QED BY <2>1, FS_Subset DEF BooksSound
<1>3. P = {x \in L : Rank(L, x) < PageSize}
    BY DEF Page, Rank, Newer, Older
<1>3a. \A x \in Ids : Live(ledger[x]) => (x \in L <=> (cursor # None => Before(Position(x), cursor)))
    BY DEF ListTransactions, AfterCursor
<1>4. P # {}
    <2>1. L # {}
        BY <1>3
    <2> HIDE DEF L
    <2>2. PICK x \in L : Newer(L, x) = {}
        BY <1>1, <1>2, <2>1, NewestRow
    <2>3. Rank(L, x) = 0
        BY <2>2, FS_EmptySet DEF Rank
    <2> QED BY <1>3, <2>3, LedgerAssumption
<1> HIDE DEF L, P
<1>5. last \in P /\ \A x \in P : x # last => Older(last, x)
    <2>1. P \in SUBSET Ids /\ \A x \in P : Live(ledger[x])
        BY <1>1, <1>3
    <2>2. \E id \in P : \A x \in P : x # id => Older(id, x)
        BY <1>4, <2>1, OldestRow
    <2> QED BY <2>2 DEF Older, P
<1>6. last \in Ids /\ Live(ledger[last]) /\ Position(last) \in Nat \X Nat /\ last \in L
    BY <1>1, <1>3, <1>5, Places
<1>7. ASSUME NEW x \in Ids, Live(ledger[x])
      PROVE  x \in ListTransactions(Position(last)) <=> Older(x, last)
    BY <1>6, <1>7, NoneAssumption DEF ListTransactions, AfterCursor, Older
<1>8. ASSUME NEW x \in Ids, Live(ledger[x]), Older(x, last) PROVE x \in L \ P
    <2>1. x \in L
        <3>1. CASE cursor = None
            BY <1>3a, <1>8, <3>1
        <3>2. CASE cursor # None
            <4>1. Before(Position(x), Position(last)) /\ Before(Position(last), cursor)
                BY <1>3a, <1>6, <1>8, <3>2 DEF Older
            <4>2. Position(x) \in Nat \X Nat /\ cursor \in Nat \X Nat
                BY <1>8, <3>2, Places
            <4>3. Before(Position(x), cursor)
                BY <1>6, <4>1, <4>2, OrderOfPairs
            <4> QED BY <1>3a, <1>8, <4>3
        <3> QED BY <3>1, <3>2
    <2>2. x \notin P
        BY <1>5, <1>6, <1>8, OlderOrders
    <2> QED BY <2>1, <2>2
<1>9. ASSUME NEW x \in L \ P PROVE Older(x, last)
    <2>1. x \in Ids /\ Live(ledger[x])
        BY <1>1
    <2>2. ASSUME Older(last, x) PROVE FALSE
        <3>1. Rank(L, x) \in Nat /\ Rank(L, last) \in Nat /\ Rank(L, x) < Rank(L, last)
            BY <1>1, <1>2, <1>6, <2>2, RankGrows
        <3>2. Rank(L, last) < PageSize /\ ~(Rank(L, x) < PageSize)
            BY <1>3, <1>5, <1>9
        <3> QED BY <3>1, <3>2, LedgerAssumption
    <2> QED BY <1>5, <1>6, <1>9, <2>1, <2>2, OlderOrders
<1>10. ListTransactions(Position(last)) \subseteq {x \in Ids : Live(ledger[x])}
    BY DEF ListTransactions
<1>11. ListTransactions(Position(last)) = L \ P
    BY <1>1, <1>7, <1>8, <1>9, <1>10
<1> QED BY <1>6, <1>11 DEF L, P

\* A client that reads has seen, of the rows that were there when it began and were left
\* alone since, exactly those that are not on the pages to come.
ReaderSound ==
    /\ reader \in Reader
    /\ \A id \in reader.steady : Live(ledger[id])
    /\ reader.twice \cap reader.steady = {}
    /\ reader.phase = "reading" => \A id \in reader.steady :
           id \in reader.seen <=> id \notin ListTransactions(reader.cursor)
    /\ reader.phase = "read" => reader.steady \subseteq reader.seen

\* What leaves the steady rows alone takes none of them from what was or will be shown.
LEMMA ReaderKept ==
    ASSUME ReaderSound, NEW gone \in SUBSET Ids,
           reader' = [reader EXCEPT !.steady = @ \ gone],
           \A id \in reader.steady \ gone : ledger'[id] = ledger[id]
    PROVE  ReaderSound'
<1>1. /\ reader' \in Reader /\ reader'.steady = reader.steady \ gone
      /\ reader'.phase = reader.phase /\ reader'.cursor = reader.cursor
      /\ reader'.seen = reader.seen /\ reader'.twice = reader.twice
    BY DEF ReaderSound, Reader
<1>2. ASSUME NEW id \in reader'.steady
      PROVE  /\ Live(ledger'[id])
             /\ id \in ListTransactions(reader.cursor)' <=> id \in ListTransactions(reader.cursor)
    <2>1. id \in Ids /\ ledger'[id] = ledger[id] /\ Live(ledger[id])
        BY <1>1 DEF ReaderSound, Reader
    <2>2. Position(id)' = Position(id)
        BY <2>1 DEF Position
    <2> QED BY <1>1, <2>1, <2>2 DEF ListTransactions, AfterCursor
<1> QED BY <1>1, <1>2 DEF ReaderSound

LEMMA NextPageSound ==
    ASSUME TablesOK, BooksSound, ReaderSound, NextPage
    PROVE  ReaderSound'
<1> DEFINE page == Page(reader.cursor)
           list == ListTransactions(reader.cursor)
           last == CHOOSE id \in page : \A x \in page : x # id => Before(Position(id), Position(x))
<1>1. /\ reader.phase = "reading" /\ reader \in Reader /\ UNCHANGED ledger
      /\ reader' = [reader EXCEPT
               !.phase = IF list # page THEN "reading" ELSE "read",
               !.cursor = IF list # page THEN Position(last) ELSE @,
               !.twice = @ \cup (reader.seen \cap page),
               !.seen = @ \cup page]
    BY DEF NextPage, ReaderSound
<1>2. reader.cursor \in (Nat \X Nat) \cup {None} /\ page \in SUBSET Ids /\ page \subseteq list
    BY <1>1 DEF Reader, Page, ListTransactions
<1>3. list # page => /\ Position(last) \in Nat \X Nat
                     /\ ListTransactions(Position(last)) = list \ page
    BY <1>2, PageCuts
<1> HIDE DEF page, list, last
<1>4. /\ reader' \in Reader /\ reader'.steady = reader.steady
      /\ reader'.phase = (IF list # page THEN "reading" ELSE "read")
      /\ list # page => reader'.cursor = Position(last)
      /\ reader'.seen = reader.seen \cup page
      /\ reader'.twice = reader.twice \cup (reader.seen \cap page)
    BY <1>1, <1>2, <1>3 DEF Reader
<1>5. \A id \in reader.steady : /\ id \in reader.seen <=> id \notin list
                                /\ Live(ledger[id])
    BY <1>1 DEF ReaderSound, list
<1>6. reader'.twice \cap reader'.steady = {}
    BY <1>2, <1>4, <1>5 DEF ReaderSound
<1>7. ListTransactions(reader.cursor)' = ListTransactions(reader'.cursor)
    BY <1>1 DEF ListTransactions, AfterCursor, Position
<1>8. CASE list # page
    <2>1. ListTransactions(reader.cursor)' = list \ page
        BY <1>3, <1>4, <1>7, <1>8
    <2> QED BY <1>1, <1>2, <1>4, <1>5, <1>6, <1>8, <2>1 DEF ReaderSound
<1>9. CASE list = page
    BY <1>1, <1>4, <1>5, <1>6, <1>9 DEF ReaderSound
<1> QED BY <1>8, <1>9

LEMMA ReaderStep ==
    ASSUME TablesOK, BooksSound, ReaderSound, [Next]_vars
    PROVE  ReaderSound'
<1>0. ASSUME NEW gone \in SUBSET Ids, reader' = [reader EXCEPT !.steady = @ \ gone],
             \A id \in Ids \ gone : Live(ledger[id]) => ledger'[id] = ledger[id]
      PROVE  ReaderSound'
    <2>1. \A id \in reader.steady \ gone : ledger'[id] = ledger[id]
        BY <1>0 DEF ReaderSound, Reader
    <2> QED BY <1>0, <2>1, ReaderKept
<1>1. ASSUME UNCHANGED reader, \A id \in Ids : Live(ledger[id]) => ledger'[id] = ledger[id]
      PROVE  ReaderSound'
    <2>1. reader' = [reader EXCEPT !.steady = @ \ {}]
        <3>1. reader \in Reader /\ reader.steady \ {} = reader.steady
            BY DEF ReaderSound
        <3>2. [reader EXCEPT !.steady = reader.steady] = reader
            BY <3>1 DEF Reader
        <3> QED BY <1>1, <3>1, <3>2
    <2>2. {} \in SUBSET Ids /\ Ids \ {} = Ids
        OBVIOUS
    <2> QED BY <1>0, <1>1, <2>1, <2>2
<1>2. ASSUME NEW e \in Executions, CommitCash(e) \/ CommitReceive(e) PROVE ReaderSound'
    <2>1. PICK id \in Ids, at \in Times, source \in {"manual", "system"} :
              CreateCashTransaction(e, id, source, at)
        BY <1>2 DEF CommitCash, CommitReceive
    <2>2. ledger[id] = None /\ \A x \in Ids \ {id} : ledger'[x] = ledger[x]
        BY <2>1 DEF CreateCashTransaction, TablesOK
    <2>3. UNCHANGED reader
        BY <1>2 DEF CommitCash, CommitReceive
    <2> QED BY <1>1, <2>2, <2>3 DEF Live
<1>3. ASSUME NEW e \in Executions, RemoveCash(e) \/ UpdateCash(e) PROVE ReaderSound'
    <2>1. PICK id \in Ids : reader' = Unsteady(id) /\ \A x \in Ids \ {id} : ledger'[x] = ledger[x]
        BY <1>3 DEF RemoveCash, UpdateCash, TablesOK
    <2> QED BY <1>0, <2>1 DEF Unsteady
<1>4. ASSUME NEW e \in Executions,
             \/ BeginCash(e) \/ RefuseCash(e) \/ ConflictCash(e) \/ ReplayCash(e) \/ GetCash(e)
             \/ BeginReceive(e) \/ RefuseReceive(e) \/ SetExpectedIncomeStatus(e)
             \/ UpdateExpectedIncome(e) \/ RemoveExpectedIncome(e)
             \/ ContributeToGoal(e) \/ UpdateGoal(e) \/ RemoveGoal(e)
      PROVE  ReaderSound'
    <2>1. UNCHANGED <<ledger, reader>>
        BY <1>4 DEF BeginCash, RefuseCash, ConflictCash, ReplayCash, GetCash, BeginReceive,
            RefuseReceive, SetExpectedIncomeStatus, UpdateExpectedIncome, RemoveExpectedIncome,
            ContributeToGoal, UpdateGoal, RemoveGoal
    <2> QED BY <1>1, <2>1
<1>5. CASE OpenHistory
    <2>1. UNCHANGED ledger /\ reader' = [phase |-> "reading", cursor |-> None, seen |-> {},
                                         twice |-> {}, steady |-> {id \in Ids : Live(ledger[id])}]
        BY <1>5 DEF OpenHistory
    <2>2. \A id \in Ids : Live(ledger[id]) => id \in ListTransactions(None)'
        BY <2>1 DEF ListTransactions
    <2>3. reader' \in Reader
        BY <2>1 DEF Reader
    <2> QED BY <2>1, <2>2, <2>3 DEF ReaderSound
<1>6. CASE NextPage
    BY <1>6, NextPageSound
<1>7. CASE UNCHANGED vars
    BY <1>1, <1>7 DEF vars
<1> QED BY <1>2, <1>3, <1>4, <1>5, <1>6, <1>7 DEF Next, Execute

LEMMA ReaderInit == Init => ReaderSound
BY DEF Init, ReaderSound, Reader

\* A client that follows the cursor to the end has been shown every row that was there
\* when it began and was left alone, and none of those twice, whatever others insert,
\* remove or move to another time between its pages.
THEOREM PagesShowAll == Spec => []PagesComplete
<1>1. BalanceIInv => TablesOK /\ BooksSound
    BY DEF BalanceIInv, Base
<1>2. BalanceIInv /\ ReaderSound /\ [Next]_vars => ReaderSound'
    BY <1>1, ReaderStep
<1>3. ReaderSound => PagesComplete
    BY DEF ReaderSound, PagesComplete
<1> QED BY <1>2, <1>3, BalanceInit, BalanceNext, ReaderInit, PTL DEF Spec

\* The state has its type: the requests and transactions of any number of
\* clients keep accounts, rows, income and goal what their tables hold, and a
\* reader's cursor the place of a row.
THEOREM TypeCorrect == Spec => []TypeOK
<1>1. BalanceIInv => TablesOK /\ BooksSound
    BY DEF BalanceIInv, Base
<1>2. BalanceIInv /\ ReaderSound /\ [Next]_vars => ReaderSound'
    BY <1>1, ReaderStep
<1>3. BalanceIInv /\ ReaderSound => TypeOK
    BY <1>1 DEF ReaderSound, TypeOK
<1> QED BY <1>2, <1>3, BalanceInit, BalanceNext, ReaderInit, PTL DEF Spec

-----------------------------------------------------------------------------
(* Money: rounding, conversion and instalments of every amount (Money.tla states *)
(* the same of a few, which TLC evaluates).                                      *)

LEMMA TruncDivides ==
  ASSUME NEW n \in Int, NEW d \in Nat \ {0}
  PROVE  LET p == TruncDiv(n, d) * d
         IN  /\ TruncDiv(n, d) \in Int /\ p \in Int /\ AbsInt(n - p) < d
             /\ n < 0 => n <= p /\ p <= 0
             /\ n >= 0 => 0 <= p /\ p <= n
<1>1. ASSUME NEW m \in Nat
      PROVE  m \div d \in Nat /\ (m \div d) * d \in Nat /\ m - (m \div d) * d \in 0..(d - 1)
  OBVIOUS
<1>2. CASE n >= 0
  BY <1>1, <1>2 DEF TruncDiv, AbsInt
<1>3. CASE n < 0
  <2> DEFINE q == (-n) \div d
  <2>1. q \in Nat /\ q * d \in Nat /\ (-n) - q * d \in 0..(d-1)
    BY <1>1, <1>3
  <2>2. TruncDiv(n, d) = -q
    BY <1>3 DEF TruncDiv
  <2> HIDE DEF q
  <2>3. (-q) * d = -(q * d)
    BY <2>1
  <2> QED BY <1>3, <2>1, <2>2, <2>3 DEF AbsInt
<1> QED BY <1>2, <1>3

\* What is chosen between: the quotient towards zero and its neighbour.
LEMMA Neighbours ==
  ASSUME NEW n \in Int, NEW q \in Int, NEW d \in Nat
  PROVE  /\ (q - 1) * d = q * d - d /\ (q + 1) * d = q * d + d
         /\ AwayFromZero(n, q) = IF n < 0 THEN q - 1 ELSE q + 1
BY DEF AwayFromZero

LEMMA RoundedSound ==
  ASSUME NEW n \in Int, NEW d \in Nat \ {0}, NEW mode \in RoundingModes
  PROVE  LET r == Rounded(n, d, mode)
             err == r * d - n
         IN  /\ r \in Int /\ r * d \in Int
             /\ AbsInt(err) < d
             /\ mode = "floor" => err <= 0
             /\ mode = "ceil" => err >= 0
             /\ mode = "trunc" => AbsInt(r * d) <= AbsInt(n)
             /\ mode \in {"half-up", "half-even"} => 2 * AbsInt(err) <= d
             /\ mode = "half-up" /\ 2 * AbsInt(err) = d => AbsInt(r * d) > AbsInt(n)
             /\ mode = "half-even" /\ 2 * AbsInt(err) = d => r % 2 = 0
<1> DEFINE q == TruncDiv(n, d)
           p == q * d
           rem == n - p
           r == Rounded(n, d, mode)
           Away == AwayFromZero(n, q)
<1>1. /\ q \in Int /\ p \in Int /\ AbsInt(n - p) < d
      /\ n < 0 => n <= p /\ p <= 0
      /\ n >= 0 => 0 <= p /\ p <= n
  BY TruncDivides
<1>2. Away \in Int /\ Away * d = (IF n < 0 THEN p - d ELSE p + d)
  <2>1. /\ (q - 1) * d = p - d /\ (q + 1) * d = p + d
        /\ Away = IF n < 0 THEN q - 1 ELSE q + 1
    <3> HIDE DEF q
    <3> QED BY <1>1, Neighbours
  <2> HIDE DEF q, Away
  <2> QED BY <1>1, <2>1
<1>3. q % 2 = 1 => Away % 2 = 0
  <2>1. q % 2 = 1 => (q - 1) % 2 = 0 /\ (q + 1) % 2 = 0
    BY <1>1
  <2> HIDE DEF q
  <2> QED BY <2>1 DEF AwayFromZero
<1>4. q % 2 \in {0, 1}
  BY <1>1
<1> DEFINE Moves == \/ rem # 0 /\ mode = "floor" /\ n < 0
                    \/ rem # 0 /\ mode = "ceil" /\ n >= 0
                    \/ rem # 0 /\ mode = "half-up" /\ 2 * AbsInt(rem) >= d
                    \/ rem # 0 /\ mode = "half-even"
                         /\ (2 * AbsInt(rem) > d \/ (2 * AbsInt(rem) = d /\ q % 2 = 1))
<1>5. r = IF Moves THEN Away ELSE q
  BY DEF Rounded, RoundingModes, AwayFromZero
<1>6. r \in Int /\ r * d = IF Moves THEN (IF n < 0 THEN p - d ELSE p + d) ELSE p
  <2> HIDE DEF q, r, Away, Moves
  <2> QED BY <1>1, <1>2, <1>5
<1> DEFINE e == r * d
<1> HIDE DEF r, Away, p, q
<1>7. e \in Int
  BY <1>1, <1>6
<1>8. r % 2 = IF Moves THEN Away % 2 ELSE q % 2
  BY <1>5
<1> HIDE DEF e
<1>9. e = IF Moves THEN (IF n < 0 THEN p - d ELSE p + d) ELSE p
  BY <1>6 DEF e
<1> SUFFICES /\ AbsInt(e - n) < d
             /\ mode = "floor" => e - n <= 0
             /\ mode = "ceil" => e - n >= 0
             /\ mode = "trunc" => AbsInt(e) <= AbsInt(n)
             /\ mode \in {"half-up", "half-even"} => 2 * AbsInt(e - n) <= d
             /\ mode = "half-up" /\ 2 * AbsInt(e - n) = d => AbsInt(e) > AbsInt(n)
             /\ mode = "half-even" /\ 2 * AbsInt(e - n) = d => r % 2 = 0
  BY <1>6, <1>7 DEF e, r
<1> QED BY <1>1, <1>3, <1>4, <1>7, <1>8, <1>9 DEF AbsInt, RoundingModes

\* Every rounding mode is what its name says, of every quotient (divideRounded of
\* packages/shared/src/money/fixed-point.ts).
THEOREM RoundedAsNamed ==
  ASSUME NEW n \in Int, NEW d \in Int \ {0}, NEW mode \in RoundingModes
  PROVE  DivideRounded(n, d, mode) \in Int /\ RoundsAs(n, d, mode)
<1>1. CASE d > 0
  <2> DEFINE r == Rounded(n, d, mode)
             e == r * d
  <2>1. /\ r \in Int /\ e \in Int /\ AbsInt(e - n) < d
        /\ mode = "floor" => e - n <= 0
        /\ mode = "ceil" => e - n >= 0
        /\ mode = "trunc" => AbsInt(e) <= AbsInt(n)
        /\ mode \in {"half-up", "half-even"} => 2 * AbsInt(e - n) <= d
        /\ mode = "half-up" /\ 2 * AbsInt(e - n) = d => AbsInt(e) > AbsInt(n)
        /\ mode = "half-even" /\ 2 * AbsInt(e - n) = d => r % 2 = 0
    BY <1>1, RoundedSound
  <2>2. DivideRounded(n, d, mode) = r
    BY <1>1 DEF DivideRounded
  <2> HIDE DEF r
  <2>3. AbsInt(d) = d /\ (r * d - n) * 1 = e - n
    BY <1>1, <2>1 DEF AbsInt
  <2> QED BY <1>1, <2>1, <2>2, <2>3 DEF RoundsAs
<1>2. CASE d < 0
  <2> DEFINE r == Rounded(-n, -d, mode)
             e == r * (-d)
  <2>1. /\ r \in Int /\ e \in Int /\ AbsInt(e - (-n)) < -d
        /\ mode = "floor" => e - (-n) <= 0
        /\ mode = "ceil" => e - (-n) >= 0
        /\ mode = "trunc" => AbsInt(e) <= AbsInt(-n)
        /\ mode \in {"half-up", "half-even"} => 2 * AbsInt(e - (-n)) <= -d
        /\ mode = "half-up" /\ 2 * AbsInt(e - (-n)) = -d => AbsInt(e) > AbsInt(-n)
        /\ mode = "half-even" /\ 2 * AbsInt(e - (-n)) = -d => r % 2 = 0
    <3>1. -n \in Int /\ -d \in Nat \ {0}
      BY <1>2
    <3> QED BY <3>1, RoundedSound
  <2>2. DivideRounded(n, d, mode) = r
    BY <1>2 DEF DivideRounded
  <2> HIDE DEF r
  <2>3. r * d = -e
    BY <2>1
  <2> HIDE DEF e
  <2>4. AbsInt(d) = -d /\ (r * d - n) * (-1) = e - (-n) /\ AbsInt(r * d) = AbsInt(e)
        /\ AbsInt(-n) = AbsInt(n) /\ AbsInt(e - (-n)) = AbsInt((e - (-n)))
    BY <1>2, <2>1, <2>3 DEF AbsInt
  <2> QED BY <1>2, <2>1, <2>2, <2>4 DEF RoundsAs
<1> QED BY <1>1, <1>2


LEMMA HalfEven ==
  ASSUME NEW n \in Int, NEW d \in Nat \ {0}
  PROVE  LET r == DivideRounded(n, d, "half-even")
             e == r * d
         IN  /\ r \in Int /\ e \in Int /\ 2 * AbsInt(e - n) <= d
             /\ 2 * AbsInt(e - n) = d => r % 2 = 0
<1> DEFINE r == DivideRounded(n, d, "half-even")
           e == r * d
<1>1. d \in Int \ {0} /\ "half-even" \in RoundingModes /\ AbsInt(d) = d /\ ~ (d < 0)
  BY DEF RoundingModes, AbsInt
<1>2. r \in Int /\ RoundsAs(n, d, "half-even")
  BY <1>1, RoundedAsNamed
<1> HIDE DEF r
<1>3. e \in Int /\ (e - n) * 1 = e - n
  BY <1>2
<1> QED BY <1>1, <1>2, <1>3 DEF RoundsAs, r

\* Multiples of d that are k or more apart are k * d or more apart.
LEMMA Apart ==
  ASSUME NEW r \in Int, NEW s \in Int, NEW d \in Nat, NEW k \in Nat, r + k <= s
  PROVE  s * d >= r * d + k * d
<1>1. (s - r - k) * d >= 0
  BY s - r - k >= 0
<1>2. (s - r - k) * d = s * d - r * d - k * d
  OBVIOUS
<1> QED BY <1>1, <1>2

\* What is nearest of two amounts is in their order, and nearest of the opposite is the
\* opposite: of an exact half the even one is taken on both sides (fixed-point.ts).
THEOREM RoundedEvenly ==
  ASSUME NEW m \in Int, NEW n \in Int, NEW d \in Nat \ {0}
  PROVE  /\ DivideRounded(-n, d, "half-even") = -DivideRounded(n, d, "half-even")
         /\ m <= n => DivideRounded(m, d, "half-even") <= DivideRounded(n, d, "half-even")
<1> DEFINE r(a) == DivideRounded(a, d, "half-even")
<1>1. ASSUME NEW a \in Int
      PROVE  /\ r(a) \in Int /\ r(a) * d \in Int /\ 2 * AbsInt(r(a) * d - a) <= d
             /\ 2 * AbsInt(r(a) * d - a) = d => r(a) % 2 = 0
  BY HalfEven
<1>2. ASSUME m <= n, r(n) + 1 <= r(m) PROVE FALSE
  <2> DEFINE x == r(m) * d
             y == r(n) * d
  <2>1. x >= y + d
    <3>1. r(m) \in Int /\ r(n) \in Int /\ 1 \in Nat /\ d \in Nat
      BY <1>1
    <3> HIDE DEF r
    <3> QED BY <1>2, <3>1, Apart
  <2>2. x \in Int /\ y \in Int /\ 2 * AbsInt(x - m) <= d /\ 2 * AbsInt(y - n) <= d
    BY <1>1
  <2>3. m # n
    BY <1>1, <1>2
  <2> HIDE DEF x, y
  <2> QED BY <1>2, <2>1, <2>2, <2>3 DEF AbsInt
<1>3. r(-n) = -r(n)
  <2> DEFINE q == r(-n)
             s == -r(n)
             x == q * d
             y == s * d
  <2>1. q \in Int /\ x \in Int /\ 2 * AbsInt(x + n) <= d /\ (2 * AbsInt(x + n) = d => q % 2 = 0)
    <3>1. -n \in Int
      OBVIOUS
    <3>2. /\ q \in Int /\ x \in Int /\ 2 * AbsInt(x - (-n)) <= d
          /\ 2 * AbsInt(x - (-n)) = d => q % 2 = 0
      BY <1>1, <3>1
    <3> HIDE DEF q, x
    <3>3. x - (-n) = x + n
      BY <3>2
    <3> QED BY <3>2, <3>3
  <2>2. s \in Int /\ y \in Int /\ 2 * AbsInt(y + n) <= d /\ (2 * AbsInt(y + n) = d => s % 2 = 0)
    <3> DEFINE t == r(n)
               z == t * d
    <3>1. t \in Int /\ z \in Int /\ 2 * AbsInt(z - n) <= d /\ (2 * AbsInt(z - n) = d => t % 2 = 0)
      BY <1>1
    <3> HIDE DEF r
    <3>2. s = -t /\ y = -z
      BY <3>1
    <3> HIDE DEF s, t, y, z
    <3>3. t % 2 = 0 => (-t) % 2 = 0
      BY <3>1
    <3> QED BY <3>1, <3>2, <3>3 DEF AbsInt
  <2> HIDE DEF q, s
  <2>3. ASSUME q + 1 <= s PROVE FALSE
    <3>1. y >= x + d /\ (q + 2 <= s => y >= x + 2 * d)
      BY <2>1, <2>2, <2>3, Apart
    <3> HIDE DEF x, y
    <3>2. q + 1 = s /\ 2 * AbsInt(x + n) = d /\ 2 * AbsInt(y + n) = d
      BY <2>1, <2>2, <2>3, <3>1 DEF AbsInt
    <3> QED BY <2>1, <2>2, <3>2
  <2>4. ASSUME s + 1 <= q PROVE FALSE
    <3>1. x >= y + d /\ (s + 2 <= q => x >= y + 2 * d)
      BY <2>1, <2>2, <2>4, Apart
    <3> HIDE DEF x, y
    <3>2. s + 1 = q /\ 2 * AbsInt(x + n) = d /\ 2 * AbsInt(y + n) = d
      BY <2>1, <2>2, <2>4, <3>1 DEF AbsInt
    <3> QED BY <2>1, <2>2, <3>2
  <2>5. q = s
    BY <2>1, <2>2, <2>3, <2>4
  <2> QED BY <2>5 DEF q, s
<1> QED BY <1>1, <1>2, <1>3

\* Conversion and valuation: an expense is worth what the same income is worth, and more
\* is never worth less, at any rate and between any units.
THEOREM ConvertedEvenly ==
  ASSUME NEW a \in Int, NEW b \in Int, NEW factor \in Nat, NEW unit \in Nat \ {0}
  PROVE  /\ WorthOf(-a, factor, unit) = -WorthOf(a, factor, unit)
         /\ a <= b => WorthOf(a, factor, unit) <= WorthOf(b, factor, unit)
<1>1. /\ a * factor \in Int /\ b * factor \in Int /\ (-a) * factor = -(a * factor)
      /\ a <= b => a * factor <= b * factor
  OBVIOUS
<1>2. /\ WorthOf(a, factor, unit) = DivideRounded(a * factor, unit, "half-even")
      /\ WorthOf(b, factor, unit) = DivideRounded(b * factor, unit, "half-even")
      /\ WorthOf(-a, factor, unit) = DivideRounded(-(a * factor), unit, "half-even")
  BY <1>1 DEF WorthOf, MulDiv
<1> QED BY <1>1, <1>2, RoundedEvenly

\* The first k of a list, and what the first k shares of an amount come to.
Initial(f, k) == [i \in 1..k |-> f[i]]
ShareList(base, step, left, parts) ==
    [i \in 1..parts |-> IF i <= left THEN base + step ELSE base]
ShareSum(base, step, left, k) == k * base + (IF k <= left THEN k ELSE left) * step

\* The first k shares are k times the base, and one more each while some is left.
LEMMA AllocatedUpTo ==
  ASSUME NEW base \in Int, NEW left \in Nat, NEW step \in Int, NEW parts \in Nat
  PROVE  \A k \in 0..parts :
            SumInts(Initial(ShareList(base, step, left, parts), k))
              = ShareSum(base, step, left, k)
<1> DEFINE f == ShareList(base, step, left, parts)
           Upto(k) == Initial(f, k)
           Value(k) == ShareSum(base, step, left, k)
           Bad == {k \in 0..parts : SumInts(Upto(k)) # Value(k)}
<1>0. f = [i \in 1..parts |-> IF i <= left THEN base + step ELSE base]
  BY DEF ShareList
<1> HIDE DEF f
<1> SUFFICES ASSUME Bad # {} PROVE FALSE
  BY DEF f
<1>1. PICK k \in Bad : \A j \in Bad : k <= j
  <2>1. Bad \subseteq Nat
    OBVIOUS
  <2> HIDE DEF Bad
  <2> QED BY <2>1, LeastNumber
<1>2. k \in 0..parts /\ SumInts(Upto(k)) # Value(k)
  OBVIOUS
<1>3. k # 0
  <2>1. SumInts(Upto(0)) = 0
    BY SumNone DEF Initial
  <2>2. Value(0) = 0
    BY DEF ShareSum
  <2> HIDE DEF Upto, Value
  <2> QED BY <1>2, <2>1, <2>2
<1>4. k - 1 \in 0..parts /\ SumInts(Upto(k - 1)) = Value(k - 1)
  <2>1. k - 1 \in 0..parts /\ ~(k <= k - 1)
    BY <1>2, <1>3
  <2>2. k - 1 \notin Bad
    <3> HIDE DEF Bad
    <3> QED BY <1>1, <2>1
  <2> HIDE DEF Upto, Value
  <2> QED BY <2>1, <2>2
<1>5. SumInts(Upto(k)) = SumInts(Upto(k - 1)) + f[k]
  <2>1. IsFiniteSet(1..k)
    BY <1>2, FS_Interval
  <2>2. k \in 1..k /\ 1..(k - 1) = (1..k) \ {k} /\ k \in 1..parts
    BY <1>2, <1>3
  <2>3. IntsOn(Upto(k), 1..k)
    BY <1>0, <1>2 DEF IntsOn, Initial
  <2>4. SameOn(Upto(k - 1), Upto(k), (1..k) \ {k})
    BY <2>2 DEF SameOn, Initial
  <2>5. DOMAIN Upto(k) = 1..k /\ DOMAIN Upto(k - 1) = (1..k) \ {k} /\ Upto(k)[k] = f[k]
    BY <2>2 DEF Initial
  <2> DEFINE whole == Upto(k)
             front == Upto(k - 1)
  <2> HIDE DEF Upto, whole, front, Bad
  <2>6. SumInts(whole) = SumInts(front) + whole[k]
    BY <2>1, <2>2, <2>3, <2>4, <2>5, SumAdd DEF whole, front
  <2> QED BY <2>5, <2>6 DEF whole, front
<1>6. Value(k) = Value(k - 1) + f[k]
  <2>1. k \in 1..parts /\ k - 1 \in Nat
    BY <1>2, <1>3
  <2>2. f[k] = IF k <= left THEN base + step ELSE base
    BY <1>0, <2>1
  <2> DEFINE kb == (k - 1) * base
             ks == (k - 1) * step
             ls == left * step
             nb == k * base
             ns == k * step
             new == Value(k)
             old == Value(k - 1)
             share == f[k]
  <2>3. /\ kb \in Int /\ ks \in Int /\ ls \in Int
        /\ nb = kb + base /\ ns = ks + step
    BY <2>1
  <2>4. k - 1 = left => ks = ls
    BY <2>1
  <2>5. /\ new = IF k <= left THEN nb + ns ELSE nb + ls
        /\ old = IF k - 1 <= left THEN kb + ks ELSE kb + ls
    BY DEF ShareSum
  <2>6. share = IF k <= left THEN base + step ELSE base
    BY <2>2
  <2> HIDE DEF kb, ks, ls, nb, ns, new, old, share, Value, Bad, Upto
  <2>7. new = old + share
    BY <2>1, <2>3, <2>4, <2>5, <2>6
  <2> QED BY <2>7 DEF new, old, share
<1> HIDE DEF Upto, Value
<1> QED BY <1>2, <1>4, <1>5, <1>6

\* Instalments (Money.allocate) add up to the amount and differ by one unit at most, of
\* every amount and number of them.
THEOREM AllocatedAll ==
  ASSUME NEW minor \in Int, NEW parts \in Nat \ {0}
  PROVE  AllocatedInFull(minor, parts)
<1> DEFINE base == DivideRounded(minor, parts, "trunc")
           rest == minor - base * parts
           left == AbsInt(rest)
           step == IF rest < 0 THEN -1 ELSE 1
           shares == [i \in 1..parts |-> IF i <= left THEN base + step ELSE base]
<1>1. Allocate(minor, parts) = shares
  BY DEF Allocate
<1>2. base \in Int /\ base * parts \in Int /\ rest \in Int /\ left \in Nat /\ left < parts
      /\ left * step = rest
  <2> DEFINE e == base * parts
  <2>1. base \in Int /\ e \in Int /\ AbsInt(e - minor) < parts
    <3>1. parts \in Int \ {0} /\ ~(parts < 0) /\ "trunc" \in RoundingModes
      BY DEF RoundingModes
    <3>2. DivideRounded(minor, parts, "trunc") = Rounded(minor, parts, "trunc")
      BY DEF DivideRounded
    <3> QED BY <3>1, <3>2, RoundedSound
  <2> HIDE DEF base, e
  <2>2. rest = minor - e
    BY DEF e
  <2> HIDE DEF rest
  <2>3. rest \in Int /\ left \in Nat /\ left < parts /\ left * step = rest
    BY <2>1, <2>2 DEF AbsInt
  <2> QED BY <2>1, <2>3 DEF e
<1>3. SumInts(Initial(shares, parts)) = ShareSum(base, step, left, parts)
  <2>1. step \in Int /\ base \in Int /\ left \in Nat /\ parts \in Nat /\ parts \in 0..parts
    BY <1>2
  <2>2. shares = ShareList(base, step, left, parts)
    BY DEF ShareList
  <2> HIDE DEF base, left, step, shares, rest
  <2>3. \A k \in 0..parts :
           SumInts(Initial(ShareList(base, step, left, parts), k))
             = ShareSum(base, step, left, k)
    BY <2>1, AllocatedUpTo
  <2> QED BY <2>1, <2>2, <2>3
<1>4. SumInts(shares) = parts * base + left * step
  <2>1. Initial(shares, parts) = shares
    BY DEF Initial
  <2>2. parts \in 0..parts /\ ~(parts <= left)
    BY <1>2
  <2>3. ShareSum(base, step, left, parts) = parts * base + left * step
    BY <2>2 DEF ShareSum
  <2> HIDE DEF shares, base, left, step
  <2> QED BY <1>3, <2>1, <2>2, <2>3
<1>5. parts * base + left * step = minor
  <2> HIDE DEF base, left
  <2>1. parts * base = base * parts
    BY <1>2
  <2> QED BY <1>2, <2>1
<1>6. ASSUME NEW i \in 1..parts, NEW j \in 1..parts
      PROVE  AbsInt(shares[i] - shares[j]) <= 1
  <2>1. shares[i] \in {base, base + step} /\ shares[j] \in {base, base + step} /\ step \in {-1, 1}
    BY <1>6
  <2> HIDE DEF base, step, shares
  <2> QED BY <1>2, <2>1 DEF AbsInt
<1> HIDE DEF shares
<1> QED BY <1>1, <1>4, <1>5, <1>6 DEF AllocatedInFull

-----------------------------------------------------------------------------
(* Rates *)

\* How old the rate of a result set since ticks ago can be.
AgeKept(result, since) ==
    IF result.stale THEN result.age <= MaxStale + Providers + since
                    ELSE result.age < Refresh + since

\* What is memoised was not older than that when it was set, what is about to be used
\* though stale has aged by the providers waited for only, and nothing that this process
\* holds is outside the band unless somebody typed it; a request has no other's pinned rate.
RatesKept ==
    /\ Memoised => AgeKept(memo.result, memo.since)
    /\ load.step = "fetch" /\ load.usable => load.rate.age <= MaxStale + load.at - 1 + load.waited
    /\ \A r \in Askers : asker[r] = "answered" => RateAgeBounded(answer[r])
    /\ Bounded => /\ OnlyTypedLeavesTheBand(stored) /\ OnlyTypedLeavesTheBand(memo.result)
                  /\ OnlyTypedLeavesTheBand(load.rate)
                  /\ \A r \in Askers : OnlyTypedLeavesTheBand(answer[r])
    /\ \A r \in Askers : answer[r].by \in Origins \cup {r}

LEMMA ResultAnswers ==
  /\ Results \subseteq Answers
  /\ \A result \in Results : result.by \in Origins
BY DEF Results, Answers

RateIInv == RateTypeOK /\ RatesKept

LEMMA RatePeriods ==
  /\ Providers \in Nat \ {0} /\ Refresh \in Nat \ {0} /\ MaxStale \in Nat /\ Old \in Nat
  /\ MaxStale + Providers + Refresh <= Old /\ 2 * Refresh <= Old /\ Bounded \in BOOLEAN
<1> DEFINE a == Refresh
           b == MaxStale + Providers
<1>1. a \in Nat /\ b \in Nat /\ 0 < a
  BY PeriodsAssumption
<1>2. Max({a, b}) = IF a >= b THEN a ELSE b
  <2> DEFINE m == IF a >= b THEN a ELSE b
  <2> HIDE DEF a, b
  <2>1. m \in {a, b} /\ \A y \in {a, b} : m >= y
    BY <1>1
  <2>2. \A x \in {a, b} : (\A y \in {a, b} : x >= y) => x = m
    BY <1>1
  <2> QED BY <2>1, <2>2 DEF Max
<1>3. Old = a + Max({a, b})
  BY DEF Old
<1> QED BY <1>1, <1>2, <1>3, PeriodsAssumption, BoundedAssumption

\* A result with its age bounded is an answer with its age bounded.
LEMMA BoundedAge ==
  ASSUME NEW rate \in Answers
  PROVE  RateAgeBounded(rate) <=> IF rate.stale THEN rate.age < MaxStale + Providers + Refresh
                                               ELSE rate.age < 2 * Refresh
<1>1. rate.age \in Nat /\ rate.lag \in Nat /\ rate.stale \in BOOLEAN
  <2>1. rate.age \in 0..Old /\ rate.lag \in Lags /\ rate.stale \in BOOLEAN
    BY DEF Answers
  <2>2. Old \in Nat
    BY RatePeriods
  <2>3. rate.age \in Nat
    BY <2>1, <2>2
  <2>4. rate.lag \in Nat
    BY <2>1, LagsAssumption
  <2> QED BY <2>1, <2>3, <2>4
<1> QED BY <1>1, PeriodsAssumption DEF RateAgeBounded, QuotedAge

LEMMA MemoTyped ==
  ASSUME NEW result \in Results, NEW since \in 0..Refresh
  PROVE  [result |-> result, since |-> since] \in [result : Results, since : 0..Refresh]
OBVIOUS

LEMMA LoadWith ==
  ASSUME NEW l \in Loads, NEW n, NEW x
  PROVE  [l EXCEPT !.waited = n, !.rate = x]
           = [step |-> l.step, at |-> l.at, waited |-> n, rate |-> x, usable |-> l.usable]
<1> DEFINE m == [step |-> l.step, at |-> l.at, waited |-> n, rate |-> l.rate, usable |-> l.usable]
<1>1. [l EXCEPT !.waited = n, !.rate = x] = [[l EXCEPT !.waited = n] EXCEPT !.rate = x]
  BY DEF Loads
<1>2. [l EXCEPT !.waited = n] = m
  BY DEF Loads
<1>3. [m EXCEPT !.rate = x]
        = [step |-> l.step, at |-> l.at, waited |-> n, rate |-> x, usable |-> l.usable]
  OBVIOUS
<1> QED BY <1>1, <1>2, <1>3

LEMMA JobAt ==
  ASSUME NEW j, NEW n, j = [step |-> j.step, at |-> j.at, waited |-> j.waited]
  PROVE  [j EXCEPT !.at = n, !.waited = 0] = [step |-> j.step, at |-> n, waited |-> 0]
<1> DEFINE m == [step |-> j.step, at |-> n, waited |-> j.waited]
<1>1. [j EXCEPT !.at = n, !.waited = 0] = [[j EXCEPT !.at = n] EXCEPT !.waited = 0]
  OBVIOUS
<1>2. [j EXCEPT !.at = n] = m
  OBVIOUS
<1>3. [m EXCEPT !.waited = 0] = [step |-> j.step, at |-> n, waited |-> 0]
  OBVIOUS
<1> QED BY <1>1, <1>2, <1>3

LEMMA Blank ==
  /\ NoRate \in Rates /\ OnlyTypedLeavesTheBand(NoRate)
  /\ NoLoad \in Loads /\ Load("store", NoRate, FALSE) \in Loads
  /\ Result(NoRate, TRUE) \in Results /\ OnlyTypedLeavesTheBand(Result(NoRate, TRUE))
  /\ NoMemo \in [result : Results, since : 0..Refresh] /\ ~ (NoMemo.since < Refresh)
  /\ OnlyTypedLeavesTheBand(NoMemo.result)
<1> USE RatePeriods
<1>1. NoRate \in Rates /\ OnlyTypedLeavesTheBand(NoRate)
  BY LagsAssumption DEF NoRate, Rates, Origins, OnlyTypedLeavesTheBand
<1>2. Result(NoRate, TRUE) \in Results /\ OnlyTypedLeavesTheBand(Result(NoRate, TRUE))
  BY LagsAssumption DEF NoRate, Result, Results, Origins, OnlyTypedLeavesTheBand
<1>3. NoLoad \in Loads /\ Load("store", NoRate, FALSE) \in Loads
  <2>1. 1 \in 1..Providers
    OBVIOUS
  <2> QED BY <1>1, <2>1 DEF NoLoad, Load, Loads
<1>4. NoMemo = [result |-> Result(NoRate, TRUE), since |-> Refresh]
  BY DEF NoMemo
<1>5. NoMemo \in [result : Results, since : 0..Refresh]
  <2>1. Refresh \in 0..Refresh
    OBVIOUS
  <2> QED BY <1>2, <1>4, <2>1, MemoTyped
<1>6. NoMemo.result = Result(NoRate, TRUE) /\ ~ (NoMemo.since < Refresh)
  BY <1>4
<1> QED BY <1>1, <1>2, <1>3, <1>5, <1>6

\* A result is of the age and the origin of its rate.
LEMMA ResultOf ==
  ASSUME NEW rate \in Rates, NEW stale \in BOOLEAN
  PROVE  /\ Result(rate, stale) \in Results
         /\ Result(rate, stale).age = rate.age /\ Result(rate, stale).stale = stale
         /\ OnlyTypedLeavesTheBand(rate) => OnlyTypedLeavesTheBand(Result(rate, stale))
BY DEF Result, Rates, Results, OnlyTypedLeavesTheBand

LEMMA SmallerOf ==
  ASSUME NEW a \in Nat, NEW b \in Nat
  PROVE  Min({a, b}) = IF a <= b THEN a ELSE b
<1> DEFINE m == IF a <= b THEN a ELSE b
<1>1. m \in {a, b} /\ \A y \in {a, b} : m <= y
  OBVIOUS
<1>2. \A x \in {a, b} : (\A y \in {a, b} : x <= y) => x = m
  OBVIOUS
<1> QED BY <1>1, <1>2 DEF Min

LEMMA AgedRate ==
  ASSUME NEW x, x \in Rates \/ x \in Results
  PROVE  /\ Aged(x).age \in 0..Old /\ Aged(x).age <= x.age + 1
         /\ Aged(x) = [x EXCEPT !.age = Aged(x).age]
<1>1. x.age \in 0..Old /\ x.age + 1 \in Nat /\ Old \in Nat
  BY RatePeriods DEF Rates, Results
<1>2. Min({x.age + 1, Old}) \in 0..Old /\ Min({x.age + 1, Old}) <= x.age + 1
  BY <1>1, SmallerOf
<1>3. Aged(x) = [x EXCEPT !.age = Min({x.age + 1, Old})] /\ Aged(x).age = Min({x.age + 1, Old})
  BY DEF Aged, Rates, Results
<1> QED BY <1>2, <1>3

LEMMA RateInitKept == RateInit => RateIInv
<1> SUFFICES ASSUME RateInit PROVE RateIInv
  OBVIOUS
<1>1. 1 \in 1..Providers
  BY RatePeriods
<1>2. RateTypeOK
  BY <1>1, Blank, ResultAnswers DEF RateInit, RateTypeOK, Loads, NoJob
<1>3. ~Memoised /\ load.step # "fetch" /\ \A r \in Askers : asker[r] # "answered"
  BY Blank DEF RateInit, Memoised, NoLoad, Load
<1>4. load.rate = NoRate
  BY DEF RateInit, NoLoad, Load
<1>6. \A r \in Askers : answer[r].by \in Origins
  BY Blank, ResultAnswers DEF RateInit
<1>5. RatesKept
  BY <1>3, <1>4, <1>6, Blank DEF RateInit, RatesKept, OnlyTypedLeavesTheBand
<1> QED BY <1>2, <1>5 DEF RateIInv

\* Whatever a promise resolves to keeps the invariant when it is young enough and in the band.
LEMMA ResolveKept ==
  ASSUME RateIInv, NEW result \in Results, Resolve(result), AgeKept(result, 0),
         Bounded => OnlyTypedLeavesTheBand(result),
         stored' \in Rates, Bounded => OnlyTypedLeavesTheBand(stored)', UNCHANGED refresh
  PROVE  RateIInv'
<1> USE RatePeriods DEF RateIInv
<1>0. result \in Answers /\ result.by \in Origins
  BY ResultAnswers
<1>1. RateTypeOK'
  <2>1. NoLoad \in Loads
    BY Blank
  <2>2. [result |-> result, since |-> 0] \in [result : Results, since : 0..Refresh]
    BY MemoTyped
  <2> QED BY <1>0, <2>1, <2>2 DEF RateTypeOK, Resolve, Waiting
<1>2. memo'.result = result /\ memo'.since = 0 /\ load' = NoLoad
  BY DEF Resolve
<1>3. RateAgeBounded(result)
  <2>1. IF result.stale THEN result.age < MaxStale + Providers + Refresh ELSE result.age < 2 * Refresh
    BY DEF AgeKept, Results
  <2> QED BY <1>0, <2>1, BoundedAge
<1>4. ASSUME NEW r \in Askers
      PROVE  /\ (asker[r] = "answered" => RateAgeBounded(answer[r]))' 
             /\ Bounded => OnlyTypedLeavesTheBand(answer[r])'
             /\ (answer[r].by \in Origins \cup {r})'
  <2>1. CASE r \in Waiting
    <3>1. answer'[r] = result
      BY <2>1 DEF Resolve
    <3> QED BY <1>0, <1>3, <3>1 DEF RateAgeBounded, QuotedAge, OnlyTypedLeavesTheBand
  <2>2. CASE r \notin Waiting
    <3>1. answer'[r] = answer[r] /\ asker'[r] = asker[r]
      BY <2>2 DEF Resolve
    <3> QED BY <3>1 DEF RateAgeBounded, QuotedAge, OnlyTypedLeavesTheBand, RatesKept
  <2> QED BY <2>1, <2>2
<1>5. OnlyTypedLeavesTheBand(NoRate)
  BY Blank
<1>6. load'.rate = NoRate /\ load'.step # "fetch"
  BY <1>2 DEF NoLoad, Load
<1> QED BY <1>1, <1>2, <1>4, <1>5, <1>6 DEF RatesKept, OnlyTypedLeavesTheBand

LEMMA FetchedSound ==
  ASSUME NEW wild \in BOOLEAN, NEW lag \in Lags
  PROVE  /\ Fetched(wild, lag) \in Rates /\ Result(Fetched(wild, lag), FALSE) \in Results
         /\ AgeKept(Result(Fetched(wild, lag), FALSE), 0)
         /\ AssertWithinBounds(wild) /\ Bounded =>
                /\ OnlyTypedLeavesTheBand(Fetched(wild, lag))
                /\ OnlyTypedLeavesTheBand(Result(Fetched(wild, lag), FALSE))
<1> DEFINE f == Fetched(wild, lag)
<1>1. f = [age |-> 0, lag |-> lag, by |-> "provider", wild |-> wild]
  BY DEF Fetched
<1>2. f \in Rates /\ f.age = 0 /\ f.wild = wild
  BY <1>1, RatePeriods DEF Rates, Origins
<1> HIDE DEF f
<1>3. Result(f, FALSE) \in Results /\ Result(f, FALSE).age = 0 /\ Result(f, FALSE).stale = FALSE
  BY <1>2, ResultOf
<1> DEFINE x == Result(f, FALSE)
<1>4. AgeKept(x, 0)
  <2>1. x.age = 0 /\ x.stale = FALSE
    BY <1>3
  <2> HIDE DEF x
  <2> QED BY <2>1, RatePeriods DEF AgeKept
<1>5. AssertWithinBounds(wild) /\ Bounded => OnlyTypedLeavesTheBand(f)
  BY <1>2 DEF AssertWithinBounds, OnlyTypedLeavesTheBand
<1> QED BY <1>2, <1>3, <1>4, <1>5, ResultOf DEF f

LEMMA GetRateKept == ASSUME RateIInv, NEW r \in Askers, GetRate(r) PROVE RateIInv'
<1> USE RatePeriods DEF RateIInv
<1>1. RateTypeOK'
  <2>1. memo.result \in Results
    BY DEF RateTypeOK, Loads
  <2>2. load' \in Loads
    BY Blank DEF GetRate, RateTypeOK, Loads
  <2>3. asker' \in [Askers -> {"idle", "waiting", "answered", "refused"}]
        /\ answer' \in [Askers -> Answers]
    BY <2>1, ResultAnswers DEF GetRate, RateTypeOK, Loads
  <2> QED BY <2>2, <2>3 DEF GetRate, RateTypeOK, Loads
<1>2. OnlyTypedLeavesTheBand(NoRate) /\ (load' = load \/ load' = Load("store", NoRate, FALSE))
  BY DEF OnlyTypedLeavesTheBand, NoRate, GetRate
<1>3. ASSUME NEW s \in Askers
      PROVE  /\ (asker[s] = "answered" => RateAgeBounded(answer[s]))'
             /\ Bounded => OnlyTypedLeavesTheBand(answer[s])'
             /\ (answer[s].by \in Origins \cup {s})'
  <2>1. CASE Memoised /\ s = r
    <3>1. asker'[s] = "answered" /\ answer'[s] = memo.result
      BY <2>1 DEF GetRate, RateTypeOK, Loads
    <3>2. memo.since < Refresh /\ memo.since \in Nat /\ memo.result \in Results
      BY <2>1 DEF Memoised, RateTypeOK, Loads
    <3>3. memo.result \in Answers /\ memo.result.by \in Origins
      BY <3>2, ResultAnswers
    <3>4. RateAgeBounded(memo.result)
      <4>1. IF memo.result.stale THEN memo.result.age < MaxStale + Providers + Refresh
                                 ELSE memo.result.age < 2 * Refresh
        BY <2>1, <3>2 DEF RatesKept, AgeKept, Results
      <4> QED BY <3>3, <4>1, BoundedAge
    <3> QED BY <2>1, <3>1, <3>3, <3>4 DEF RatesKept, RateAgeBounded, QuotedAge, OnlyTypedLeavesTheBand
  <2>2. CASE ~Memoised /\ s = r
    <3>1. asker'[s] = "waiting" /\ answer'[s] = answer[s]
      BY <2>2 DEF GetRate, RateTypeOK, Loads
    <3> QED BY <3>1 DEF RatesKept, OnlyTypedLeavesTheBand
  <2>3. CASE s # r
    <3>1. asker'[s] = asker[s] /\ answer'[s] = answer[s]
      BY <2>3 DEF GetRate, RateTypeOK, Loads
    <3> QED BY <3>1 DEF RatesKept, RateAgeBounded, QuotedAge, OnlyTypedLeavesTheBand
  <2> QED BY <2>1, <2>2, <2>3
<1>4. UNCHANGED <<stored, memo>>
  BY DEF GetRate
<1> QED BY <1>1, <1>2, <1>3, <1>4 DEF RatesKept, Memoised, NoLoad, Load, OnlyTypedLeavesTheBand

LEMMA GetPinnedKept ==
  ASSUME RateIInv, NEW r \in Askers, NEW wild \in BOOLEAN, GetPinned(r, wild)
  PROVE  RateIInv'
<1> USE RatePeriods DEF RateIInv
<1> DEFINE x == Pinned(r, wild)
<1>1. x \in Answers /\ x.by = r /\ x.age = 0 /\ x.stale = FALSE
  BY LagsAssumption DEF Pinned, Answers
<1>2. RateAgeBounded(x) /\ OnlyTypedLeavesTheBand(x)
  BY <1>1, BoundedAge, AskersAssumption DEF OnlyTypedLeavesTheBand, Origins
<1> HIDE DEF x
<1>3. /\ answer' = [answer EXCEPT ![r] = x] /\ asker' = [asker EXCEPT ![r] = "answered"]
      /\ UNCHANGED <<stored, memo, load, refresh>>
  BY DEF GetPinned, x
<1>4. RateTypeOK'
  BY <1>1, <1>3 DEF RateTypeOK
<1>5. ASSUME NEW s \in Askers
      PROVE  /\ (asker[s] = "answered" => RateAgeBounded(answer[s]))'
             /\ Bounded => OnlyTypedLeavesTheBand(answer[s])'
             /\ (answer[s].by \in Origins \cup {s})'
  <2>1. CASE s = r
    <3>1. answer'[s] = x
      BY <1>3, <2>1 DEF RateTypeOK
    <3> QED BY <1>1, <1>2, <2>1, <3>1 DEF RateAgeBounded, QuotedAge, OnlyTypedLeavesTheBand
  <2>2. CASE s # r
    <3>1. asker'[s] = asker[s] /\ answer'[s] = answer[s]
      BY <1>3, <2>2 DEF RateTypeOK
    <3> QED BY <3>1 DEF RatesKept, RateAgeBounded, QuotedAge, OnlyTypedLeavesTheBand
  <2> QED BY <2>1, <2>2
<1> QED BY <1>3, <1>4, <1>5 DEF RatesKept, Memoised, AgeKept, OnlyTypedLeavesTheBand

LEMMA LeaveKept == ASSUME RateIInv, NEW r \in Askers, Leave(r) PROVE RateIInv'
<1> USE RatePeriods DEF RateIInv
<1> DEFINE x == Result(NoRate, TRUE)
<1>1. x \in Answers /\ x.by \in Origins /\ OnlyTypedLeavesTheBand(x)
  BY Blank, ResultAnswers
<1> HIDE DEF x
<1>2. /\ answer' = [answer EXCEPT ![r] = x] /\ asker' = [asker EXCEPT ![r] = "idle"]
      /\ UNCHANGED <<stored, memo, load, refresh>>
  BY DEF Leave, x
<1>4. RateTypeOK'
  BY <1>1, <1>2 DEF RateTypeOK
<1>3. ASSUME NEW s \in Askers
      PROVE  /\ (asker[s] = "answered" => RateAgeBounded(answer[s]))'
             /\ Bounded => OnlyTypedLeavesTheBand(answer[s])'
             /\ (answer[s].by \in Origins \cup {s})'
  <2>1. CASE s = r
    <3>1. answer'[s] = x /\ asker'[s] = "idle"
      BY <1>2, <2>1 DEF RateTypeOK
    <3> QED BY <1>1, <3>1 DEF OnlyTypedLeavesTheBand
  <2>2. CASE s # r
    <3>1. asker'[s] = asker[s] /\ answer'[s] = answer[s]
      BY <1>2, <2>2 DEF RateTypeOK
    <3> QED BY <3>1 DEF RatesKept, RateAgeBounded, QuotedAge, OnlyTypedLeavesTheBand
  <2> QED BY <2>1, <2>2
<1> QED BY <1>2, <1>3, <1>4 DEF RatesKept, Memoised, AgeKept, OnlyTypedLeavesTheBand

LEMMA LoadLatestFxKept == ASSUME RateIInv, LoadLatestFx PROVE RateIInv'
<1> USE RatePeriods DEF RateIInv
<1>1. CASE FreshRate(stored.age)
  <2>1. /\ Result(stored, FALSE) \in Results /\ AgeKept(Result(stored, FALSE), 0)
        /\ Bounded => OnlyTypedLeavesTheBand(Result(stored, FALSE))
    <3>1. stored \in Rates /\ stored.age \in Nat /\ stored.age < Refresh
          /\ (Bounded => OnlyTypedLeavesTheBand(stored))
      BY <1>1 DEF RateTypeOK, Loads, RatesKept, Rates, FreshRate
    <3>2. AgeKept(Result(stored, FALSE), 0)
      <4> DEFINE x == Result(stored, FALSE)
      <4>1. x.age = stored.age /\ x.stale = FALSE
        BY <3>1, ResultOf
      <4> HIDE DEF x
      <4>2. AgeKept(x, 0)
        BY <3>1, <4>1 DEF AgeKept
      <4> QED BY <4>2 DEF x
    <3> QED BY <3>1, <3>2, ResultOf
  <2>2. Resolve(Result(stored, FALSE)) /\ UNCHANGED <<stored, refresh>>
    BY <1>1 DEF LoadLatestFx
  <2>3. stored' \in Rates /\ (Bounded => OnlyTypedLeavesTheBand(stored)')
    BY <2>2 DEF RateTypeOK, Loads, RatesKept, OnlyTypedLeavesTheBand
  <2> QED BY <2>1, <2>2, <2>3, ResolveKept
<1>2. CASE ~FreshRate(stored.age)
  <2>1. /\ load' = Load("fetch", stored, Usable(stored.age))
        /\ UNCHANGED <<stored, memo, refresh, asker, answer>>
    BY <1>2 DEF LoadLatestFx
  <2>2. load' = [step |-> "fetch", at |-> 1, waited |-> 0, rate |-> stored,
                 usable |-> stored.age <= MaxStale]
    BY <2>1 DEF Load, Usable
  <2>3. stored \in Rates /\ (stored.age <= MaxStale) \in BOOLEAN
    BY DEF RateTypeOK, Loads
  <2>4. load' \in Loads
    BY <2>2, <2>3 DEF Loads
  <2>5. RateTypeOK'
    BY <2>1, <2>4 DEF RateTypeOK, Loads
  <2>6. load'.usable => load'.rate.age <= MaxStale + load'.at - 1 + load'.waited
    <3>1. load'.at = 1 /\ load'.waited = 0 /\ load'.rate = stored
      BY <2>2
    <3>2. load'.usable => stored.age <= MaxStale
      BY <2>2
    <3> QED BY <2>3, <3>1, <3>2 DEF Rates
  <2>7. Bounded => OnlyTypedLeavesTheBand(load'.rate)
    BY <2>2 DEF RatesKept
  <2> QED BY <2>1, <2>5, <2>6, <2>7
       DEF RatesKept, RateTypeOK, Loads, Rates, Memoised, RateAgeBounded, QuotedAge, OnlyTypedLeavesTheBand
<1> QED BY <1>1, <1>2

LEMMA LoadFetchesKept ==
  ASSUME RateIInv, NEW wild \in BOOLEAN, NEW lag \in Lags, LoadFetches(wild, lag) PROVE RateIInv'
<1> DEFINE f == Fetched(wild, lag)
<1>1. /\ AssertWithinBounds(wild) /\ stored' = f
      /\ Resolve(Result(f, FALSE)) /\ UNCHANGED refresh
  BY DEF LoadFetches
<1>2. /\ f \in Rates /\ Result(f, FALSE) \in Results /\ AgeKept(Result(f, FALSE), 0)
      /\ Bounded => OnlyTypedLeavesTheBand(f) /\ OnlyTypedLeavesTheBand(Result(f, FALSE))
  BY <1>1, FetchedSound
<1> HIDE DEF f
<1>3. stored' \in Rates /\ (Bounded => OnlyTypedLeavesTheBand(stored)')
  BY <1>1, <1>2 DEF OnlyTypedLeavesTheBand
<1> QED BY <1>1, <1>2, <1>3, ResolveKept

LEMMA LoadFailsKept == ASSUME RateIInv, LoadFails PROVE RateIInv'
<1> USE RatePeriods DEF RateIInv
<1>1. load.step = "fetch" /\ UNCHANGED <<stored, refresh>>
  BY DEF LoadFails
<1>2. CASE /\ load.at < Providers /\ load' = [load EXCEPT !.at = @ + 1, !.waited = 0]
           /\ UNCHANGED <<memo, asker, answer>>
  <2>1. load' = [step |-> load.step, at |-> load.at + 1, waited |-> 0, rate |-> load.rate,
                 usable |-> load.usable]
    BY <1>2 DEF RateTypeOK, Loads
  <2>2. RateTypeOK'
    BY <1>1, <1>2, <2>1 DEF RateTypeOK, Loads
  <2> QED BY <1>1, <1>2, <2>1, <2>2
       DEF RatesKept, RateTypeOK, Loads, Rates, Memoised, RateAgeBounded, QuotedAge, OnlyTypedLeavesTheBand
<1>3. CASE load.at = Providers /\ load.usable /\ Resolve(Result(load.rate, TRUE))
  <2>1. /\ Result(load.rate, TRUE) \in Results /\ AgeKept(Result(load.rate, TRUE), 0)
        /\ Bounded => OnlyTypedLeavesTheBand(Result(load.rate, TRUE))
    BY <1>1, <1>3 DEF RateTypeOK, Loads, RatesKept, Result, Rates, Results, AgeKept, OnlyTypedLeavesTheBand
  <2>2. stored' \in Rates /\ (Bounded => OnlyTypedLeavesTheBand(stored)')
    BY <1>1 DEF RateTypeOK, Loads, RatesKept, OnlyTypedLeavesTheBand
  <2> QED BY <1>1, <1>3, <2>1, <2>2, ResolveKept
<1>4. CASE load.at = Providers /\ ~load.usable /\ Reject
  <2>1. load' = NoLoad /\ UNCHANGED <<stored, memo, refresh, answer>>
    BY <1>1, <1>4 DEF Reject
  <2>2. \A r \in Askers : asker'[r] = "answered" => asker[r] = "answered"
    BY <1>4 DEF Reject
  <2>3. RateTypeOK'
    BY <1>4, <2>1, Blank DEF RateTypeOK, Reject
  <2>4. OnlyTypedLeavesTheBand(NoRate)
    BY DEF OnlyTypedLeavesTheBand, NoRate
  <2> QED BY <2>1, <2>2, <2>3, <2>4 DEF RatesKept, Memoised, NoLoad, Load, RateAgeBounded, QuotedAge, OnlyTypedLeavesTheBand
<1> QED BY <1>2, <1>3, <1>4 DEF LoadFails

LEMMA RefreshKept ==
  ASSUME RateIInv, RefreshRate \/ RefreshFails
         \/ \E wild \in BOOLEAN, lag \in Lags : RefreshFetches(wild, lag)
  PROVE  RateIInv'
<1> USE RatePeriods DEF RateIInv
<1>1. UNCHANGED <<load, asker, answer>>
  BY DEF RefreshRate, RefreshFails, RefreshFetches
<1>2. CASE RefreshRate
  <2>1. memo' = NoMemo /\ stored' = stored /\ refresh' = [NoJob EXCEPT !.step = "fetch"]
    BY <1>2 DEF RefreshRate
  <2>2. RateTypeOK'
    BY <1>1, <2>1, Blank DEF RateTypeOK, Loads, NoJob
  <2> QED BY <1>1, <2>1, <2>2, Blank DEF RatesKept, Memoised, RateAgeBounded, QuotedAge, OnlyTypedLeavesTheBand
<1>3. CASE RefreshFails
  <2>1. refresh' \in [step : {"none", "fetch"}, at : 1..Providers, waited : {0, 1}]
    <3>1. refresh.at < Providers => [refresh EXCEPT !.at = @ + 1, !.waited = 0]
             = [step |-> refresh.step, at |-> refresh.at + 1, waited |-> 0]
      <4>1. refresh = [step |-> refresh.step, at |-> refresh.at, waited |-> refresh.waited]
        BY DEF RateTypeOK, Loads
      <4> QED BY <4>1, JobAt
    <3>2. refresh.at \in 1..Providers /\ refresh.step \in {"none", "fetch"} /\ 1 \in 1..Providers
      BY DEF RateTypeOK, Loads
    <3>3. refresh.at < Providers => refresh.at + 1 \in 1..Providers
      BY <3>2
    <3> QED BY <1>3, <3>1, <3>2, <3>3 DEF RefreshFails, NoJob
  <2> QED BY <2>1, <1>1, <1>3 DEF RefreshFails, RateTypeOK, Loads, RatesKept, NoJob, Memoised, RateAgeBounded, QuotedAge,
     OnlyTypedLeavesTheBand
<1>4. ASSUME NEW wild \in BOOLEAN, NEW lag \in Lags, RefreshFetches(wild, lag) PROVE RateIInv'
  <2> DEFINE f == Fetched(wild, lag)
             x == Result(f, FALSE)
  <2>1. /\ AssertWithinBounds(wild) /\ stored' = f /\ refresh' = NoJob
        /\ memo' = [result |-> x, since |-> 0]
    BY <1>4 DEF RefreshFetches
  <2>2. /\ f \in Rates /\ x \in Results /\ AgeKept(x, 0)
        /\ Bounded => OnlyTypedLeavesTheBand(f) /\ OnlyTypedLeavesTheBand(x)
    BY <2>1, FetchedSound
  <2> HIDE DEF f, x
  <2>3. RateTypeOK'
    <3>1. memo' \in [result : Results, since : 0..Refresh] /\ stored' \in Rates
      <4>1. 0 \in 0..Refresh
        OBVIOUS
      <4> QED BY <2>1, <2>2, <4>1, MemoTyped
    <3>2. refresh' \in [step : {"none", "fetch"}, at : 1..Providers, waited : {0, 1}]
      BY <2>1 DEF NoJob
    <3> QED BY <1>1, <3>1, <3>2 DEF RateTypeOK, Loads
  <2> QED BY <1>1, <2>1, <2>2, <2>3
       DEF RatesKept, Memoised, AgeKept, RateAgeBounded, QuotedAge, OnlyTypedLeavesTheBand
<1> QED BY <1>2, <1>3, <1>4

LEMMA StoredElsewhereKept ==
  ASSUME RateIInv, (\E lag \in Lags : SaveFxElsewhere(lag)) \/ \E wild, here \in BOOLEAN : SetManualRate(wild, here)
  PROVE  RateIInv'
<1> USE RatePeriods DEF RateIInv
<1>1. UNCHANGED <<load, refresh, asker, answer>> /\ (memo' = memo \/ memo' = NoMemo)
  BY DEF SaveFxElsewhere, SetManualRate
<1>2. stored' \in Rates /\ OnlyTypedLeavesTheBand(stored')
  <2>1. ASSUME NEW lag \in Lags, SaveFxElsewhere(lag)
        PROVE  stored' \in Rates /\ OnlyTypedLeavesTheBand(stored')
    <3>1. stored' = [age |-> 0, lag |-> lag, by |-> "provider", wild |-> FALSE]
      BY <2>1 DEF SaveFxElsewhere, Fetched
    <3> QED BY <3>1 DEF Rates, Origins, OnlyTypedLeavesTheBand
  <2>2. ASSUME NEW wild \in BOOLEAN, NEW here \in BOOLEAN, SetManualRate(wild, here)
        PROVE  stored' \in Rates /\ OnlyTypedLeavesTheBand(stored')
    <3>1. stored' = [age |-> 0, lag |-> 0, by |-> "admin", wild |-> wild]
      BY <2>2 DEF SetManualRate
    <3> QED BY <3>1, LagsAssumption DEF Rates, Origins, OnlyTypedLeavesTheBand
  <2> QED BY <2>1, <2>2
<1>3. NoMemo \in [result : Results, since : 0..Refresh]
      /\ ~ (NoMemo.since < Refresh) /\ OnlyTypedLeavesTheBand(NoMemo.result)
  BY Blank
<1>4. RateTypeOK'
  BY <1>1, <1>2, <1>3 DEF RateTypeOK, Loads
<1> QED BY <1>1, <1>2, <1>3, <1>4 DEF RatesKept, Memoised, AgeKept, RateAgeBounded, QuotedAge, OnlyTypedLeavesTheBand

LEMMA TickKept == ASSUME RateIInv, Tick PROVE RateIInv'
<1> USE RatePeriods DEF RateIInv
<1> DEFINE S == Aged(stored)
           R == Aged(memo.result)
           L == Aged(load.rate)
<1>1. stored \in Rates /\ memo.result \in Results /\ load.rate \in Rates /\ memo.since \in 0..Refresh
  BY DEF RateTypeOK, Loads
<1>2. /\ S \in Rates /\ S.wild = stored.wild /\ S.by = stored.by
      /\ L \in Rates /\ L.age <= load.rate.age + 1 /\ L.wild = load.rate.wild /\ L.by = load.rate.by
  BY <1>1, AgedRate DEF Rates
<1>3. /\ R \in Results /\ R.age <= memo.result.age + 1 /\ R.wild = memo.result.wild
      /\ R.by = memo.result.by /\ R.stale = memo.result.stale
  BY <1>1, AgedRate DEF Results
<1>4. memo' = IF memo.since + 1 < Refresh THEN [result |-> R, since |-> memo.since + 1] ELSE NoMemo
  BY DEF Tick, OlderMemo
<1>5. /\ load.waited = 0 /\ stored' = S
      /\ load' = IF load.step = "fetch"
                 THEN [step |-> "fetch", at |-> load.at, waited |-> 1, rate |-> L, usable |-> load.usable]
                 ELSE load
      /\ refresh' = IF refresh.step = "fetch" THEN [refresh EXCEPT !.waited = 1] ELSE refresh
      /\ UNCHANGED <<asker, answer>>
  <2>1. load \in Loads
    BY DEF RateTypeOK, Loads
  <2>2. [load EXCEPT !.waited = 1, !.rate = Aged(@)]
           = [step |-> load.step, at |-> load.at, waited |-> 1, rate |-> L, usable |-> load.usable]
    BY <2>1, LoadWith
  <2> QED BY <2>2 DEF Tick
<1> HIDE DEF S, R, L
<1>6. RateTypeOK'
  <2>1. memo' \in [result : Results, since : 0..Refresh]
    <3>1. memo.since + 1 < Refresh => memo.since + 1 \in 0..Refresh
      BY <1>1
    <3> QED BY <1>3, <1>4, <3>1, MemoTyped, Blank
  <2> QED BY <1>1, <1>2, <1>5, <2>1 DEF RateTypeOK, Loads
<1>7. (Memoised => AgeKept(memo.result, memo.since))'
  <2>1. CASE memo.since + 1 < Refresh
    <3>1. Memoised /\ memo'.result = R /\ memo'.since = memo.since + 1
      BY <1>1, <1>4, <2>1 DEF Memoised
    <3> QED BY <1>1, <1>3, <3>1 DEF RatesKept, Memoised, AgeKept, Results
  <2>2. CASE ~ (memo.since + 1 < Refresh)
    BY <1>4, <2>2, Blank DEF Memoised
  <2> QED BY <2>1, <2>2
<1>8. (load.step = "fetch" /\ load.usable => load.rate.age <= MaxStale + load.at - 1 + load.waited)'
  BY <1>1, <1>2, <1>5 DEF RatesKept, RateTypeOK, Loads, Rates
<1>9. (Bounded => /\ OnlyTypedLeavesTheBand(stored) /\ OnlyTypedLeavesTheBand(memo.result)
                  /\ OnlyTypedLeavesTheBand(load.rate))'
  BY <1>2, <1>3, <1>4, <1>5, Blank DEF RatesKept, OnlyTypedLeavesTheBand
<1> QED BY <1>5, <1>6, <1>7, <1>8, <1>9 DEF RatesKept, RateAgeBounded, QuotedAge, OnlyTypedLeavesTheBand

LEMMA RateNextKept == RateIInv /\ [RateNext]_rateVars => RateIInv'
<1> SUFFICES ASSUME RateIInv, [RateNext]_rateVars PROVE RateIInv'
  OBVIOUS
<1>1. CASE UNCHANGED rateVars
  BY <1>1 DEF rateVars, RateIInv, RateTypeOK, Loads, RatesKept, Memoised, RateAgeBounded, QuotedAge, OnlyTypedLeavesTheBand
<1>2. CASE RateNext
  BY <1>2, GetRateKept, GetPinnedKept, LeaveKept, LoadLatestFxKept, LoadFetchesKept, LoadFailsKept, RefreshKept,
     StoredElsewhereKept, TickKept DEF RateNext, LoadStep
<1> QED BY <1>1, <1>2

\* No request is answered with a rate older than the periods and the time outs allow,
\* counted from what its provider said it was when it was fetched; only what the admin or
\* its own user typed is outside the band; and a pinned rate answers its user only: of any
\* number of requests, providers, periods and dates (packages/currency/src/service.ts).
THEOREM RatesAreTrustworthy == RateSpec => []RatesTrustworthy
<1>1. RateIInv => RatesTrustworthy
  <2>1. RateTypeOK => stored.by \in Origins
    BY DEF RateTypeOK, Rates
  <2> QED BY <2>1 DEF RateIInv, RatesKept, RatesTrustworthy
<1> QED BY <1>1, RateInitKept, RateNextKept, PTL DEF RateSpec

\* What a process keeps about its rates has its type.
THEOREM RatesTyped == RateSpec => []RateTypeOK
<1>1. RateIInv => RateTypeOK
  BY DEF RateIInv
<1> QED BY <1>1, RateInitKept, RateNextKept, PTL DEF RateSpec

-----------------------------------------------------------------------------
(* Figures *)

\* A quotient has the sign of what is divided.
LEMMA TruncSigned ==
  ASSUME NEW n \in Int, NEW d \in Nat \ {0}
  PROVE  (n >= 0 => TruncDiv(n, d) >= 0) /\ (n <= 0 => TruncDiv(n, d) <= 0)
<1>1. \A m \in Nat : m \div d \in Nat
  OBVIOUS
<1>2. CASE n >= 0
  BY <1>1, <1>2 DEF TruncDiv, AbsInt
<1>3. CASE n < 0
  <2>1. -n \in Nat
    BY <1>3
  <2>2. (-n) \div d \in Nat
    BY <1>1, <2>1
  <2>3. TruncDiv(n, d) = -((-n) \div d)
    BY <1>3 DEF TruncDiv, AbsInt
  <2> QED BY <1>3, <2>2, <2>3
<1> QED BY <1>2, <1>3

Ages == Nat \cup {Null}
PricePolicies == [refresh : Nat \ {0}, maxStaleness : Nat]
\* An asset whose price is memoised has the age of that price.
PriceRows == {a \in [listed : BOOLEAN, loaded : Ages, age : Ages, stored : Ages] :
                 a.loaded # Null => a.age # Null}
PriceAnswers(assets) == [ok : BOOLEAN, quotes : SUBSET assets]

\* Whatever is memoised and stored of any assets, and whichever providers answer with
\* whatever quotes: an asset is without a price only if it has no price id, or nobody
\* quotes it and what is stored is too old; and a price past its refresh is kept only if
\* the first provider failed it (CurrencyService.getPrices).
THEOREM PricesAlwaysFound ==
  ASSUME NEW assets, \A id \in DOMAIN assets : assets[id] \in PriceRows,
         NEW quoted, NEW answers \in Seq(PriceAnswers(quoted)), NEW policy \in PricePolicies
  PROVE  PricesFound(assets, answers, policy)
<1> DEFINE needed == StillNeeded(assets, policy)
           Held(id) == HeldPrice(assets[id], policy)
           Quotes(n, id) == answers[n].ok /\ id \in answers[n].quotes
           Covered(n) == \A id \in needed : Held(id) # Null \/ \E i \in 1..n : Quotes(i, id)
           Asked == {n \in DOMAIN answers : \A i \in 1..(n - 1) : answers[i].ok => ~Covered(i)}
           found == GetPrices(assets, answers, policy)
           Quoted == UNION {answers[i].quotes : i \in {i \in DOMAIN answers : answers[i].ok}}
<1>1. /\ policy.refresh \in Nat \ {0} /\ policy.maxStaleness \in Nat
      /\ \A id \in DOMAIN assets :
           /\ assets[id].listed \in BOOLEAN /\ assets[id].loaded \in Ages /\ assets[id].age \in Ages
           /\ assets[id].stored \in Ages /\ (assets[id].loaded # Null => assets[id].age # Null)
  BY DEF PricePolicies, PriceRows
<1>2. ASSUME NEW id \in DOMAIN assets
      PROVE  found[id] = IF id \in needed /\ \E n \in Asked : Quotes(n, id) THEN 0 ELSE Held(id)
  BY DEF GetPrices
<1>3. ASSUME NEW id \in DOMAIN assets
      PROVE  id \in needed <=> /\ ~MemoFresh(assets[id], policy) /\ assets[id].listed
                               /\ assets[id].stored = Null \/ assets[id].stored >= policy.refresh
  BY DEF StillNeeded
<1> HIDE DEF found, needed
\* Whoever quotes it first is asked, or is not because it was covered.
<1>4. ASSUME NEW id \in needed, Held(id) = Null, NEW m \in DOMAIN answers, Quotes(m, id)
      PROVE  \E n \in Asked : Quotes(n, id)
  <2> DEFINE Q == {n \in DOMAIN answers : Quotes(n, id)}
  <2>1. PICK n \in Q : \A j \in Q : n <= j
    <3>1. Q \subseteq Nat /\ Q # {}
      BY <1>4
    <3> HIDE DEF Q
    <3> QED BY <3>1, LeastNumber
  <2>2. ASSUME NEW i \in 1..(n - 1) PROVE ~Covered(i)
    <3>1. \A j \in 1..i : j \in DOMAIN answers /\ ~ (n <= j)
      BY <2>1
    <3>2. \A j \in 1..i : ~Quotes(j, id)
      BY <2>1, <3>1
    <3> QED BY <1>4, <3>2
  <2> QED BY <2>1, <2>2
<1>5. ASSUME NEW id \in DOMAIN assets, found[id] = Null
      PROVE  \/ ~assets[id].listed
             \/ /\ id \notin Quoted
                /\ assets[id].stored = Null \/ assets[id].stored > policy.maxStaleness
  <2>1. Held(id) = Null /\ (id \in needed => \A n \in Asked : ~Quotes(n, id))
    BY <1>2, <1>5 DEF Null
  <2>2. ~MemoFresh(assets[id], policy)
    BY <1>1, <2>1 DEF HeldPrice, MemoFresh
  <2>3. CASE assets[id].listed
    <3>1. assets[id].stored = Null \/ (assets[id].stored > policy.maxStaleness
                                       /\ assets[id].stored >= policy.refresh)
      BY <1>1, <2>1, <2>2, <2>3 DEF HeldPrice, Ages
    <3>2. id \in needed
      BY <1>3, <2>2, <2>3, <3>1
    <3>3. \A m \in DOMAIN answers : ~Quotes(m, id)
      BY <1>4, <2>1, <3>2
    <3> QED BY <3>1, <3>3
  <2> QED BY <2>3
<1>6. ASSUME NEW id \in DOMAIN assets, found[id] # Null, found[id] >= policy.refresh,
             ~MemoFresh(assets[id], policy)
      PROVE  /\ found[id] <= policy.maxStaleness
             /\ answers # <<>> => ~answers[1].ok \/ id \notin answers[1].quotes
  <2>1. found[id] = Held(id) /\ (id \in needed => \A n \in Asked : ~Quotes(n, id))
    BY <1>1, <1>2, <1>6
  <2>2. /\ Held(id) = assets[id].stored /\ assets[id].listed /\ assets[id].stored # Null
        /\ assets[id].stored < policy.refresh \/ assets[id].stored <= policy.maxStaleness
    BY <1>6, <2>1 DEF HeldPrice
  <2>3. assets[id].stored \in Nat /\ assets[id].stored <= policy.maxStaleness
    BY <1>1, <1>6, <2>1, <2>2 DEF Ages
  <2>4. id \in needed
    BY <1>3, <1>6, <2>1, <2>2
  <2>5. answers # <<>> => 1 \in Asked
    BY SMT
  <2> QED BY <2>1, <2>2, <2>3, <2>4, <2>5
<1> HIDE DEF Quoted
<1>7. PricesFound(assets, answers, policy)
  <2> HIDE DEF Held, Asked
  <2> QED BY <1>5, <1>6 DEF PricesFound, found, Quoted
<1> QED BY <1>7

\* Of a service that answers whatever it answers, a summary that withholds only totals it
\* explains, and a goal: only the database or a rate past its ceiling takes the service
\* down, a withheld total is explained, and a goal is full only when it is met.
Services == [database : BOOLEAN, dead : Nat, queued : Nat, rateAge : Ages, maxStaleness : Nat,
             refresh : Nat, deep : BOOLEAN, chain : BOOLEAN, signer : BOOLEAN, telegram : BOOLEAN]

THEOREM ReportsAlwaysTrue ==
  ASSUME NEW app \in Services, NEW summary, summary.totalUsd = Null => summary.partial,
         NEW current \in Int, NEW target \in Nat
  PROVE  ReportsSpeakTrue(app, summary, current, target)
<1>1. /\ app.database \in BOOLEAN /\ app.dead \in Nat /\ app.queued \in Nat /\ app.rateAge \in Ages
      /\ app.maxStaleness \in Nat /\ app.refresh \in Nat /\ app.deep \in BOOLEAN
      /\ app.chain \in BOOLEAN /\ app.signer \in BOOLEAN /\ app.telegram \in BOOLEAN
  BY DEF Services
<1>2. (HealthReport(app) = "down") <=>
          ~app.database \/ (app.rateAge # Null /\ app.rateAge > app.maxStaleness)
  BY <1>1 DEF HealthReport
<1>3. HealthReport(app) = "ok" => app.telegram /\ app.dead = 0
  BY <1>1 DEF HealthReport
<1>4. summary.totalUsd = Null => "partialValuation" \in Alerts(summary, FALSE, <<>>, {}, 0, FALSE)
  BY DEF Alerts
<1>5. (GoalPercent(current, target) = 100) <=> (target > 0 /\ current >= target)
  <2>1. CASE target = 0
    BY <2>1 DEF GoalPercent
  <2>2. CASE target # 0
    <3> DEFINE q == TruncDiv(current * 100, target)
               p == q * target
    <3>1. /\ q \in Int /\ p \in Int /\ AbsInt(current * 100 - p) < target
          /\ current * 100 >= 0 => q >= 0 /\ p <= current * 100
          /\ current * 100 <= 0 => q <= 0 /\ p >= current * 100
      BY <2>2, TruncDivides, TruncSigned
    <3>2. GoalPercent(current, target) = MaxInt(0, MinInt(100, q))
      BY <2>2 DEF GoalPercent
    <3>3. q >= 100 => p >= 100 * target
      <4>1. (q - 100) * target = p - 100 * target
        BY <3>1
      <4>2. q >= 100 => (q - 100) * target >= 0
        BY <3>1
      <4> QED BY <3>1, <4>1, <4>2
    <3>4. q <= 99 => p <= 99 * target
      <4>1. (99 - q) * target = 99 * target - p
        BY <3>1
      <4>2. q <= 99 => (99 - q) * target >= 0
        BY <3>1
      <4> QED BY <3>1, <4>1, <4>2
    <3> HIDE DEF q, p
    <3>5. q >= 100 <=> current >= target
      BY <2>2, <3>1, <3>3, <3>4 DEF AbsInt
    <3> QED BY <2>2, <3>1, <3>2, <3>5 DEF MaxInt, MinInt
  <2> QED BY <2>1, <2>2
<1>6. ChangeBps(current, target) # Null /\ ChangeBps(current, target) > 0 => current > target
  <2> SUFFICES ASSUME ChangeBps(current, target) # Null, ChangeBps(current, target) > 0
               PROVE  current > target
    OBVIOUS
  <2>1. target # 0 /\ ChangeBps(current, target) = TruncDiv((current - target) * 10000, target)
    BY DEF ChangeBps, AbsInt
  <2>2. (current - target) * 10000 <= 0 => TruncDiv((current - target) * 10000, target) <= 0
    BY <2>1, TruncDivides, TruncSigned
  <2>3. TruncDiv((current - target) * 10000, target) \in Int
    BY <2>1, TruncDivides, TruncSigned
  <2> DEFINE q == TruncDiv((current - target) * 10000, target)
  <2> HIDE DEF q
  <2>4. q > 0 /\ q \in Int /\ ((current - target) * 10000 <= 0 => q <= 0)
    BY <2>1, <2>2, <2>3 DEF q
  <2> QED BY <2>4
<1> QED BY <1>2, <1>3, <1>4, <1>5, <1>6 DEF ReportsSpeakTrue

RateHistories == Seq([rate : Nat, age : Nat])

\* Whatever the history of the rate and the thresholds chosen: nobody is told of a rise when
\* the rate fell, nor of a move a hundredth short of the threshold (checkFxAlerts).
THEOREM AlertsAlwaysTrue ==
  ASSUME NEW history \in RateHistories, NEW users, NEW thresholds \in [users -> Nat]
  PROVE  AlertsAreTrue(history, thresholds)
<1> DEFINE old == {i \in DOMAIN history : history[i].age >= 1}
           k == Min(old)
           now == history[1].rate
           ref == history[k].rate
           change == FxChangeBps(history)
           told == FxRecipients(thresholds, change)
           moved == now - ref
<1> SUFFICES ASSUME NEW u \in told
             PROVE  /\ (change > 0) <=> (moved > 0)
                    /\ (AbsInt(moved) + 10) * 10000 > thresholds[u] * (ref - 10)
  BY DEF AlertsAreTrue
<1>1. change # Null /\ thresholds[u] \in Nat /\ thresholds[u] > 0 /\ thresholds[u] <= AbsInt(change)
  <2>1. change # Null
    BY DEF FxRecipients
  <2>2. u \in DOMAIN thresholds /\ thresholds[u] > 0 /\ thresholds[u] <= AbsInt(change)
    BY <2>1 DEF FxRecipients
  <2> QED BY <2>1, <2>2
<1>2. old # {} /\ TrimRate(ref) # 0
      /\ change = TruncDiv((TrimRate(now) - TrimRate(ref)) * 10000, TrimRate(ref))
  BY <1>1 DEF FxChangeBps
<1>3. k \in old
  <2>1. old \subseteq Nat
    <3> DEFINE S == [rate : Nat, age : Nat]
    <3>1. history \in Seq(S)
      BY DEF RateHistories
    <3> HIDE DEF S
    <3> QED BY <3>1
  <2>2. old # {}
    BY <1>2
  <2> HIDE DEF old
  <2>3. \E x \in old : \A y \in old : x <= y
    BY <2>1, <2>2, LeastNumber
  <2> QED BY <2>3 DEF Min
<1>4. now \in Nat /\ ref \in Nat
  <2> DEFINE S == [rate : Nat, age : Nat]
  <2>1. history \in Seq(S) /\ \A e \in S : e.rate \in Nat
    BY DEF RateHistories
  <2> HIDE DEF S
  <2>2. k \in DOMAIN history /\ 1 \in DOMAIN history
    BY <1>3, <2>1
  <2> HIDE DEF k
  <2>3. history[1] \in S /\ history[k] \in S
    BY <2>1, <2>2
  <2> QED BY <2>1, <2>3
<1> DEFINE a == TrimRate(now)
           b == TrimRate(ref)
<1> HIDE DEF now, ref, k, old, told
<1>5. a \in Nat /\ b \in Nat \ {0} /\ 10 * a <= now /\ now < 10 * a + 10 /\ 10 * b <= ref /\ ref < 10 * b + 10
  BY <1>2, <1>4 DEF TrimRate
<1> DEFINE q == TruncDiv((a - b) * 10000, b)
           p == q * b
<1>6. change = q
  BY <1>2
<1> HIDE DEF a, b, change
<1>7. /\ q \in Int /\ p \in Int
      /\ (a - b) * 10000 >= 0 => q >= 0 /\ p <= (a - b) * 10000
      /\ (a - b) * 10000 <= 0 => q <= 0 /\ p >= (a - b) * 10000
      /\ (q >= 0 => p >= 0) /\ (q <= 0 => p <= 0)
  <2> DEFINE n == (a - b) * 10000
  <2>1. n \in Int
    BY <1>5
  <2> HIDE DEF n
  <2>2. LET e == TruncDiv(n, b) * b
         IN  /\ TruncDiv(n, b) \in Int /\ e \in Int /\ AbsInt(n - e) < b
             /\ n < 0 => n <= e /\ e <= 0
             /\ n >= 0 => 0 <= e /\ e <= n
    BY <1>5, <2>1, TruncDivides
  <2>3. (n >= 0 => TruncDiv(n, b) >= 0) /\ (n <= 0 => TruncDiv(n, b) <= 0)
    BY <1>5, <2>1, TruncSigned
  <2> DEFINE r == TruncDiv(n, b)
             e == r * b
  <2>4. r \in Int /\ e \in Int
    BY <2>2
  <2>5. /\ n >= 0 => r >= 0 /\ e <= n
        /\ n <= 0 => r <= 0 /\ e >= n
    <3>1. (n < 0 => n <= e) /\ (n >= 0 => 0 <= e /\ e <= n)
      BY <2>2
    <3>2. (n >= 0 => r >= 0) /\ (n <= 0 => r <= 0)
      BY <2>3
    <3> HIDE DEF r, e
    <3> QED BY <2>1, <2>4, <3>1, <3>2
  <2> HIDE DEF r
  <2>6. (r >= 0 => r * b >= 0) /\ (r <= 0 => r * b <= 0)
    BY <1>5, <2>4
  <2> QED BY <2>4, <2>5, <2>6 DEF n, r
<1> DEFINE thr == thresholds[u]
           m == thr * b
<1>8. thr \in Nat \ {0} /\ thr <= AbsInt(q)
  BY <1>1, <1>6
<1> HIDE DEF thr
<1>9. m \in Nat /\ m <= AbsInt(p)
  <2>1. CASE q >= 0
    <3>1. (q - thr) * b >= 0
      BY <1>5, <1>7, <1>8, <2>1 DEF AbsInt
    <3>2. (q - thr) * b = p - m
      BY <1>5, <1>7, <1>8
    <3> QED BY <1>5, <1>7, <1>8, <3>1, <3>2 DEF AbsInt
  <2>2. CASE q < 0
    <3>1. (-q - thr) * b >= 0
      BY <1>5, <1>7, <1>8, <2>2 DEF AbsInt
    <3>2. (-q - thr) * b = -p - m
      BY <1>5, <1>7, <1>8
    <3> QED BY <1>5, <1>7, <1>8, <3>1, <3>2 DEF AbsInt
  <2> QED BY <1>7, <2>1, <2>2
<1>10. thr * (ref - 10) < 10 * m
  <2>1. ref - 10 < 10 * b
    BY <1>4, <1>5
  <2>2. thr * (10 * b - (ref - 10)) > 0
    BY <1>4, <1>5, <1>8, <2>1
  <2>3. thr * (10 * b - (ref - 10)) = 10 * m - thr * (ref - 10)
    BY <1>4, <1>5, <1>8
  <2> QED BY <1>4, <1>8, <1>9, <2>2, <2>3
<1> DEFINE less == thr * (ref - 10)
<1>11. less \in Int
  BY <1>4, <1>8
<1> HIDE DEF q, p, m, less
<1>12. (q > 0) <=> (moved > 0)
  <2>1. q # 0
    BY <1>7, <1>8 DEF AbsInt
  <2> QED BY <1>4, <1>5, <1>7, <2>1
<1>13. (AbsInt(moved) + 10) * 10000 > less
  <2>1. less < 10 * m
    BY <1>10 DEF less
  <2>2. AbsInt(p) <= AbsInt(a - b) * 10000
    BY <1>5, <1>7 DEF AbsInt
  <2>3. AbsInt(a - b) * 10 < AbsInt(moved) + 10
    BY <1>4, <1>5 DEF AbsInt
  <2>4. AbsInt(p) \in Int /\ AbsInt(a - b) \in Int /\ AbsInt(moved) \in Int
    BY <1>4, <1>5, <1>7 DEF AbsInt
  <2> QED BY <1>9, <1>11, <2>1, <2>2, <2>3, <2>4
<1> QED BY <1>6, <1>12, <1>13 DEF less, thr

-----------------------------------------------------------------------------
(* Totals, analytics and periods.  Sums of numbers over finite sets: what holds   *)
(* of one is proved a member at a time (MemberByMember), of a bucketed one fibre  *)
(* by fibre (SumFibres).                                                          *)

\* Induction over a finite set, one member at a time.
LEMMA MemberByMember ==
  ASSUME NEW S, IsFiniteSet(S), NEW Good, {} \in Good,
         \A T \in SUBSET S : \A x \in T : T \ {x} \in Good => T \in Good
  PROVE  S \in Good
<1> DEFINE Bad == {T \in SUBSET S : T \notin Good}
<1> SUFFICES ASSUME Bad # {} PROVE FALSE
  OBVIOUS
<1>1. PICK T \in Bad : \A V \in Bad : V \subseteq T => V = T
  <2>1. Bad \in SUBSET SUBSET S
    OBVIOUS
  <2> HIDE DEF Bad
  <2> QED  BY <2>1, Least
<1>2. T \in SUBSET S /\ T \notin Good /\ T # {}
  OBVIOUS
<1>3. PICK x \in T : TRUE
  BY <1>2
<1>4. T \ {x} \in SUBSET S /\ T \ {x} # T
  BY <1>2, <1>3
<1>5. T \ {x} \in Good
  BY <1>1, <1>4
<1> QED  BY <1>2, <1>5

On(f, T) == [i \in T |-> f[i]]

\* The sum over a part of the domain, and over the part without a member.
LEMMA SumOn ==
  ASSUME NEW f, IsFiniteSet(DOMAIN f), IntsOn(f, DOMAIN f), NEW T \in SUBSET DOMAIN f
  PROVE  /\ SumInts(On(f, T)) \in Int
         /\ \A x \in T : f[x] \in Int /\ SumInts(On(f, T)) = SumInts(On(f, T \ {x})) + f[x]
<1>1. IsFiniteSet(T)
  BY FS_Subset
<1> DEFINE h == On(f, T)
<1>2. DOMAIN h = T /\ IntsOn(h, T)
  BY DEF On, IntsOn
<1>3. SumInts(h) \in Int
  <2> HIDE DEF h
  <2> QED  BY <1>1, <1>2, SumTyped
<1>4. ASSUME NEW x \in T
      PROVE  f[x] \in Int /\ SumInts(h) = SumInts(On(f, T \ {x})) + f[x]
  <2> DEFINE e == On(f, T \ {x})
  <2>1. DOMAIN e = T \ {x} /\ SameOn(e, h, T \ {x}) /\ h[x] = f[x] /\ f[x] \in Int
    BY DEF On, SameOn, IntsOn
  <2> HIDE DEF e, h
  <2>2. SumInts(h) = SumInts(e) + h[x]
    BY <1>1, <1>2, <2>1, SumAdd
  <2> QED  BY <2>1, <2>2 DEF e
<1> QED  BY <1>3, <1>4

\* Numbers over a finite set.
Ints(f, S) == f = [i \in S |-> f[i]] /\ IntsOn(f, S)

\* A sum of sums, of differences, of multiples.
LEMMA SumPlus ==
  ASSUME NEW S, IsFiniteSet(S), NEW f, Ints(f, S), NEW g, Ints(g, S)
  PROVE  SumInts([i \in S |-> f[i] + g[i]]) = SumInts(f) + SumInts(g)
<1> DEFINE h == [i \in S |-> f[i] + g[i]]
           Good == {T \in SUBSET S : SumInts(On(h, T)) = SumInts(On(f, T)) + SumInts(On(g, T))}
<1>1. DOMAIN h = S /\ DOMAIN f = S /\ DOMAIN g = S /\ IntsOn(h, S) /\ IntsOn(f, S) /\ IntsOn(g, S)
  BY DEF Ints, IntsOn
<1>2. {} \in Good
  <2>1. SumInts(On(h, {})) = 0 /\ SumInts(On(f, {})) = 0 /\ SumInts(On(g, {})) = 0
    BY SumNone DEF On
  <2> QED  BY <2>1
<1>3. \A x \in S : h[x] = f[x] + g[x]
  OBVIOUS
<1>4. ASSUME NEW T \in SUBSET S, NEW x \in T, T \ {x} \in Good PROVE T \in Good
  <2> HIDE DEF h
  <2>1. SumInts(On(h, T \ {x})) = SumInts(On(f, T \ {x})) + SumInts(On(g, T \ {x}))
    BY <1>4
  <2>2. /\ f[x] \in Int /\ SumInts(On(f, T)) = SumInts(On(f, T \ {x})) + f[x]
        /\ g[x] \in Int /\ SumInts(On(g, T)) = SumInts(On(g, T \ {x})) + g[x]
        /\ SumInts(On(h, T)) = SumInts(On(h, T \ {x})) + h[x]
    BY <1>1, SumOn
  <2>3. SumInts(On(f, T \ {x})) \in Int /\ SumInts(On(g, T \ {x})) \in Int
    <3>1. T \ {x} \in SUBSET S
      OBVIOUS
    <3> QED  BY <1>1, <3>1, SumOn
  <2>4. h[x] = f[x] + g[x]
    BY <1>3
  <2>5. SumInts(On(h, T)) = SumInts(On(f, T)) + SumInts(On(g, T))
    BY <2>1, <2>2, <2>3, <2>4
  <2> QED  BY <2>5
<1>5. S \in Good
  <2> HIDE DEF Good
  <2> QED  BY <1>2, <1>4, MemberByMember
<1>6. On(h, S) = h /\ On(f, S) = f /\ On(g, S) = g
  BY DEF On, Ints
<1> QED  BY <1>5, <1>6

LEMMA SumTimes ==
  ASSUME NEW S, IsFiniteSet(S), NEW f, Ints(f, S), NEW c \in Int
  PROVE  SumInts([i \in S |-> c * f[i]]) = c * SumInts(f)
<1> DEFINE h == [i \in S |-> c * f[i]]
           Good == {T \in SUBSET S : SumInts(On(h, T)) = c * SumInts(On(f, T))}
<1>1. DOMAIN h = S /\ DOMAIN f = S /\ IntsOn(h, S) /\ IntsOn(f, S)
  BY DEF Ints, IntsOn
<1>2. {} \in Good
  <2>1. SumInts(On(h, {})) = 0 /\ SumInts(On(f, {})) = 0
    BY SumNone DEF On
  <2> QED  BY <2>1
<1>3. \A x \in S : h[x] = c * f[x]
  OBVIOUS
<1>4. ASSUME NEW T \in SUBSET S, NEW x \in T, T \ {x} \in Good PROVE T \in Good
  <2> HIDE DEF h
  <2> DEFINE rest == SumInts(On(f, T \ {x}))
  <2>1. SumInts(On(h, T \ {x})) = c * rest
    BY <1>4
  <2>2. /\ f[x] \in Int /\ SumInts(On(f, T)) = rest + f[x]
        /\ SumInts(On(h, T)) = SumInts(On(h, T \ {x})) + h[x]
    BY <1>1, SumOn
  <2>3. rest \in Int
    <3>1. T \ {x} \in SUBSET S
      OBVIOUS
    <3> QED  BY <1>1, <3>1, SumOn
  <2> HIDE DEF rest
  <2>4. c * (rest + f[x]) = c * rest + c * f[x]
    BY <2>2, <2>3
  <2>5. SumInts(On(h, T)) = c * SumInts(On(f, T))
    BY <1>3, <2>1, <2>2, <2>4
  <2> QED  BY <2>5
<1>5. S \in Good
  <2> HIDE DEF Good
  <2> QED  BY <1>2, <1>4, MemberByMember
<1>6. On(h, S) = h /\ On(f, S) = f
  BY DEF On, Ints
<1> QED  BY <1>5, <1>6

\* What is nowhere greater has no greater sum.
LEMMA SumLeq ==
  ASSUME NEW S, IsFiniteSet(S), NEW f, Ints(f, S), NEW g, Ints(g, S), \A i \in S : f[i] <= g[i]
  PROVE  SumInts(f) <= SumInts(g)
<1> DEFINE Good == {T \in SUBSET S : SumInts(On(f, T)) <= SumInts(On(g, T))}
<1>1. DOMAIN f = S /\ DOMAIN g = S /\ IntsOn(f, S) /\ IntsOn(g, S)
  BY DEF Ints, IntsOn
<1>2. {} \in Good
  <2>1. SumInts(On(f, {})) = 0 /\ SumInts(On(g, {})) = 0
    BY SumNone DEF On
  <2> QED  BY <2>1
<1>4. ASSUME NEW T \in SUBSET S, NEW x \in T, T \ {x} \in Good PROVE T \in Good
  <2>1. SumInts(On(f, T \ {x})) <= SumInts(On(g, T \ {x}))
    BY <1>4
  <2>2. /\ f[x] \in Int /\ SumInts(On(f, T)) = SumInts(On(f, T \ {x})) + f[x]
        /\ g[x] \in Int /\ SumInts(On(g, T)) = SumInts(On(g, T \ {x})) + g[x]
    BY <1>1, SumOn
  <2>3. SumInts(On(f, T \ {x})) \in Int /\ SumInts(On(g, T \ {x})) \in Int
    <3>1. T \ {x} \in SUBSET S
      OBVIOUS
    <3> QED  BY <1>1, <3>1, SumOn
  <2>5. SumInts(On(f, T)) <= SumInts(On(g, T))
    BY <2>1, <2>2, <2>3
  <2> QED  BY <2>5
<1>5. S \in Good
  <2> HIDE DEF Good
  <2> QED  BY <1>2, <1>4, MemberByMember
<1>6. On(f, S) = f /\ On(g, S) = g
  BY DEF On, Ints
<1> QED  BY <1>5, <1>6

\* What is 0 does not count.
LEMMA SumZeros ==
  ASSUME NEW S, IsFiniteSet(S), NEW f, Ints(f, S), NEW P \in SUBSET S, \A i \in S \ P : f[i] = 0
  PROVE  SumInts(f) = SumInts(On(f, P))
<1> DEFINE Good == {T \in SUBSET S : SumInts(On(f, T)) = SumInts(On(f, T \cap P))}
<1>1. DOMAIN f = S /\ IntsOn(f, S)
  BY DEF Ints, IntsOn
<1>2. {} \in Good
  <2>1. {} \cap P = {}
    OBVIOUS
  <2> QED  BY <2>1
<1>4. ASSUME NEW T \in SUBSET S, NEW x \in T, T \ {x} \in Good PROVE T \in Good
  <2>1. SumInts(On(f, T \ {x})) = SumInts(On(f, (T \ {x}) \cap P))
    BY <1>4
  <2>2. f[x] \in Int /\ SumInts(On(f, T)) = SumInts(On(f, T \ {x})) + f[x]
    BY <1>1, SumOn
  <2>3. CASE x \in P
    <3>1. (T \ {x}) \cap P = (T \cap P) \ {x} /\ T \cap P \in SUBSET S /\ x \in T \cap P
      BY <2>3
    <3>2. SumInts(On(f, T \cap P)) = SumInts(On(f, (T \cap P) \ {x})) + f[x]
      BY <1>1, <3>1, SumOn
    <3>3. SumInts(On(f, T)) = SumInts(On(f, T \cap P))
      BY <2>1, <2>2, <3>1, <3>2
    <3> QED  BY <3>3
  <2>4. CASE x \notin P
    <3>1. (T \ {x}) \cap P = T \cap P /\ f[x] = 0
      BY <2>4
    <3>2. SumInts(On(f, T \ {x})) \in Int
      <4>1. T \ {x} \in SUBSET S
        OBVIOUS
      <4> QED  BY <1>1, <4>1, SumOn
    <3>3. SumInts(On(f, T)) = SumInts(On(f, T \ {x}))
      BY <2>2, <3>1, <3>2
    <3>4. SumInts(On(f, T)) = SumInts(On(f, T \cap P))
      BY <2>1, <3>1, <3>3
    <3> QED  BY <3>4
  <2> QED  BY <2>3, <2>4
<1>5. S \in Good
  <2> HIDE DEF Good
  <2> QED  BY <1>2, <1>4, MemberByMember
<1>6. On(f, S) = f /\ S \cap P = P
  BY DEF On, Ints
<1> QED  BY <1>5, <1>6

\* A sum of ones counts.
LEMMA SumOnes ==
  ASSUME NEW S, IsFiniteSet(S)
  PROVE  SumInts([i \in S |-> 1]) = Cardinality(S) /\ Cardinality(S) \in Nat
<1> DEFINE f == [i \in S |-> 1]
           Good == {T \in SUBSET S : SumInts(On(f, T)) = Cardinality(T)}
<1>1. DOMAIN f = S /\ IntsOn(f, S)
  BY DEF IntsOn
<1>2. {} \in Good
  <2>1. SumInts(On(f, {})) = 0 /\ Cardinality({}) = 0
    BY SumNone, FS_EmptySet DEF On
  <2> QED  BY <2>1
<1>3. \A x \in S : f[x] = 1
  OBVIOUS
<1>4. ASSUME NEW T \in SUBSET S, NEW x \in T, T \ {x} \in Good PROVE T \in Good
  <2> HIDE DEF f
  <2>1. SumInts(On(f, T \ {x})) = Cardinality(T \ {x})
    BY <1>4
  <2>2. SumInts(On(f, T)) = SumInts(On(f, T \ {x})) + f[x] /\ f[x] = 1
    BY <1>1, <1>3, SumOn
  <2>3. IsFiniteSet(T)
    BY FS_Subset
  <2>4. Cardinality(T \ {x}) = Cardinality(T) - 1 /\ Cardinality(T) \in Nat
    BY <2>3, FS_RemoveElement, FS_CardinalityType
  <2>5. SumInts(On(f, T)) = Cardinality(T)
    BY <2>1, <2>2, <2>4
  <2> QED  BY <2>5
<1>5. S \in Good
  <2> HIDE DEF Good
  <2> QED  BY <1>2, <1>4, MemberByMember
<1>6. On(f, S) = f
  BY DEF On
<1> QED  BY <1>5, <1>6, FS_CardinalityType

\* What part of a whole comes to no more than the whole, if nothing is negative.
LEMMA SumPart ==
  ASSUME NEW S, IsFiniteSet(S), NEW f, Ints(f, S), NEW P \in SUBSET S, \A i \in S : f[i] >= 0
  PROVE  0 <= SumInts(On(f, P)) /\ SumInts(On(f, P)) <= SumInts(f)
<1> DEFINE g == [i \in S |-> IF i \in P THEN f[i] ELSE 0]
           z == [i \in S |-> 0]
<1>1. Ints(g, S) /\ Ints(z, S) /\ \A i \in S : 0 <= g[i] /\ g[i] <= f[i]
  BY DEF Ints, IntsOn
<1>2. \A i \in S \ P : g[i] = 0
  OBVIOUS
<1>3. On(g, P) = On(f, P)
  BY DEF On
<1>4. SumInts(g) = SumInts(On(f, P))
  <2> HIDE DEF g
  <2> QED  BY <1>1, <1>2, <1>3, SumZeros
<1>5. SumInts(z) = 0
  <2>1. SumInts(z) = SumInts(On(z, {})) /\ DOMAIN On(z, {}) = {}
    <3>1. \A i \in S \ {} : z[i] = 0
      OBVIOUS
    <3> HIDE DEF z
    <3>2. SumInts(z) = SumInts(On(z, {}))
      BY <1>1, <3>1, SumZeros
    <3> QED  BY <3>2 DEF On
  <2> QED  BY <2>1, SumNone
<1>6. \A i \in S : z[i] <= g[i]
  BY <1>1
<1> HIDE DEF g, z
<1>7. SumInts(z) <= SumInts(g) /\ SumInts(g) <= SumInts(f)
  BY <1>1, <1>6, SumLeq
<1> QED  BY <1>4, <1>5, <1>7

\* A sum grows by what one of its values does.
LEMMA SumBump ==
  ASSUME NEW B, IsFiniteSet(B), NEW c \in B, NEW v \in Int, NEW g, Ints(g, B), NEW h, Ints(h, B),
         h[c] = g[c] + v, \A b \in B \ {c} : h[b] = g[b]
  PROVE  SumInts(h) = SumInts(g) + v
<1>1. DOMAIN g = B /\ DOMAIN h = B /\ IntsOn(g, B) /\ IntsOn(h, B) /\ On(g, B) = g /\ On(h, B) = h
  BY DEF Ints, On
<1>2. On(h, B \ {c}) = On(g, B \ {c})
  BY DEF On
<1> DEFINE rest == SumInts(On(g, B \ {c}))
<1>3. /\ g[c] \in Int /\ SumInts(g) = rest + g[c] /\ SumInts(h) = rest + h[c]
  <2>1. B \in SUBSET B
    OBVIOUS
  <2>2. /\ g[c] \in Int /\ SumInts(On(g, B)) = rest + g[c]
        /\ SumInts(On(h, B)) = SumInts(On(h, B \ {c})) + h[c]
    BY <1>1, <2>1, SumOn
  <2> QED  BY <1>1, <1>2, <2>2
<1>4. rest \in Int
  <2>1. B \ {c} \in SUBSET B
    OBVIOUS
  <2> QED  BY <1>1, <2>1, SumOn
<1> HIDE DEF rest
<1> QED  BY <1>3, <1>4

\* The members of T that k sends to b.
Sent(k, T, b) == {i \in T : k[i] = b}

\* The sums of the fibres of a function add up to the sum of the whole.
LEMMA SumFibres ==
  ASSUME NEW S, IsFiniteSet(S), NEW B, IsFiniteSet(B), NEW k \in [S -> B], NEW f, Ints(f, S)
  PROVE  /\ SumInts([b \in B |-> SumInts(On(f, Sent(k, S, b)))]) = SumInts(f)
         /\ \A b \in B : SumInts(On(f, Sent(k, S, b))) \in Int
<1> DEFINE Of(T) == [b \in B |-> SumInts(On(f, Sent(k, T, b)))]
           Good == {T \in SUBSET S : SumInts(Of(T)) = SumInts(On(f, T))}
<1>1. DOMAIN f = S /\ IntsOn(f, S)
  BY DEF Ints, IntsOn
<1>0. ASSUME NEW T \in SUBSET S PROVE Ints(Of(T), B)
  <2>1. ASSUME NEW b \in B PROVE SumInts(On(f, Sent(k, T, b))) \in Int
    <3>1. Sent(k, T, b) \in SUBSET S
      BY DEF Sent
    <3> QED  BY <1>1, <3>1, SumOn
  <2> QED  BY <2>1 DEF Ints, IntsOn
<1>2. {} \in Good
  <2> DEFINE z == Of({})
  <2>1. \A b \in B : z[b] = 0
    <3>1. \A b \in B : DOMAIN On(f, Sent(k, {}, b)) = {}
      BY DEF On, Sent
    <3>2. \A b \in B : SumInts(On(f, Sent(k, {}, b))) = 0
      BY <3>1, SumNone
    <3> QED  BY <3>2
  <2>2. Ints(z, B)
    BY <1>0
  <2>3. \A b \in B \ {} : z[b] = 0
    BY <2>1
  <2> HIDE DEF z
  <2>4. SumInts(z) = SumInts(On(z, {}))
    BY <2>2, <2>3, SumZeros
  <2>5. SumInts(On(z, {})) = 0 /\ SumInts(On(f, {})) = 0
    BY SumNone DEF On
  <2> QED  BY <2>4, <2>5 DEF z
<1>3. ASSUME NEW T \in SUBSET S, NEW x \in T, T \ {x} \in Good PROVE T \in Good
  <2> DEFINE g == Of(T \ {x})
             h == Of(T)
             c == k[x]
  <2>1. T \ {x} \in SUBSET S /\ c \in B /\ SumInts(g) = SumInts(On(f, T \ {x}))
    BY <1>3
  <2>2. Ints(g, B) /\ Ints(h, B)
    BY <1>0, <2>1
  <2>3. f[x] \in Int /\ SumInts(On(f, T)) = SumInts(On(f, T \ {x})) + f[x]
    BY <1>1, SumOn
  <2>4. h[c] = g[c] + f[x]
    <3>1. /\ x \in Sent(k, T, c) /\ Sent(k, T, c) \in SUBSET S
          /\ Sent(k, T \ {x}, c) = Sent(k, T, c) \ {x}
      BY DEF Sent
    <3>2. SumInts(On(f, Sent(k, T, c))) = SumInts(On(f, Sent(k, T, c) \ {x})) + f[x]
      BY <1>1, <3>1, SumOn
    <3> QED  BY <2>1, <3>1, <3>2
  <2>5. \A b \in B \ {c} : h[b] = g[b]
    <3>1. \A b \in B \ {c} : Sent(k, T \ {x}, b) = Sent(k, T, b)
      BY DEF Sent
    <3> QED  BY <3>1
  <2> HIDE DEF g, h, c
  <2>6. SumInts(h) = SumInts(g) + f[x]
    BY <2>1, <2>2, <2>3, <2>4, <2>5, SumBump
  <2>7. SumInts(h) = SumInts(On(f, T))
    BY <2>1, <2>3, <2>6
  <2> QED  BY <2>7 DEF h
<1>4. S \in Good
  <2> HIDE DEF Good
  <2> QED  BY <1>2, <1>3, MemberByMember
<1>5. On(f, S) = f
  BY DEF On, Ints
<1>6. \A b \in B : SumInts(On(f, Sent(k, S, b))) \in Int
  <2>1. \A b \in B : Sent(k, S, b) \in SUBSET S
    BY DEF Sent
  <2> QED  BY <1>1, <2>1, SumOn
<1> QED  BY <1>4, <1>5, <1>6

\* One share, of a whole that is not nothing.
ShareOf(share, part, total) ==
    /\ share \in Nat /\ total * share <= 10000 * part
    /\ 10000 * part <= total * share + (total - 1)

LEMMA ShareIs ==
  ASSUME NEW part \in Nat, NEW total \in Nat \ {0}, part <= total
  PROVE  ShareOf(ShareBps(part, total), part, total)
<1> DEFINE q == TruncDiv(part * 10000, total)
           p == q * total
           n == part * 10000
<1>1. n \in Nat /\ n <= 10000 * total
  OBVIOUS
<1> HIDE DEF n
<1>2. q \in Int /\ p \in Int /\ AbsInt(n - p) < total /\ 0 <= p /\ p <= n /\ q >= 0
  <2>1. n \in Int /\ n >= 0
    BY <1>1
  <2> QED  BY <2>1, TruncDivides, TruncSigned DEF n
<1>3. q <= 10000
  <2>1. q >= 10001 => p >= 10001 * total
    <3>1. (q - 10001) * total = p - 10001 * total
      BY <1>2
    <3>2. q >= 10001 => (q - 10001) * total >= 0
      BY <1>2
    <3> QED  BY <1>2, <3>1, <3>2
  <2> HIDE DEF q, p
  <2> QED  BY <1>1, <1>2, <2>1
<1>4. ShareBps(part, total) = q
  <2>1. ShareBps(part, total) = MaxInt(0, MinInt(10000, q))
    BY DEF ShareBps
  <2> HIDE DEF q, p
  <2> QED  BY <1>2, <1>3, <2>1 DEF MaxInt, MinInt
<1>5. total * q = p
  BY <1>2
<1> HIDE DEF q, p
<1>6. total * q <= n /\ n <= total * q + (total - 1)
  BY <1>1, <1>2, <1>5 DEF AbsInt
<1> QED  BY <1>2, <1>4, <1>6 DEF n, ShareOf

\* A part is no greater than the whole, if nothing is negative.
LEMMA SumMember ==
  ASSUME NEW S, IsFiniteSet(S), NEW f, Ints(f, S), \A i \in S : f[i] >= 0
  PROVE  SumInts(f) \in Nat /\ \A i \in S : f[i] \in Nat /\ f[i] <= SumInts(f)
<1> DEFINE total == SumInts(f)
<1>1. DOMAIN f = S /\ IntsOn(f, S)
  BY DEF Ints, IntsOn
<1>2. total \in Int
  BY <1>1, SumTyped
<1>3. {} \in SUBSET S /\ DOMAIN On(f, {}) = {}
  BY DEF On
<1>4. total >= 0
  <2>1. 0 <= SumInts(On(f, {})) /\ SumInts(On(f, {})) <= SumInts(f)
    BY <1>3, SumPart
  <2>2. SumInts(On(f, {})) = 0
    BY <1>3, SumNone
  <2> QED  BY <2>1, <2>2
<1>5. ASSUME NEW i \in S PROVE f[i] \in Nat /\ f[i] <= total
  <2>1. {i} \in SUBSET S /\ DOMAIN On(f, {}) = {} /\ {i} \ {i} = {}
    BY DEF On
  <2>2. f[i] \in Int /\ SumInts(On(f, {i})) = SumInts(On(f, {})) + f[i]
    BY <1>1, <2>1, SumOn
  <2>3. SumInts(On(f, {})) = 0
    BY <2>1, SumNone
  <2>4. SumInts(On(f, {i})) <= SumInts(f)
    BY <2>1, SumPart
  <2> QED  BY <2>2, <2>3, <2>4
<1> QED  BY <1>2, <1>4, <1>5

\* The shares of the parts of a whole never exceed it, and lose less than one basis point
\* each.
LEMMA SharesWhole ==
  ASSUME NEW S, IsFiniteSet(S), NEW f, Ints(f, S), \A i \in S : f[i] >= 0
  PROVE  LET total  == SumInts(f)
             shares == SumInts([i \in S |-> ShareBps(f[i], total)])
         IN  /\ shares \in Nat /\ shares <= 10000
             /\ total > 0 => shares >= 10000 - Cardinality(S)
<1> DEFINE total == SumInts(f)
           s == [i \in S |-> ShareBps(f[i], total)]
           shares == SumInts(s)
<1>1. total \in Nat /\ \A i \in S : f[i] \in Nat /\ f[i] <= total
  BY SumMember
<1>2. CASE total = 0
  <2>1. s = [i \in S |-> 0]
    BY <1>2 DEF ShareBps
  <2>2. shares = 0
    <3>1. Ints(s, S) /\ \A i \in S \ {} : s[i] = 0
      BY <2>1 DEF Ints, IntsOn
    <3> HIDE DEF s
    <3>2. {} \in SUBSET S /\ DOMAIN On(s, {}) = {}
      BY DEF On
    <3>3. SumInts(s) = SumInts(On(s, {}))
      BY <3>1, <3>2, SumZeros
    <3> QED  BY <3>2, <3>3, SumNone
  <2> HIDE DEF total, s, shares
  <2>3. shares \in Nat /\ shares <= 10000 /\ (total > 0 => shares >= 10000 - Cardinality(S))
    BY <1>2, <2>2
  <2> QED  BY <2>3 DEF total, s, shares
<1>3. CASE total # 0
  <2>1. ASSUME NEW i \in S
        PROVE  /\ s[i] \in Nat /\ total * s[i] <= 10000 * f[i]
               /\ 10000 * f[i] <= total * s[i] + (total - 1)
    <3> HIDE DEF total
    <3>1. total \in Nat \ {0} /\ f[i] \in Nat /\ f[i] <= total
      BY <1>1, <1>3
    <3>2. ShareOf(ShareBps(f[i], total), f[i], total)
      BY <3>1, ShareIs
    <3>3. s[i] = ShareBps(f[i], total)
      OBVIOUS
    <3> HIDE DEF s
    <3> QED  BY <3>2, <3>3 DEF ShareOf
  <2> HIDE DEF total, s
  <2>2. s = [i \in S |-> s[i]]
    BY DEF s
  <2>3. Ints(s, S)
    BY <2>1, <2>2 DEF Ints, IntsOn
  <2> DEFINE times == [i \in S |-> total * s[i]]
             whole == [i \in S |-> 10000 * f[i]]
             ones  == [i \in S |-> 1]
             slack == [i \in S |-> (total - 1) * ones[i]]
             upper == [i \in S |-> times[i] + slack[i]]
  <2>4. Ints(times, S) /\ Ints(whole, S) /\ Ints(ones, S) /\ Ints(slack, S) /\ Ints(upper, S)
    BY <1>1, <2>1 DEF Ints, IntsOn
  <2>5. /\ SumInts(times) = total * shares
        /\ SumInts(whole) = 10000 * SumInts(f)
    <3>1. total \in Int /\ 10000 \in Int
      BY <1>1
    <3>2. SumInts(times) = total * SumInts(s)
      BY <2>3, <3>1, SumTimes
    <3>3. SumInts(whole) = 10000 * SumInts(f)
      BY <3>1, SumTimes
    <3> QED  BY <3>2, <3>3
  <2>6. SumInts(slack) = (total - 1) * Cardinality(S) /\ Cardinality(S) \in Nat
    <3>1. SumInts(ones) = Cardinality(S) /\ Cardinality(S) \in Nat
      BY SumOnes
    <3>2. total - 1 \in Int /\ Ints(ones, S)
      BY <1>1, <2>4
    <3> HIDE DEF ones
    <3>3. SumInts(slack) = (total - 1) * SumInts(ones)
      BY <3>2, SumTimes
    <3> QED  BY <3>1, <3>3
  <2>7. SumInts(upper) = SumInts(times) + SumInts(slack)
    <3> HIDE DEF times, slack
    <3> QED  BY <2>4, SumPlus
  <2>8. \A i \in S : times[i] <= whole[i] /\ whole[i] <= upper[i]
    BY <1>1, <2>1
  <2>9. SumInts(times) <= SumInts(whole) /\ SumInts(whole) <= SumInts(upper)
    <3> HIDE DEF times, whole, upper
    <3> QED  BY <2>4, <2>8, SumLeq
  <2>10. shares >= 0 /\ shares \in Int
    <3>1. DOMAIN s = S /\ IntsOn(s, S) /\ \A i \in S : s[i] >= 0
      BY <2>1, <2>2 DEF IntsOn
    <3>2. {} \in SUBSET S /\ DOMAIN On(s, {}) = {}
      BY DEF On
    <3>3. 0 <= SumInts(On(s, {})) /\ SumInts(On(s, {})) <= SumInts(s)
      BY <2>3, <3>1, <3>2, SumPart
    <3>4. SumInts(On(s, {})) = 0 /\ SumInts(s) \in Int
      BY <3>1, <3>2, SumNone, SumTyped
    <3> QED  BY <3>3, <3>4
  <2> DEFINE n == Cardinality(S)
  <2> HIDE DEF shares, n
  <2>11. /\ total * shares <= 10000 * total
         /\ 10000 * total <= total * shares + (total - 1) * n
    <3>1. SumInts(f) = total
      BY DEF total
    <3> QED  BY <2>5, <2>6, <2>7, <2>9, <3>1 DEF n
  <2>12. n \in Nat
    BY <2>6 DEF n
  <2>13. shares <= 10000
    <3>1. (shares - 10000) * total = total * shares - 10000 * total
      BY <1>1, <2>10
    <3>2. shares - 10000 >= 1 => (shares - 10000) * total >= total
      BY <1>1, <2>10
    <3> QED  BY <1>1, <1>3, <2>10, <2>11, <3>1, <3>2
  <2>14. shares >= 10000 - n
    <3>1. (total - 1) * n <= total * n
      BY <1>1, <2>12
    <3>2. (10000 - shares - n) * total = 10000 * total - total * shares - total * n
      BY <1>1, <2>10, <2>12
    <3>3. 10000 - shares - n >= 1 => (10000 - shares - n) * total >= total
      BY <1>1, <2>10, <2>12
    <3> QED  BY <1>1, <1>3, <2>10, <2>11, <2>12, <3>1, <3>2, <3>3
  <2> QED  BY <2>10, <2>13, <2>14 DEF shares, s, total, n
<1> QED  BY <1>2, <1>3

Rate0 == (Nat \ {0}) \cup {Null}

\* Whatever is held, priced, in cash and convertible: a portfolio total is shown only if
\* nothing is missing from it, and the shares of the assets never exceed the whole and
\* lose less than one basis point each (PortfolioService.summary, WalletsService.detail).
THEOREM TotalsAreWhole ==
  ASSUME NEW assets, IsFiniteSet(assets), NEW raw \in [assets -> Nat],
         NEW prices, \A a \in assets : prices[a].age \in Ages /\ prices[a].usd \in Nat \ {0},
         NEW cash, cash.USD \in Int, cash.ILS \in Int,
         NEW fx, \A a \in assets : fx[a] \in Rate0,
         fx.USD \in Rate0, fx.ILS \in Rate0, fx.stale \in BOOLEAN,
         NEW policy, policy.maxStaleness \in Nat
  PROVE  TotalIsWhole(raw, prices, cash, fx, policy)
<1> DEFINE held == {a \in assets : raw[a] # 0}
           Usd(a) == ValueToken(raw[a], prices[a], policy)
           Ils(a) == Convert(Usd(a), fx[a])
           Valued(a) == raw[a] * prices[a].usd
           known == {a \in held : Usd(a) # Null}
           crypto == SumInts([a \in known |-> Usd(a)])
           s == Summary(raw, prices, cash, fx, policy)
           V == [a \in held |-> IF Usd(a) = Null THEN 0 ELSE Usd(a)]
           CashUsd == IF fx.ILS = Null THEN Null ELSE cash.ILS \div fx.ILS
           CashIls == Convert(cash.USD, fx.USD)
           Partial == \/ \E a \in held : Usd(a) = Null \/ Ils(a) = Null
                      \/ cash.ILS # 0 /\ CashUsd = Null
                      \/ cash.USD # 0 /\ CashIls = Null
                      \/ fx.rate = Null \/ fx.stale
<1>0. DOMAIN raw = assets
  OBVIOUS
<1>1. ASSUME NEW a \in held
      PROVE  /\ Valued(a) \in Nat \ {0}
             /\ Usd(a) = IF prices[a].age = Null \/ prices[a].age > policy.maxStaleness THEN Null
                         ELSE Valued(a)
  BY DEF ValueToken
<1>2. ASSUME NEW a \in held, Usd(a) # Null
      PROVE  /\ Usd(a) = Valued(a) /\ prices[a].age # Null /\ prices[a].age <= policy.maxStaleness
  BY <1>1, <1>2 DEF Ages
<1>3. ASSUME NEW a \in held, Ils(a) # Null
      PROVE  fx[a] # Null /\ Ils(a) = Usd(a) * fx[a]
  BY <1>3 DEF Convert
<1>4. /\ s.partial = Partial
      /\ s.totalUsd = IF Partial THEN Null ELSE crypto + cash.USD + (IF CashUsd = Null THEN 0 ELSE CashUsd)
      /\ s.totalIls = IF Partial THEN Null
           ELSE SumInts([a \in {i \in held : Ils(i) # Null} |-> Ils(a)]) + cash.ILS
                  + (IF CashIls = Null THEN 0 ELSE CashIls)
      /\ s.shares = [a \in held |-> ShareBps(IF Usd(a) = Null THEN 0 ELSE Usd(a), crypto)]
  BY <1>0 DEF Summary, Sum, Known
<1>5. crypto = SumInts(V) /\ Ints(V, held) /\ \A a \in held : V[a] >= 0
  <2>1. Ints(V, held) /\ \A a \in held : V[a] >= 0
    BY <1>1, <1>2 DEF Ints, IntsOn
  <2>2. On(V, known) = [a \in known |-> Usd(a)]
    BY DEF On
  <2>3. known \in SUBSET held /\ \A a \in held \ known : V[a] = 0
    OBVIOUS
  <2>4. IsFiniteSet(held)
    BY FS_Subset
  <2> HIDE DEF V, known, held
  <2>5. SumInts(V) = SumInts(On(V, known))
    BY <2>1, <2>3, <2>4, SumZeros
  <2> QED  BY <2>1, <2>2, <2>5
<1>6. s.shares = [a \in held |-> ShareBps(V[a], crypto)]
  BY <1>4
<1>7. IsFiniteSet(held) /\ held \in SUBSET assets
  BY FS_Subset
<1>8. SumInts(s.shares) <= 10000 /\ (crypto > 0 => SumInts(s.shares) >= 10000 - Cardinality(held))
  <2> DEFINE total == SumInts(V)
             part == SumInts([a \in held |-> ShareBps(V[a], total)])
  <2>1. part \in Nat /\ part <= 10000 /\ (total > 0 => part >= 10000 - Cardinality(held))
    <3> HIDE DEF held, V
    <3> QED  BY <1>5, <1>7, SharesWhole
  <2>2. part = SumInts(s.shares) /\ total = crypto
    <3> HIDE DEF held, V, s, crypto
    <3> QED  BY <1>5, <1>6
  <2> HIDE DEF part, total, s, crypto
  <2> QED  BY <2>1, <2>2
<1>9. ~Partial /\ held # {} => crypto > 0
  <2> SUFFICES ASSUME ~Partial, held # {} PROVE crypto > 0
    OBVIOUS
  <2>1. PICK a \in held : Usd(a) # Null
    OBVIOUS
  <2>2. V[a] \in Nat \ {0}
    BY <1>1, <1>2, <2>1
  <2>3. crypto \in Nat /\ V[a] <= crypto
    <3> HIDE DEF V, held, crypto
    <3> QED  BY <1>5, <1>7, SumMember
  <2> HIDE DEF V, crypto
  <2> QED  BY <2>2, <2>3
<1>10. ASSUME s.totalUsd # Null
       PROVE  /\ \A a \in held : /\ prices[a].age # Null /\ prices[a].age <= policy.maxStaleness
                                 /\ fx[a] # Null
              /\ s.totalUsd = SumInts([a \in held |-> Valued(a)]) + cash.USD
                               + (IF cash.ILS = 0 THEN 0 ELSE cash.ILS \div fx.ILS)
              /\ s.totalIls = SumInts([a \in held |-> Valued(a) * fx[a]]) + cash.ILS
                               + (IF cash.USD = 0 THEN 0 ELSE cash.USD * fx.USD)
  <2>1. ~Partial
    BY <1>4, <1>10
  <2>2. ASSUME NEW a \in held
        PROVE  /\ Usd(a) = Valued(a) /\ prices[a].age # Null /\ prices[a].age <= policy.maxStaleness
               /\ fx[a] # Null /\ Ils(a) = Valued(a) * fx[a] /\ Usd(a) # Null /\ Ils(a) # Null
    BY <1>2, <1>3, <2>1
  <2>3. known = held /\ {i \in held : Ils(i) # Null} = held
    BY <2>2
  <2>4. crypto = SumInts([a \in held |-> Valued(a)])
    BY <2>2, <2>3
  <2>5. [a \in {i \in held : Ils(i) # Null} |-> Ils(a)] = [a \in held |-> Valued(a) * fx[a]]
    BY <2>2, <2>3
  <2>6. (IF CashUsd = Null THEN 0 ELSE CashUsd) = IF cash.ILS = 0 THEN 0 ELSE cash.ILS \div fx.ILS
    <3>1. cash.ILS = 0 => CashUsd \in {0, Null}
      BY SMT DEF Rate0, Null
    <3> QED  BY <2>1, <3>1
  <2>7. (IF CashIls = Null THEN 0 ELSE CashIls) = IF cash.USD = 0 THEN 0 ELSE cash.USD * fx.USD
    <3>1. cash.USD = 0 => CashIls \in {0, Null}
      BY DEF Convert, Rate0, Null
    <3>2. CashIls # Null => CashIls = cash.USD * fx.USD
      BY DEF Convert
    <3> QED  BY <2>1, <3>1, <3>2
  <2>8. /\ s.totalUsd = crypto + cash.USD + (IF CashUsd = Null THEN 0 ELSE CashUsd)
        /\ s.totalIls = SumInts([a \in {i \in held : Ils(i) # Null} |-> Ils(a)]) + cash.ILS
                  + (IF CashIls = Null THEN 0 ELSE CashIls)
    BY <1>4, <2>1
  <2> HIDE DEF s, crypto, CashUsd, CashIls, Ils
  <2>9. s.totalUsd = SumInts([a \in held |-> Valued(a)]) + cash.USD
                               + (IF cash.ILS = 0 THEN 0 ELSE cash.ILS \div fx.ILS)
    BY <2>4, <2>6, <2>8
  <2>10. s.totalIls = SumInts([a \in held |-> Valued(a) * fx[a]]) + cash.ILS
                               + (IF cash.USD = 0 THEN 0 ELSE cash.USD * fx.USD)
    BY <2>5, <2>7, <2>8
  <2> QED  BY <2>2, <2>9, <2>10
<1>11. WalletDetail(raw, prices, policy) # Null =>
          \A a \in held : prices[a].age # Null /\ prices[a].age <= policy.maxStaleness
  <2>1. ASSUME WalletDetail(raw, prices, policy) # Null, NEW a \in held PROVE Usd(a) # Null
    BY <1>0, <2>1 DEF WalletDetail
  <2> QED  BY <1>2, <2>1
<1>12. s.shares = [a \in held |-> s.shares[a]]
  BY <1>6
<1> HIDE DEF s, crypto
<1> QED  BY <1>0, <1>4, <1>8, <1>9, <1>10, <1>11, <1>12 DEF TotalIsWhole, Sum, s

-----------------------------------------------------------------------------
\* The values of a function on a finite set are finitely many.
LEMMA FinitelyMany ==
  ASSUME NEW S, IsFiniteSet(S), NEW k, k = [i \in S |-> k[i]]
  PROVE  IsFiniteSet({k[i] : i \in S})
<1> DEFINE Good == {T \in SUBSET S : IsFiniteSet({k[i] : i \in T})}
<1>1. {} \in Good
  <2>1. {k[i] : i \in {}} = {}
    OBVIOUS
  <2> QED  BY <2>1, FS_EmptySet
<1>2. ASSUME NEW T \in SUBSET S, NEW x \in T, T \ {x} \in Good PROVE T \in Good
  <2>1. {k[i] : i \in T} = {k[i] : i \in T \ {x}} \cup {k[x]}
    OBVIOUS
  <2>2. IsFiniteSet({k[i] : i \in T \ {x}} \cup {k[x]})
    BY <1>2, FS_AddElement
  <2> QED  BY <2>1, <2>2
<1>3. S \in Good
  <2> HIDE DEF Good
  <2> QED  BY <1>1, <1>2, MemberByMember
<1> QED  BY <1>3

\* Finitely many numbers have a greatest.
LEMMA GreatestOf ==
  ASSUME NEW S, IsFiniteSet(S), S # {}, NEW f, \A i \in S : f[i] \in Int
  PROVE  \E m \in S : \A i \in S : f[i] <= f[m]
<1> DEFINE Good == {T \in SUBSET S : T = {} \/ \E m \in T : \A i \in T : f[i] <= f[m]}
<1>1. {} \in Good
  OBVIOUS
<1>2. ASSUME NEW T \in SUBSET S, NEW x \in T, T \ {x} \in Good PROVE T \in Good
  <2>1. CASE T \ {x} = {}
    <3>1. \A i \in T : i = x
      BY <2>1
    <3> QED  BY <3>1
  <2>2. CASE T \ {x} # {}
    <3>1. PICK m \in T \ {x} : \A i \in T \ {x} : f[i] <= f[m]
      BY <1>2, <2>2
    <3>2. f[x] \in Int /\ f[m] \in Int /\ \A i \in T : f[i] \in Int
      OBVIOUS
    <3>3. CASE f[x] <= f[m]
      BY <3>1, <3>3
    <3>4. CASE ~ (f[x] <= f[m])
      <4>1. \A i \in T : f[i] <= f[x]
        BY <3>1, <3>2, <3>4
      <4> QED  BY <4>1
    <3> QED  BY <3>3, <3>4
  <2> QED  BY <2>1, <2>2
<1>3. S \in Good
  <2> HIDE DEF Good
  <2> QED  BY <1>1, <1>2, MemberByMember
<1> QED  BY <1>3

\* The n members of S with the greatest values.
Top(K, S, f, n) ==
    K \in SUBSET S /\ Cardinality(K) = n /\ \A k \in K, c \in S \ K : f[k] >= f[c]

LEMMA TopExists ==
  ASSUME NEW S, IsFiniteSet(S), NEW f, \A i \in S : f[i] \in Int, NEW n \in 0..Cardinality(S)
  PROVE  \E K : Top(K, S, f, n)
<1> DEFINE Bad == {j \in 0..Cardinality(S) : ~ \E K : Top(K, S, f, j)}
<1>0. Cardinality(S) \in Nat
  BY FS_CardinalityType
<1> SUFFICES ASSUME Bad # {} PROVE FALSE
  OBVIOUS
<1>1. PICK j \in Bad : \A i \in Bad : j <= i
  <2>1. Bad \subseteq Nat
    OBVIOUS
  <2> HIDE DEF Bad
  <2> QED  BY <2>1, LeastNumber
<1>2. j \in 0..Cardinality(S) /\ ~ \E K : Top(K, S, f, j)
  OBVIOUS
<1>3. j # 0
  <2>1. Top({}, S, f, 0)
    BY FS_EmptySet DEF Top
  <2> QED  BY <1>2, <2>1
<1>4. PICK K : Top(K, S, f, j - 1)
  <2>1. j - 1 \in 0..Cardinality(S) /\ ~ (j <= j - 1)
    BY <1>0, <1>2, <1>3
  <2>2. j - 1 \notin Bad
    <3> HIDE DEF Bad
    <3> QED  BY <1>1, <2>1
  <2> QED  BY <2>1, <2>2
<1>5. K \in SUBSET S /\ Cardinality(K) = j - 1 /\ IsFiniteSet(K) /\ IsFiniteSet(S \ K)
  <2>1. K \in SUBSET S /\ Cardinality(K) = j - 1
    BY <1>4 DEF Top
  <2> QED  BY <2>1, FS_Subset
<1>6. S \ K # {}
  BY <1>0, <1>2, <1>5
<1>7. PICK m \in S \ K : \A i \in S \ K : f[i] <= f[m]
  BY <1>5, <1>6, GreatestOf
<1>8. Cardinality(K \cup {m}) = j
  <2>1. Cardinality(K \cup {m}) = Cardinality(K) + 1
    BY <1>5, <1>7, FS_AddElement
  <2> QED  BY <1>0, <1>2, <1>5, <2>1
<1>9. \A k \in K \cup {m}, c \in S \ (K \cup {m}) : f[k] >= f[c]
  <2>1. \A c \in S \ K : f[m] >= f[c] /\ \A k \in K : f[k] >= f[c]
    BY <1>4, <1>7 DEF Top
  <2> QED  BY <2>1
<1>10. Top(K \cup {m}, S, f, j)
  BY <1>5, <1>8, <1>9 DEF Top
<1> QED  BY <1>2, <1>10

-----------------------------------------------------------------------------
\* Rows of a period, whichever.
PeriodRows(rows) ==
    /\ IsFiniteSet(DOMAIN rows)
    /\ \A i \in DOMAIN rows : /\ rows[i].direction \in {"in", "out"} /\ rows[i].value \in Int
                              /\ rows[i].at \in Int /\ rows[i].counts \in BOOLEAN

\* What came in, or went out, in rows S that were valued.
Flow(rows, S, d) == {i \in S : rows[i].value # Null /\ rows[i].direction = d}
FlowSum(rows, S, d) == SumInts([i \in Flow(rows, S, d) |-> rows[i].value])

LEMMA TotalsAreFlows ==
  ASSUME NEW rows, NEW S
  PROVE  /\ PeriodTotals(rows, S).incomeMinor = FlowSum(rows, S, "in")
         /\ PeriodTotals(rows, S).expenseMinor = -FlowSum(rows, S, "out")
<1>1. /\ {i \in Known(S, LAMBDA i : rows[i].value) : rows[i].direction = "in"} = Flow(rows, S, "in")
      /\ {i \in Known(S, LAMBDA i : rows[i].value) : rows[i].direction = "out"} = Flow(rows, S, "out")
  BY DEF Known, Flow
<1> QED  BY <1>1 DEF PeriodTotals, Sum, FlowSum

\* The rows S of one bucket.
InBucket(rows, S, bucket, b) == {i \in S : rows[i].at \div bucket = b}
Buckets(rows, S, bucket) == {rows[i].at \div bucket : i \in S}

LEMMA BucketsAddUp ==
  ASSUME NEW rows, PeriodRows(rows), NEW S \in SUBSET DOMAIN rows, NEW bucket, NEW d
  PROVE  LET B == Buckets(rows, S, bucket)
         IN  /\ IsFiniteSet(B)
             /\ SumInts([b \in B |-> FlowSum(rows, InBucket(rows, S, bucket, b), d)])
                  = FlowSum(rows, S, d)
             /\ \A b \in B : FlowSum(rows, InBucket(rows, S, bucket, b), d) \in Int
             /\ FlowSum(rows, S, d) \in Int
<1> DEFINE B == Buckets(rows, S, bucket)
           F == Flow(rows, S, d)
           f == [i \in F |-> rows[i].value]
           k == [i \in F |-> rows[i].at \div bucket]
           all == [i \in S |-> rows[i].at \div bucket]
<1>1. IsFiniteSet(S) /\ IsFiniteSet(F) /\ F \in SUBSET S
  <2>1. IsFiniteSet(S)
    BY FS_Subset DEF PeriodRows
  <2> QED  BY <2>1, FS_Subset DEF Flow
<1>2. IsFiniteSet(B)
  <2>1. all = [i \in S |-> all[i]] /\ {all[i] : i \in S} = B
    BY DEF Buckets
  <2> HIDE DEF all, B
  <2> QED  BY <1>1, <2>1, FinitelyMany
<1>3. Ints(f, F) /\ k \in [F -> B]
  BY <1>1 DEF Ints, IntsOn, Buckets, PeriodRows
<1>4. \A b : On(f, Sent(k, F, b)) = [i \in Flow(rows, InBucket(rows, S, bucket, b), d) |-> rows[i].value]
  <2>1. \A b : Sent(k, F, b) = Flow(rows, InBucket(rows, S, bucket, b), d)
    BY DEF Sent, Flow, InBucket
  <2>2. \A b : \A i \in Sent(k, F, b) : f[i] = rows[i].value
    BY DEF Sent
  <2> QED  BY <2>1, <2>2 DEF On
<1>5. \A b : SumInts(On(f, Sent(k, F, b))) = FlowSum(rows, InBucket(rows, S, bucket, b), d)
  BY <1>4 DEF FlowSum
<1>6. SumInts(f) = FlowSum(rows, S, d)
  BY DEF FlowSum
<1>7. SumInts(f) \in Int
  BY <1>1, <1>3, SumTyped DEF Ints
<1> HIDE DEF f, k, F, B
<1>8. /\ SumInts([b \in B |-> SumInts(On(f, Sent(k, F, b)))]) = SumInts(f)
      /\ \A b \in B : SumInts(On(f, Sent(k, F, b))) \in Int
  BY <1>1, <1>2, <1>3, SumFibres
<1>9. [b \in B |-> SumInts(On(f, Sent(k, F, b)))]
         = [b \in B |-> FlowSum(rows, InBucket(rows, S, bucket, b), d)]
  BY <1>5
<1> QED  BY <1>2, <1>5, <1>6, <1>7, <1>8, <1>9 DEF B

\* What left in rows S of a category.
Outgoing(rows, S) == {i \in S : rows[i].direction = "out"}
SpentOn(rows, S, c) ==
    SumInts([i \in {i \in Outgoing(rows, S) : rows[i].category = c} |->
                IF rows[i].value = Null THEN 0 ELSE AbsInt(rows[i].value)])
SpentCategories(rows, S) == {rows[i].category : i \in Outgoing(rows, S)}

\* The categories kept are the greatest, as many as there are or are asked for.
LEMMA CategoriesKept ==
  ASSUME NEW rows, PeriodRows(rows), NEW S \in SUBSET DOMAIN rows, NEW limit \in Nat
  PROVE  LET All   == SpentCategories(rows, S)
             spent == CategoryTotals(rows, S, limit)
             value == [c \in All |-> SpentOn(rows, S, c)]
         IN  /\ IsFiniteSet(All) /\ Ints(value, All) /\ \A c \in All : value[c] >= 0
             /\ DOMAIN spent \in SUBSET All /\ spent = On(value, DOMAIN spent)
             /\ Cardinality(DOMAIN spent) = MinInt(limit, Cardinality(All))
             /\ SumInts(value) = SumInts([i \in Outgoing(rows, S) |->
                                   IF rows[i].value = Null THEN 0 ELSE AbsInt(rows[i].value)])
<1> DEFINE All == SpentCategories(rows, S)
           value == [c \in All |-> SpentOn(rows, S, c)]
           Out == Outgoing(rows, S)
           f == [i \in Out |-> IF rows[i].value = Null THEN 0 ELSE AbsInt(rows[i].value)]
           k == [i \in Out |-> rows[i].category]
           n == MinInt(limit, Cardinality(All))
           spent == CategoryTotals(rows, S, limit)
           Chosen == CHOOSE K \in SUBSET All :
                       /\ Cardinality(K) = n
                       /\ \A j \in K, c \in All \ K : SpentOn(rows, S, j) >= SpentOn(rows, S, c)
<1>1. IsFiniteSet(Out) /\ Out \in SUBSET S
  <2>1. IsFiniteSet(S)
    BY FS_Subset DEF PeriodRows
  <2> QED  BY <2>1, FS_Subset DEF Outgoing
<1>2. Ints(f, Out) /\ k \in [Out -> All] /\ \A i \in Out : f[i] >= 0
  BY <1>1 DEF Ints, IntsOn, SpentCategories, PeriodRows, AbsInt
<1>3. IsFiniteSet(All)
  <2>1. k = [i \in Out |-> k[i]] /\ {k[i] : i \in Out} = All
    BY DEF SpentCategories
  <2> HIDE DEF k, All, Out
  <2> QED  BY <1>1, <2>1, FinitelyMany
<1>4. \A c : SpentOn(rows, S, c) = SumInts(On(f, Sent(k, Out, c)))
  <2>1. ASSUME NEW c PROVE SpentOn(rows, S, c) = SumInts(On(f, Sent(k, Out, c)))
    <3> DEFINE T == {i \in Out : rows[i].category = c}
    <3>1. Sent(k, Out, c) = T /\ T \subseteq Out
      BY DEF Sent
    <3>2. On(f, T) = [i \in T |-> IF rows[i].value = Null THEN 0 ELSE AbsInt(rows[i].value)]
      BY <3>1 DEF On
    <3> QED  BY <3>1, <3>2 DEF SpentOn
  <2> QED  BY <2>1
<1>5. SumInts([c \in All |-> SumInts(On(f, Sent(k, Out, c)))]) = SumInts(f)
      /\ \A c \in All : SumInts(On(f, Sent(k, Out, c))) \in Int
  <2> HIDE DEF f, k, Out, All
  <2> QED  BY <1>1, <1>2, <1>3, SumFibres
<1>6. value = [c \in All |-> SumInts(On(f, Sent(k, Out, c)))]
  BY <1>4
<1>7. Ints(value, All) /\ SumInts(value) = SumInts(f)
  BY <1>4, <1>5, <1>6 DEF Ints, IntsOn
<1>8. \A c \in All : value[c] >= 0
  <2>1. ASSUME NEW c \in All PROVE SumInts(On(f, Sent(k, Out, c))) >= 0
    <3>1. Sent(k, Out, c) \in SUBSET Out
      BY DEF Sent
    <3>2. SumInts(On(f, Sent(k, Out, c))) \in Int
      BY <1>5
    <3> HIDE DEF f, k, Out, All
    <3>3. 0 <= SumInts(On(f, Sent(k, Out, c)))
      BY <1>1, <1>2, <3>1, SumPart
    <3> QED  BY <3>2, <3>3
  <2> QED  BY <1>6, <2>1
<1>9. /\ Chosen \in SUBSET All /\ Cardinality(Chosen) = n
  <2>1. Cardinality(All) \in Nat /\ n \in 0..Cardinality(All)
    BY <1>3, FS_CardinalityType DEF MinInt
  <2>2. \A c \in All : value[c] = SpentOn(rows, S, c) /\ value[c] \in Int
    BY <1>7 DEF Ints, IntsOn
  <2> HIDE DEF value, All, n
  <2>3. PICK K : Top(K, All, value, n)
    BY <1>3, <2>1, <2>2, TopExists
  <2>4. K \in SUBSET All /\ Cardinality(K) = n
        /\ \A j \in K, c \in All \ K : SpentOn(rows, S, j) >= SpentOn(rows, S, c)
    <3>1. \A j \in K, c \in All \ K : value[j] >= value[c]
      BY <2>3 DEF Top
    <3> QED  BY <2>2, <2>3, <3>1 DEF Top
  <2> QED  BY <2>4
<1>10. spent = [c \in Chosen |-> SpentOn(rows, S, c)]
  BY DEF CategoryTotals, Sum, SpentOn, SpentCategories, Outgoing
<1> HIDE DEF Chosen
<1>11. DOMAIN spent = Chosen
  BY <1>10
<1>12. On(value, Chosen) = [c \in Chosen |-> SpentOn(rows, S, c)]
  BY <1>9 DEF On
<1>13. spent = On(value, DOMAIN spent)
  BY <1>10, <1>11, <1>12
<1> HIDE DEF All, value, spent, n, f
<1> QED  BY <1>3, <1>7, <1>8, <1>9, <1>11, <1>13 DEF All, value, spent, n, f

\* What went out, as expense, is what was spent on the categories, when outgoing values
\* are negative.
LEMMA SpentIsExpense ==
  ASSUME NEW rows, PeriodRows(rows), NEW S \in SUBSET DOMAIN rows,
         \A i \in S : rows[i].direction = "out" => rows[i].value <= 0
  PROVE  SumInts([i \in Outgoing(rows, S) |-> IF rows[i].value = Null THEN 0 ELSE AbsInt(rows[i].value)])
            = -FlowSum(rows, S, "out")
<1> DEFINE Out == Outgoing(rows, S)
           F == Flow(rows, S, "out")
           f == [i \in Out |-> IF rows[i].value = Null THEN 0 ELSE AbsInt(rows[i].value)]
           v == [i \in F |-> rows[i].value]
<1>1. IsFiniteSet(Out) /\ IsFiniteSet(F) /\ F \in SUBSET Out /\ Out \in SUBSET S
  <2>1. IsFiniteSet(S)
    BY FS_Subset DEF PeriodRows
  <2> QED  BY <2>1, FS_Subset DEF Outgoing, Flow
<1>2. Ints(f, Out) /\ Ints(v, F) /\ \A i \in Out \ F : f[i] = 0
  BY <1>1 DEF Ints, IntsOn, PeriodRows, AbsInt, Outgoing, Flow
<1>3. On(f, F) = [i \in F |-> (-1) * v[i]]
  <2>1. ASSUME NEW i \in F PROVE f[i] = (-1) * v[i]
    <3>1. rows[i].value \in Int /\ rows[i].value <= 0 /\ rows[i].value # Null /\ i \in Out
      BY <1>1 DEF PeriodRows, Flow
    <3> QED  BY <3>1 DEF AbsInt
  <2> QED  BY <2>1 DEF On
<1>4. SumInts(v) = FlowSum(rows, S, "out")
  BY DEF FlowSum
<1>5. SumInts(v) \in Int
  BY <1>1, <1>2, SumTyped DEF Ints
<1> HIDE DEF f, v, F, Out
<1>6. SumInts(f) = SumInts(On(f, F))
  BY <1>1, <1>2, SumZeros
<1>7. SumInts([i \in F |-> (-1) * v[i]]) = (-1) * SumInts(v)
  <2>1. -1 \in Int
    OBVIOUS
  <2> QED  BY <1>1, <1>2, <2>1, SumTimes
<1>8. SumInts(f) = -FlowSum(rows, S, "out")
  BY <1>3, <1>4, <1>5, <1>6, <1>7
<1> QED  BY <1>8 DEF f, Out

\* Whatever the rows and the period: the buckets add up to the period, the categories to
\* what was spent, their shares to the whole but for a basis point each; no row counts in
\* both periods, and only the last instant before the period counts in neither
\* (AnalyticsService.overview over the reporting queries of packages/db).
THEOREM OverviewsAddUp ==
  ASSUME NEW rows, PeriodRows(rows), NEW start \in Int, NEW end \in Int,
         NEW bucket, NEW limit \in Nat
  PROVE  OverviewAddsUp(rows, start, end, bucket, limit)
<1> DEFINE o      == Overview(rows, start, end, bucket, limit)
           now    == Within(rows, start, end)
           before == Within(rows, PeriodRange(start, end).previousStart, start - 1)
           B      == Buckets(rows, now, bucket)
           In(b)  == FlowSum(rows, InBucket(rows, now, bucket, b), "in")
           Out(b) == FlowSum(rows, InBucket(rows, now, bucket, b), "out")
           inflow == FlowSum(rows, now, "in")
           outgo  == FlowSum(rows, now, "out")
           spent  == CategoryTotals(rows, now, limit)
           total  == SumInts([c \in DOMAIN spent |-> spent[c]])
           All    == SpentCategories(rows, now)
           value  == [c \in All |-> SpentOn(rows, now, c)]
<1>1. now \in SUBSET DOMAIN rows
  BY DEF Within
<1>2. /\ o.income = inflow /\ o.expense = -outgo /\ o.net = inflow - (-outgo)
  <2>1. PeriodRange(start, end).start = start /\ PeriodRange(start, end).end = end
    BY DEF PeriodRange
  <2>2. /\ o.income = PeriodTotals(rows, now).incomeMinor
        /\ o.expense = PeriodTotals(rows, now).expenseMinor
        /\ o.net = PeriodTotals(rows, now).incomeMinor - PeriodTotals(rows, now).expenseMinor
    BY <2>1 DEF Overview
  <2> HIDE DEF o, now
  <2> QED  BY <2>2, TotalsAreFlows
<1>3. /\ DOMAIN o.series = B
      /\ \A b \in B : o.series[b].incomeMinor = In(b) /\ o.series[b].expenseMinor = -Out(b)
  <2>1. o.series = PeriodSeries(rows, now, bucket)
    BY DEF Overview, PeriodRange
  <2>2. PeriodSeries(rows, now, bucket)
          = [b \in B |-> PeriodTotals(rows, InBucket(rows, now, bucket, b))]
    BY DEF PeriodSeries, Buckets, InBucket
  <2> HIDE DEF o, now, B
  <2> QED  BY <2>1, <2>2, TotalsAreFlows
<1>4. o.spent = spent /\ o.shares = [c \in DOMAIN spent |-> ShareBps(spent[c], total)]
  BY DEF Overview, PeriodRange, Sum
<1>5. /\ IsFiniteSet(B) /\ inflow \in Int /\ outgo \in Int
      /\ \A b \in B : In(b) \in Int /\ Out(b) \in Int
      /\ SumInts([b \in B |-> In(b)]) = inflow /\ SumInts([b \in B |-> Out(b)]) = outgo
  <2> HIDE DEF now
  <2> QED  BY <1>1, BucketsAddUp
<1>6. SumInts([b \in B |-> -Out(b)]) = -outgo
  <2> DEFINE f == [b \in B |-> Out(b)]
             g == [b \in B |-> (-1) * f[b]]
  <2>1. Ints(f, B) /\ -1 \in Int
    BY <1>5 DEF Ints, IntsOn
  <2>2. g = [b \in B |-> -Out(b)]
    BY <1>5
  <2>3. SumInts(f) = outgo
    BY <1>5
  <2> HIDE DEF f, B, outgo, Out
  <2>4. SumInts(g) = (-1) * SumInts(f)
    BY <1>5, <2>1, SumTimes
  <2> QED  BY <1>5, <2>2, <2>3, <2>4
<1>7. SumInts([b \in B |-> In(b) - (-Out(b))]) = inflow - (-outgo)
  <2> DEFINE f == [b \in B |-> In(b)]
             g == [b \in B |-> Out(b)]
             h == [b \in B |-> f[b] + g[b]]
  <2>1. Ints(f, B) /\ Ints(g, B)
    BY <1>5 DEF Ints, IntsOn
  <2>2. h = [b \in B |-> In(b) - (-Out(b))]
    <3>1. \A b \in B : f[b] + g[b] = In(b) - (-Out(b))
      <4> HIDE DEF B, In, Out
      <4> QED  BY <1>5
    <3> HIDE DEF B, In, Out
    <3> QED  BY <3>1
  <2>3. SumInts(f) = inflow /\ SumInts(g) = outgo
    BY <1>5
  <2> HIDE DEF f, g, B, inflow, outgo, In, Out
  <2>4. SumInts(h) = SumInts(f) + SumInts(g)
    BY <1>5, <2>1, SumPlus
  <2> QED  BY <1>5, <2>2, <2>3, <2>4
<1>8. /\ SumInts([b \in DOMAIN o.series |-> o.series[b].incomeMinor - o.series[b].expenseMinor]) = o.net
      /\ SumInts([b \in DOMAIN o.series |-> o.series[b].expenseMinor]) = o.expense
  <2> HIDE DEF o, B, In, Out, inflow, outgo
  <2>1. [b \in DOMAIN o.series |-> o.series[b].incomeMinor - o.series[b].expenseMinor]
           = [b \in B |-> In(b) - (-Out(b))]
    BY <1>3
  <2>2. [b \in DOMAIN o.series |-> o.series[b].expenseMinor] = [b \in B |-> -Out(b)]
    BY <1>3
  <2> QED  BY <1>2, <1>6, <1>7, <2>1, <2>2
<1>9. /\ IsFiniteSet(All) /\ Ints(value, All) /\ \A c \in All : value[c] >= 0
      /\ DOMAIN spent \in SUBSET All /\ spent = On(value, DOMAIN spent)
      /\ Cardinality(DOMAIN spent) = MinInt(limit, Cardinality(All))
      /\ SumInts(value) = SumInts([i \in Outgoing(rows, now) |->
                                      IF rows[i].value = Null THEN 0 ELSE AbsInt(rows[i].value)])
  <2> HIDE DEF now
  <2> QED  BY <1>1, CategoriesKept
<1>10. total = SumInts(spent)
  <2> HIDE DEF spent, value, All
  <2>1. spent = [c \in DOMAIN spent |-> spent[c]]
    BY <1>9 DEF On
  <2> QED  BY <2>1
<1>11. ASSUME \A i \in now : rows[i].direction = "out" => rows[i].value <= 0
       PROVE  /\ total <= o.expense
              /\ Cardinality({rows[i].category : i \in now}) <= limit => total = o.expense
  <2>1. SumInts(value) = -outgo
    <3> HIDE DEF now
    <3> QED  BY <1>1, <1>9, <1>11, SpentIsExpense
  <2>2. total <= SumInts(value)
    <3> HIDE DEF value, spent, total, All
    <3>1. SumInts(On(value, DOMAIN spent)) <= SumInts(value)
      BY <1>9, SumPart
    <3> QED  BY <1>9, <1>10, <3>1
  <2>3. ASSUME Cardinality({rows[i].category : i \in now}) <= limit PROVE total = SumInts(value)
    <3> DEFINE Cats == {rows[i].category : i \in now}
               cat == [i \in now |-> rows[i].category]
    <3>1. IsFiniteSet(Cats)
      <4>1. IsFiniteSet(now)
        BY <1>1, FS_Subset DEF PeriodRows
      <4>2. cat = [i \in now |-> cat[i]] /\ {cat[i] : i \in now} = Cats
        OBVIOUS
      <4> HIDE DEF cat, Cats, now
      <4> QED  BY <4>1, <4>2, FinitelyMany
    <3>2. All \in SUBSET Cats
      BY DEF SpentCategories, Outgoing
    <3> HIDE DEF All, Cats, value, spent, total
    <3>3. Cardinality(All) <= Cardinality(Cats) /\ Cardinality(All) \in Nat /\ Cardinality(Cats) \in Nat
      BY <1>9, <3>1, <3>2, FS_Subset, FS_CardinalityType
    <3>4. Cardinality(Cats) <= limit
      BY <2>3 DEF Cats
    <3>5. Cardinality(DOMAIN spent) = Cardinality(All)
      BY <1>9, <3>3, <3>4 DEF MinInt
    <3>6. DOMAIN spent = All
      BY <1>9, <3>5, FS_Subset
    <3>7. On(value, All) = value
      BY <1>9 DEF Ints, On
    <3> QED  BY <1>9, <1>10, <3>6, <3>7
  <2> HIDE DEF o, total, outgo, value
  <2> QED  BY <1>2, <2>1, <2>2, <2>3
<1>12. total > 0 => SumInts(o.shares) \in (10000 - Cardinality(DOMAIN spent))..10000
  <2> HIDE DEF spent, value, All
  <2>1. IsFiniteSet(DOMAIN spent) /\ Cardinality(DOMAIN spent) \in Nat
    BY <1>9, FS_Subset, FS_CardinalityType
  <2>2. Ints(spent, DOMAIN spent) /\ \A c \in DOMAIN spent : spent[c] >= 0
    BY <1>9 DEF Ints, IntsOn, On
  <2> DEFINE whole == SumInts(spent)
             part == SumInts([c \in DOMAIN spent |-> ShareBps(spent[c], whole)])
  <2>3. part \in Nat /\ part <= 10000 /\ (whole > 0 => part >= 10000 - Cardinality(DOMAIN spent))
    BY <2>1, <2>2, SharesWhole
  <2>4. part = SumInts(o.shares) /\ whole = total
    <3> HIDE DEF o, total
    <3> QED  BY <1>4, <1>10
  <2> HIDE DEF part, whole, o, total
  <2> QED  BY <2>1, <2>3, <2>4
<1>13. o.shares = [c \in DOMAIN o.shares |-> o.shares[c]] /\ DOMAIN o.shares = DOMAIN spent
  BY <1>4
<1>14. /\ now \cap before = {}
       /\ \A i \in Within(rows, start - (end - start), end) \ (now \cup before) :
               rows[i].at = start - 1
  BY DEF Within, PeriodRange, PeriodRows
<1> HIDE DEF o, spent, total
<1>15. SumInts([c \in DOMAIN o.spent |-> o.spent[c]]) = total
  BY <1>4 DEF total
<1>16. SumInts([c \in DOMAIN o.shares |-> o.shares[c]]) = SumInts(o.shares)
  BY <1>13
<1> QED  BY <1>4, <1>8, <1>11, <1>12, <1>14, <1>15, <1>16 DEF OverviewAddsUp, Sum, o

\* The month of a day, and the first days of its month and quarter.
LEMMA MonthIs ==
  ASSUME NEW day \in 0..364
  PROVE  \E m \in 1..12 : /\ MonthOf(day) = m
                          /\ DayOfMonth[m] <= day /\ (m < 12 => day < DayOfMonth[m + 1])
<1> DEFINE P(m) == DayOfMonth[m] <= day /\ (m < 12 => day < DayOfMonth[m + 1])
<1>1. \E m \in 1..12 : P(m)
  BY DEF DayOfMonth
<1> QED  BY <1>1 DEF MonthOf

\* Of any day of the year, whatever the week day it began with: weeks begin on Monday, and
\* each period holds the shorter ones that began in it (periodRange of
\* packages/shared/src/util/time.ts).
THEOREM PeriodsAlwaysNest ==
  ASSUME NEW day \in 0..364, NEW first \in 0..6 PROVE PeriodsNest(day, first)
<1>1. PICK m \in 1..12 : /\ MonthOf(day) = m
                         /\ DayOfMonth[m] <= day /\ (m < 12 => day < DayOfMonth[m + 1])
  BY MonthIs
<1>2. /\ PeriodStart("week", day, first) = day - ((day + first + 6) % 7)
      /\ PeriodStart("month", day, first) = DayOfMonth[m]
      /\ PeriodStart("quarter", day, first) = DayOfMonth[((m - 1) \div 3) * 3 + 1]
      /\ PeriodStart("year", day, first) = 0
  BY <1>1 DEF PeriodStart
<1>3. /\ day - ((day + first + 6) % 7) \in (day - 6)..day
      /\ (day - ((day + first + 6) % 7) + first) % 7 = 1
  BY SMT
<1>4. /\ 0 <= DayOfMonth[((m - 1) \div 3) * 3 + 1]
      /\ DayOfMonth[((m - 1) \div 3) * 3 + 1] <= DayOfMonth[m]
      /\ day - DayOfMonth[((m - 1) \div 3) * 3 + 1] < 92
  BY <1>1 DEF DayOfMonth
<1> QED  BY <1>1, <1>2, <1>3, <1>4 DEF PeriodsNest

-----------------------------------------------------------------------------
(* Decimal strings *)

\* The powers of ten up to n.
PowersTo(n, p) == p = [i \in 0..n |-> IF i = 0 THEN 1 ELSE 10 * p[i - 1]]

LEMMA PowersExist == ASSUME NEW n \in Nat PROVE \E p : PowersTo(n, p)
<1> DEFINE Bad == {j \in Nat : ~ \E p : PowersTo(j, p)}
<1> SUFFICES ASSUME Bad # {} PROVE FALSE
  OBVIOUS
<1>1. PICK j \in Bad : \A i \in Bad : j <= i
  <2>1. Bad \subseteq Nat
    OBVIOUS
  <2> HIDE DEF Bad
  <2> QED  BY <2>1, LeastNumber
<1>2. j \in Nat /\ ~ \E p : PowersTo(j, p)
  OBVIOUS
<1>3. j # 0
  <2> DEFINE p == [i \in 0..0 |-> 1]
  <2>1. p = [i \in 0..0 |-> IF i = 0 THEN 1 ELSE 10 * p[i - 1]]
    OBVIOUS
  <2>2. PowersTo(0, p)
    BY <2>1 DEF PowersTo
  <2> QED  BY <1>2, <2>2
<1>4. PICK p : PowersTo(j - 1, p)
  <2>1. j - 1 \in Nat /\ ~ (j <= j - 1)
    BY <1>2, <1>3
  <2>2. j - 1 \notin Bad
    <3> HIDE DEF Bad
    <3> QED  BY <1>1, <2>1
  <2> QED  BY <2>1, <2>2
<1> DEFINE q == [i \in 0..j |-> IF i = 0 THEN 1 ELSE 10 * p[i - 1]]
<1>5. ASSUME NEW i \in 0..j, i # 0 PROVE q[i - 1] = p[i - 1]
  <2>1. i - 1 \in 0..(j - 1) /\ i - 1 \in 0..j
    BY <1>2, <1>5
  <2>2. p[i - 1] = IF i - 1 = 0 THEN 1 ELSE 10 * p[(i - 1) - 1]
    BY <1>4, <2>1 DEF PowersTo
  <2> QED  BY <2>1, <2>2
<1>6. q = [i \in 0..j |-> IF i = 0 THEN 1 ELSE 10 * q[i - 1]]
  <2>1. \A i \in 0..j : q[i] = IF i = 0 THEN 1 ELSE 10 * q[i - 1]
    <3>1. \A i \in 0..j : q[i] = IF i = 0 THEN 1 ELSE 10 * p[i - 1]
      OBVIOUS
    <3> HIDE DEF q
    <3> QED  BY <1>5, <3>1
  <2>2. q = [i \in 0..j |-> q[i]]
    OBVIOUS
  <2> HIDE DEF q
  <2> QED  BY <2>1, <2>2
<1>7. PowersTo(j, q)
  <2> HIDE DEF q
  <2> QED  BY <1>6 DEF PowersTo
<1> QED  BY <1>2, <1>7

\* However far they go, they are the same.
LEMMA PowersAgree ==
  ASSUME NEW n \in Nat, NEW p, PowersTo(n, p), NEW m \in 0..n, NEW q, PowersTo(m, q)
  PROVE  q[m] = p[m]
<1> DEFINE Bad == {i \in 0..m : q[i] # p[i]}
<1> SUFFICES ASSUME Bad # {} PROVE FALSE
  OBVIOUS
<1>1. PICK j \in Bad : \A i \in Bad : j <= i
  <2>1. Bad \subseteq Nat
    OBVIOUS
  <2> HIDE DEF Bad
  <2> QED  BY <2>1, LeastNumber
<1>2. j \in 0..m /\ j \in 0..n /\ q[j] # p[j]
  OBVIOUS
<1>3. /\ q[j] = IF j = 0 THEN 1 ELSE 10 * q[j - 1]
      /\ p[j] = IF j = 0 THEN 1 ELSE 10 * p[j - 1]
  BY <1>2 DEF PowersTo
<1>4. j # 0 => j - 1 \in 0..m /\ ~ (j <= j - 1)
  BY <1>2
<1>5. j # 0 => q[j - 1] = p[j - 1]
  <2> SUFFICES ASSUME j # 0 PROVE j - 1 \notin Bad
    BY <1>4
  <2> HIDE DEF Bad
  <2> QED  BY <1>1, <1>4
<1> QED  BY <1>2, <1>3, <1>5

\* The powers of ten.
LEMMA Powers ==
  /\ Pow10(0) = 1
  /\ \A n \in Nat : Pow10(n + 1) = 10 * Pow10(n)
<1> DEFINE Of(n) == CHOOSE p : PowersTo(n, p)
<1>1. \A n \in Nat : PowersTo(n, Of(n))
  BY PowersExist
<1>2. \A n : Pow10(n) = Of(n)[n]
  BY DEF Pow10, PowersTo
<1> HIDE DEF Of
<1>3. Pow10(0) = 1
  <2>1. Of(0)[0] = 1
    BY <1>1 DEF PowersTo
  <2> QED  BY <1>2, <2>1
<1>4. ASSUME NEW n \in Nat PROVE Pow10(n + 1) = 10 * Pow10(n)
  <2>1. PowersTo(n + 1, Of(n + 1)) /\ PowersTo(n, Of(n)) /\ n \in 0..(n + 1) /\ n + 1 \in Nat
    BY <1>1
  <2>2. Of(n)[n] = Of(n + 1)[n]
    BY <2>1, PowersAgree
  <2>3. Of(n + 1)[n + 1] = 10 * Of(n + 1)[n]
    <3>1. n + 1 \in 0..(n + 1) /\ n + 1 # 0 /\ (n + 1) - 1 = n
      OBVIOUS
    <3>2. Of(n + 1)[n + 1] = IF n + 1 = 0 THEN 1 ELSE 10 * Of(n + 1)[(n + 1) - 1]
      BY <2>1, <3>1 DEF PowersTo
    <3> QED  BY <3>1, <3>2
  <2> QED  BY <1>2, <2>1, <2>2, <2>3
<1> QED  BY <1>3, <1>4

\* Induction over the numbers up to n.
LEMMA CountedUp ==
  ASSUME NEW n \in Nat, NEW Good, 0 \in Good, \A i \in 1..n : i - 1 \in Good => i \in Good
  PROVE  \A i \in 0..n : i \in Good
<1> DEFINE Bad == {i \in 0..n : i \notin Good}
<1> SUFFICES ASSUME Bad # {} PROVE FALSE
  OBVIOUS
<1>1. PICK j \in Bad : \A i \in Bad : j <= i
  <2>1. Bad \subseteq Nat
    OBVIOUS
  <2> HIDE DEF Bad
  <2> QED  BY <2>1, LeastNumber
<1>2. j \in 1..n /\ j \notin Good
  OBVIOUS
<1>3. j - 1 \in 0..n /\ ~ (j <= j - 1)
  BY <1>2
<1>4. j - 1 \notin Bad
  <2> HIDE DEF Bad
  <2> QED  BY <1>1, <1>3
<1> QED  BY <1>2, <1>3, <1>4

LEMMA PowerTyped == \A n \in Nat : Pow10(n) \in Nat \ {0}
<1> SUFFICES ASSUME NEW n \in Nat PROVE Pow10(n) \in Nat \ {0}
  OBVIOUS
<1> DEFINE Good == {i \in 0..n : Pow10(i) \in Nat \ {0}}
<1>1. 0 \in Good
  BY Powers
<1>2. ASSUME NEW i \in 1..n, i - 1 \in Good PROVE i \in Good
  <2>1. i - 1 \in Nat /\ (i - 1) + 1 = i /\ Pow10(i - 1) \in Nat \ {0}
    BY <1>2
  <2>2. Pow10((i - 1) + 1) = 10 * Pow10(i - 1)
    BY <2>1, Powers
  <2>3. Pow10(i) \in Nat \ {0}
    BY <2>1, <2>2
  <2> QED  BY <2>3
<1>3. \A i \in 0..n : i \in Good
  <2> HIDE DEF Good
  <2> QED  BY <1>1, <1>2, CountedUp
<1> QED  BY <1>3

\* The number that the first j of a row of digits write.
Written(f, j) == SumInts([i \in 1..j |-> f[i] * Pow10(j - i)])

\* A digit more: ten times what was written, and the digit.
LEMMA OneDigitMore ==
  ASSUME NEW f, NEW n \in Nat, \A i \in 1..n : f[i] \in Int
  PROVE  /\ Written(f, 0) = 0
         /\ \A j \in 0..n : Written(f, j) \in Int
         /\ \A j \in 1..n : Written(f, j) = 10 * Written(f, j - 1) + f[j]
<1>1. Written(f, 0) = 0
  BY SumNone DEF Written
<1>2. ASSUME NEW j \in 0..n PROVE Written(f, j) \in Int /\ Ints([i \in 1..j |-> f[i] * Pow10(j - i)], 1..j)
  <2> DEFINE g == [i \in 1..j |-> f[i] * Pow10(j - i)]
  <2>1. ASSUME NEW i \in 1..j PROVE g[i] \in Int
    <3>1. j - i \in Nat /\ f[i] \in Int
      OBVIOUS
    <3>2. Pow10(j - i) \in Nat
      BY <3>1, PowerTyped
    <3> QED  BY <3>1, <3>2
  <2>2. Ints(g, 1..j) /\ DOMAIN g = 1..j /\ IsFiniteSet(1..j) /\ IntsOn(g, 1..j)
    BY <2>1, FS_Interval DEF Ints, IntsOn
  <2> HIDE DEF g
  <2>3. SumInts(g) \in Int
    BY <2>2, SumTyped
  <2> QED  BY <2>2, <2>3 DEF Written, g
<1>3. ASSUME NEW j \in 1..n PROVE Written(f, j) = 10 * Written(f, j - 1) + f[j]
  <2> DEFINE g == [i \in 1..j |-> f[i] * Pow10(j - i)]
             h == [i \in 1..(j - 1) |-> f[i] * Pow10((j - 1) - i)]
             H == [i \in 1..(j - 1) |-> 10 * h[i]]
  <2>1. j \in 0..n /\ j - 1 \in 0..n /\ j \in 1..j /\ 1..(j - 1) = (1..j) \ {j}
    OBVIOUS
  <2>2. Ints(g, 1..j) /\ Ints(h, 1..(j - 1))
    BY <1>2, <2>1
  <2>3. g[j] = f[j]
    <3>1. j - j = 0 /\ f[j] \in Int
      OBVIOUS
    <3> QED  BY <2>1, <3>1, Powers
  <2>4. On(g, (1..j) \ {j}) = H
    <3>1. ASSUME NEW i \in 1..(j - 1) PROVE g[i] = 10 * h[i]
      <4>1. (j - 1) - i \in Nat /\ ((j - 1) - i) + 1 = j - i /\ f[i] \in Int /\ i \in 1..j
        OBVIOUS
      <4>2. Pow10(j - i) = 10 * Pow10((j - 1) - i) /\ Pow10((j - 1) - i) \in Nat
        <5>1. Pow10(((j - 1) - i) + 1) = 10 * Pow10((j - 1) - i)
          BY <4>1, Powers
        <5> QED  BY <4>1, <5>1, PowerTyped
      <4> DEFINE p == Pow10((j - 1) - i)
      <4>3. g[i] = f[i] * Pow10(j - i) /\ h[i] = f[i] * p /\ p \in Nat /\ Pow10(j - i) = 10 * p
        BY <4>1, <4>2
      <4> HIDE DEF p, g, h
      <4>4. f[i] * (10 * p) = 10 * (f[i] * p)
        BY <4>1, <4>3
      <4> QED  BY <4>3, <4>4
    <3> QED  BY <2>1, <3>1 DEF On
  <2>5. IsFiniteSet(1..j) /\ IsFiniteSet(1..(j - 1))
    BY FS_Interval
  <2>6. SumInts(g) = Written(f, j) /\ SumInts(h) = Written(f, j - 1)
    BY DEF Written
  <2> HIDE DEF g, h
  <2>7. SumInts(H) = 10 * SumInts(h)
    <3>1. 10 \in Int
      OBVIOUS
    <3> QED  BY <2>2, <2>5, <3>1, SumTimes
  <2>8. SumInts(g) = SumInts(On(g, (1..j) \ {j})) + g[j]
    <3>1. DOMAIN g = 1..j /\ IntsOn(g, 1..j) /\ 1..j \in SUBSET (1..j) /\ On(g, 1..j) = g
      BY <2>2 DEF Ints, On
    <3>2. SumInts(On(g, 1..j)) = SumInts(On(g, (1..j) \ {j})) + g[j]
      BY <2>1, <2>5, <3>1, SumOn
    <3> QED  BY <3>1, <3>2
  <2> QED  BY <2>3, <2>4, <2>6, <2>7, <2>8
<1> QED  BY <1>1, <1>2, <1>3

\* Zeros behind it multiply a number by ten each.
LEMMA ZerosBehind ==
  ASSUME NEW f, NEW n \in Nat, NEW z \in Nat, \A i \in 1..(n + z) : f[i] \in Int,
         \A i \in 1..(n + z) : i > n => f[i] = 0
  PROVE  Written(f, n + z) = Written(f, n) * Pow10(z)
<1> DEFINE Good == {k \in 0..z : Written(f, n + k) = Written(f, n) * Pow10(k)}
<1>0. n + z \in Nat /\ \A k \in 0..z : n + k \in 0..(n + z)
  OBVIOUS
<1>1. \A j \in 0..(n + z) : Written(f, j) \in Int
  BY <1>0, OneDigitMore
<1>2. 0 \in Good
  <2>1. n + 0 = n /\ n \in 0..(n + z)
    OBVIOUS
  <2>2. Written(f, n) \in Int
    BY <1>1, <2>1
  <2>3. Written(f, n + 0) = Written(f, n) * Pow10(0)
    BY <2>1, <2>2, Powers
  <2> QED  BY <2>3
<1>3. ASSUME NEW k \in 1..z, k - 1 \in Good PROVE k \in Good
  <2> DEFINE w == Written(f, n)
             p == Pow10(k - 1)
  <2>1. n + k \in 1..(n + z) /\ (n + k) - 1 = n + (k - 1) /\ n + k > n /\ n \in 0..(n + z)
    BY <1>3
  <2>2. Written(f, n + k) = 10 * Written(f, n + (k - 1)) + f[n + k] /\ f[n + k] = 0
    BY <1>0, <2>1, OneDigitMore
  <2>3. Written(f, n + (k - 1)) = w * p
    BY <1>3
  <2>4. Pow10(k) = 10 * p /\ p \in Nat
    <3>1. k - 1 \in Nat /\ (k - 1) + 1 = k
      BY <1>3
    <3>2. Pow10((k - 1) + 1) = 10 * Pow10(k - 1)
      BY <3>1, Powers
    <3> QED  BY <3>1, <3>2, PowerTyped
  <2>5. w \in Int
    BY <1>1, <2>1
  <2> HIDE DEF w, p
  <2>6. 10 * (w * p) = w * (10 * p) /\ w * p \in Int
    BY <2>4, <2>5
  <2>7. Written(f, n + k) = w * Pow10(k)
    BY <2>2, <2>3, <2>4, <2>6
  <2> QED  BY <2>7 DEF w
<1>4. \A k \in 0..z : k \in Good
  <2> HIDE DEF Good
  <2> QED  BY <1>2, <1>3, CountedUp
<1>5. z \in 0..z
  OBVIOUS
<1> QED  BY <1>4, <1>5

\* What a quotient is.
LEMMA QuotientIs ==
  ASSUME NEW n \in Nat, NEW d \in Nat \ {0}, NEW k \in Nat, k * d <= n, n < k * d + d
  PROVE  n \div d = k
<1> DEFINE q == n \div d
           x == q * d
           y == k * d
<1>1. q \in Nat /\ x \in Nat /\ y \in Nat /\ x <= n /\ n < x + d
  OBVIOUS
<1>2. q >= k + 1 => x >= y + d
  <2>1. (q - k - 1) * d = x - y - d
    BY <1>1
  <2>2. q >= k + 1 => (q - k - 1) * d >= 0
    BY <1>1
  <2> QED  BY <1>1, <2>1, <2>2
<1>3. k >= q + 1 => y >= x + d
  <2>1. (k - q - 1) * d = y - x - d
    BY <1>1
  <2>2. k >= q + 1 => (k - q - 1) * d >= 0
    BY <1>1
  <2> QED  BY <1>1, <2>1, <2>2
<1> HIDE DEF q, x, y
<1>4. q = k
  BY <1>1, <1>2, <1>3 DEF y
<1> QED  BY <1>4 DEF q

LEMMA TenParts ==
  \A q \in Nat : q \div 10 \in Nat /\ q % 10 \in 0..9 /\ q = 10 * (q \div 10) + (q % 10)
<1> SUFFICES ASSUME NEW q \in Nat
    PROVE q \div 10 \in Nat /\ q % 10 \in 0..9 /\ q = 10 * (q \div 10) + (q % 10)
  OBVIOUS
<1>1. q \div 10 \in Nat
  OBVIOUS
<1>2. (q % 10) \in 0..9
  OBVIOUS
<1>3. q = 10 * (q \div 10) + (q % 10)
  OBVIOUS
<1> QED  BY <1>1, <1>2, <1>3

\* The last digit of a quotient, and the ones before it.
LEMMA LastDigit ==
  ASSUME NEW n \in Nat, NEW d \in Nat \ {0}
  PROVE  /\ n \div d = 10 * (n \div (10 * d)) + ((n \div d) % 10)
         /\ n \div d \in Nat /\ n \div (10 * d) \in Nat /\ (n \div d) % 10 \in 0..9
<1> DEFINE q == n \div d
           t == q \div 10
           x == q * d
<1>1. q \in Nat /\ x \in Nat /\ x <= n /\ n < x + d
  OBVIOUS
<1> HIDE DEF q
<1>2. t \in Nat /\ q % 10 \in 0..9 /\ q = 10 * t + (q % 10)
  <2>1. q \in Nat
    BY <1>1
  <2>2. q \div 10 \in Nat /\ q % 10 \in 0..9 /\ q = 10 * (q \div 10) + (q % 10)
    BY <2>1, TenParts
  <2> QED  BY <2>2
<1> HIDE DEF t
<1>3. n \div (10 * d) = t
  <2> DEFINE r == q % 10
             e == 10 * d
             y == t * d
  <2>1. e \in Nat \ {0} /\ y \in Nat /\ t * e = 10 * y
    <3>1. t * (10 * d) = 10 * (t * d)
      BY <1>2
    <3>2. t * d \in Nat
      BY <1>2
    <3> QED  BY <3>1, <3>2
  <2>2. x = 10 * y + r * d /\ 0 <= r * d /\ r * d <= 9 * d
    <3>1. x = (10 * t + r) * d
      <4>1. q = 10 * t + r
        BY <1>2
      <4> HIDE DEF r, t
      <4> QED  BY <4>1
    <3>2. (10 * t + r) * d = 10 * y + r * d
      BY <1>2
    <3>3. r \in 0..9
      BY <1>2
    <3> HIDE DEF r
    <3>4. 0 <= r * d /\ r * d <= 9 * d
      BY <3>3
    <3> QED  BY <3>1, <3>2, <3>4
  <2> DEFINE w == r * d
  <2>3. w \in Int
    <3>1. r \in Int
      BY <1>2
    <3> QED  BY <3>1
  <2> HIDE DEF w, x, y
  <2>4. t * e <= n /\ n < t * e + e
    <3>1. x = 10 * y + w /\ 0 <= w /\ w <= 9 * d
      BY <2>2 DEF w
    <3> QED  BY <1>1, <2>1, <2>3, <3>1
  <2> HIDE DEF e
  <2>5. n \div e = t
    BY <1>2, <2>1, <2>4, QuotientIs
  <2> QED  BY <2>5 DEF e
<1> QED  BY <1>1, <1>2, <1>3 DEF q

\* The digits of a number write it.
LEMMA DigitsWrite ==
  ASSUME NEW n \in Nat, NEW c \in Nat, n < Pow10(c)
  PROVE  LET f == [i \in 1..c |-> (n \div Pow10(c - i)) % 10]
         IN  (\A i \in 1..c : f[i] \in 0..9) /\ Written(f, c) = n
<1> DEFINE f == [i \in 1..c |-> (n \div Pow10(c - i)) % 10]
           Good == {j \in 0..c : Written(f, j) = n \div Pow10(c - j)}
<1>1. \A i \in 1..c : f[i] \in 0..9
  <2>1. \A i \in 1..c : Pow10(c - i) \in Nat \ {0}
    BY PowerTyped
  <2> QED  BY <2>1, LastDigit
<1>2. 0 \in Good
  <2>1. Pow10(c) \in Nat \ {0} /\ c - 0 = c
    BY PowerTyped
  <2>2. n \div Pow10(c) = 0
    <3> DEFINE p == Pow10(c)
    <3>1. p \in Nat \ {0} /\ n < p /\ 0 * p = 0
      BY <2>1
    <3> HIDE DEF p
    <3>2. 0 * p <= n /\ n < 0 * p + p /\ 0 \in Nat
      BY <3>1
    <3>3. n \div p = 0
      BY <3>1, <3>2, QuotientIs
    <3> QED  BY <3>3 DEF p
  <2>3. Written(f, 0) = 0
    BY SumNone DEF Written
  <2>4. Written(f, 0) = n \div Pow10(c - 0)
    BY <2>1, <2>2, <2>3
  <2> QED  BY <2>4
<1>3. ASSUME NEW j \in 1..c, j - 1 \in Good PROVE j \in Good
  <2>1. Written(f, j) = 10 * Written(f, j - 1) + f[j]
    <3>1. \A i \in 1..c : f[i] \in Int
      BY <1>1
    <3> HIDE DEF f
    <3> QED  BY <3>1, OneDigitMore
  <2>2. Written(f, j - 1) = n \div Pow10(c - (j - 1))
    BY <1>3
  <2>3. Pow10(c - (j - 1)) = 10 * Pow10(c - j) /\ Pow10(c - j) \in Nat \ {0}
    <3>1. c - j \in Nat /\ (c - j) + 1 = c - (j - 1)
      BY <1>3
    <3>2. Pow10((c - j) + 1) = 10 * Pow10(c - j)
      BY <3>1, Powers
    <3> QED  BY <3>1, <3>2, PowerTyped
  <2>4. f[j] = (n \div Pow10(c - j)) % 10
    OBVIOUS
  <2> HIDE DEF f
  <2>5. n \div Pow10(c - j) = 10 * (n \div (10 * Pow10(c - j))) + ((n \div Pow10(c - j)) % 10)
    <3> DEFINE p == Pow10(c - j)
    <3>1. p \in Nat \ {0}
      BY <2>3
    <3> HIDE DEF p
    <3>2. n \div p = 10 * (n \div (10 * p)) + ((n \div p) % 10)
      BY <3>1, LastDigit
    <3> QED  BY <3>2 DEF p
  <2>6. Written(f, j) = n \div Pow10(c - j)
    BY <2>1, <2>2, <2>3, <2>4, <2>5
  <2> QED  BY <2>6
<1>4. \A j \in 0..c : j \in Good
  <2> HIDE DEF Good
  <2> QED  BY <1>2, <1>3, CountedUp
<1>5. Written(f, c) = n
  <2>1. Written(f, c) = n \div Pow10(c - c)
    <3>1. c \in 0..c
      OBVIOUS
    <3>2. c \in Good
      BY <1>4, <3>1
    <3> QED  BY <3>2
  <2>2. c - c = 0 /\ n \div 1 = n
    OBVIOUS
  <2> QED  BY <2>1, <2>2, Powers
<1> HIDE DEF f
<1> QED  BY <1>1, <1>5 DEF f

\* A run of c digits.
Run(s, c) == s \in Seq(0..9) /\ Len(s) = c

LEMMA RunOf == ASSUME NEW c \in Nat, NEW f \in [1..c -> 0..9] PROVE Run(f, c)
BY DEF Run

\* One behind the other.
Joins(u, s, m, t, n) ==
  Run(u, m + n) /\ \A i \in 1..(m + n) : u[i] = IF i <= m THEN s[i] ELSE t[i - m]

LEMMA Joined ==
  ASSUME NEW m \in Nat, NEW n \in Nat, NEW s, NEW t, Run(s, m), Run(t, n)
  PROVE  Joins(s \o t, s, m, t, n)
BY DEF Run, Joins

LEMMA PartOf ==
  ASSUME NEW c \in Nat, NEW s, Run(s, c), NEW a \in 1..(c + 1), NEW b \in (a - 1)..c
  PROVE  /\ Run(SubSeq(s, a, b), b - a + 1)
         /\ \A i \in 1..(b - a + 1) : SubSeq(s, a, b)[i] = s[a + i - 1]
BY DEF Run

LEMMA ZerosRun ==
  ASSUME NEW z \in Nat PROVE Run(Zeros(z), z) /\ \A i \in 1..z : Zeros(z)[i] = 0
<1>1. Zeros(z) \in [1..z -> 0..9] /\ \A i \in 1..z : Zeros(z)[i] = 0
  BY DEF Zeros
<1> QED  BY <1>1, RunOf

LEMMA DigitsAre ==
  ASSUME NEW c \in Nat, NEW s, Run(s, c) PROVE Digits(s) = Written(s, c)
BY DEF Run, Digits, Written

\* The zeros that are trimmed are zeros.
LEMMA TrimmedIs ==
  ASSUME NEW d \in Nat, NEW s, Run(s, d)
  PROVE  \E k \in 0..d : Trimmed(s) = SubSeq(s, 1, k) /\ \A i \in (k + 1)..d : s[i] = 0
<1> DEFINE kept == {k \in 0..Len(s) : \A i \in (k + 1)..Len(s) : s[i] = 0}
           k == CHOOSE k \in kept : \A j \in kept : k <= j
<1>1. Len(s) = d /\ d \in kept
  BY DEF Run
<1>2. k \in kept
  <2>1. kept \subseteq Nat
    BY <1>1
  <2>0. kept # {}
    <3> HIDE DEF kept
    <3> QED  BY <1>1
  <2> HIDE DEF kept
  <2>2. \E n \in kept : \A j \in kept : n <= j
    BY <2>0, <2>1, LeastNumber
  <2> QED  BY <2>2
<1>3. Trimmed(s) = SubSeq(s, 1, k)
  BY DEF Trimmed
<1> HIDE DEF k
<1> QED  BY <1>1, <1>2, <1>3

\* The digits of a number are a run that writes it.
LEMMA DigitsOfIs ==
  ASSUME NEW n \in Nat, NEW w \in Nat, w <= MaxDigits, n < Pow10(MaxDigits)
  PROVE  \E c \in w..MaxDigits : Run(DigitsOf(n, w), c) /\ Written(DigitsOf(n, w), c) = n
<1> DEFINE long == {k \in w..MaxDigits : n < Pow10(k)}
           c == CHOOSE k \in long : \A j \in long : k <= j
           f == [i \in 1..c |-> (n \div Pow10(c - i)) % 10]
<1>1. MaxDigits \in Nat /\ MaxDigits \in long
  BY DEF MaxDigits
<1>2. c \in long
  <2>1. long \subseteq Nat /\ long # {}
    BY <1>1
  <2> HIDE DEF long
  <2>2. \E k \in long : \A j \in long : k <= j
    BY <2>1, LeastNumber
  <2> QED  BY <2>2
<1>3. DigitsOf(n, w) = f
  BY DEF DigitsOf
<1>4. c \in w..MaxDigits /\ c \in Nat /\ n < Pow10(c)
  BY <1>1, <1>2
<1> HIDE DEF c
<1>5. (\A i \in 1..c : f[i] \in 0..9) /\ Written(f, c) = n
  BY <1>4, DigitsWrite
<1>6. f \in [1..c -> 0..9]
  BY <1>5
<1> HIDE DEF f
<1>7. Run(f, c)
  BY <1>4, <1>6, RunOf
<1> QED  BY <1>3, <1>4, <1>5, <1>7

\* A run of c digits, cut in two before its last d; the first k of those, and what is
\* read of them with z zeros in the place of the others.
WholeDigits(s, c, d) == SubSeq(s, 1, c - d)
FracDigits(s, c, d, k) == SubSeq(SubSeq(s, c - d + 1, c), 1, k)
ReadCut(s, c, d, k, z) ==
  /\ Run(WholeDigits(s, c, d), c - d) /\ Run(FracDigits(s, c, d, k), k)
  /\ Digits(WholeDigits(s, c, d) \o FracDigits(s, c, d, k) \o Zeros(z)) = Written(s, c) * Pow10(z - (d - k))

\* Zeros are cut off and put back, and more of them behind.
LEMMA RunRead ==
  ASSUME NEW c \in Nat, NEW s, Run(s, c), NEW d \in 0..c, NEW k \in 0..d,
         \A i \in (k + 1)..d : SubSeq(s, c - d + 1, c)[i] = 0, NEW z \in Nat, d - k <= z
  PROVE  ReadCut(s, c, d, k, z)
<1> DEFINE int == SubSeq(s, 1, c - d)
           last == SubSeq(s, c - d + 1, c)
           frac == SubSeq(last, 1, k)
           both == int \o frac
           g == both \o Zeros(z)
           m == c - d + k
           N == m + z
<1>1. Run(int, c - d) /\ \A i \in 1..(c - d) : int[i] = s[i]
  <2>1. 1 \in 1..(c + 1) /\ c - d \in (1 - 1)..c /\ (c - d) - 1 + 1 = c - d
        /\ \A i \in 1..(c - d) : 1 + i - 1 = i
    OBVIOUS
  <2> DEFINE e == c - d
  <2>2. 1 \in 1..(c + 1) /\ e \in (1 - 1)..c /\ e - 1 + 1 = e
    BY <2>1
  <2> HIDE DEF e
  <2>3. Run(SubSeq(s, 1, e), e - 1 + 1) /\ \A i \in 1..(e - 1 + 1) : SubSeq(s, 1, e)[i] = s[1 + i - 1]
    BY <2>2, PartOf
  <2>4. Run(SubSeq(s, 1, e), e) /\ \A i \in 1..e : SubSeq(s, 1, e)[i] = s[1 + i - 1]
    BY <2>2, <2>3
  <2> QED  BY <2>1, <2>4 DEF e
<1>2. Run(last, d) /\ \A i \in 1..d : last[i] = s[c - d + i]
  <2>1. c - d + 1 \in 1..(c + 1) /\ c \in ((c - d + 1) - 1)..c /\ c - (c - d + 1) + 1 = d
        /\ \A i \in 1..d : (c - d + 1) + i - 1 = c - d + i
    OBVIOUS
  <2> DEFINE a == c - d + 1
  <2>2. Run(SubSeq(s, a, c), c - a + 1) /\ \A i \in 1..(c - a + 1) : SubSeq(s, a, c)[i] = s[a + i - 1]
    BY <2>1, PartOf
  <2> QED  BY <2>1, <2>2
<1> HIDE DEF int, last
<1>3. Run(frac, k) /\ \A i \in 1..k : frac[i] = s[c - d + i]
  <2>1. d \in Nat /\ 1 \in 1..(d + 1) /\ k \in (1 - 1)..d /\ k - 1 + 1 = k
        /\ \A i \in 1..k : 1 + i - 1 = i /\ i \in 1..d
    OBVIOUS
  <2>2. Run(frac, k) /\ \A i \in 1..k : frac[i] = last[i]
    BY <1>2, <2>1, PartOf
  <2> QED  BY <1>2, <2>1, <2>2
<1> HIDE DEF frac
<1>4. Run(both, m) /\ \A i \in 1..m : both[i] = s[i]
  <2>1. c - d \in Nat /\ k \in Nat
    OBVIOUS
  <2>2. Run(both, m) /\ \A i \in 1..m : both[i] = IF i <= c - d THEN int[i] ELSE frac[i - (c - d)]
    <3> DEFINE e == c - d
    <3>1. e \in Nat /\ Run(int, e)
      BY <1>1, <2>1
    <3> HIDE DEF e
    <3>2. Joins(both, int, e, frac, k)
      BY <1>3, <2>1, <3>1, Joined
    <3> HIDE DEF both
    <3> QED  BY <3>2 DEF e, Joins
  <2>3. ASSUME NEW i \in 1..m PROVE both[i] = s[i]
    <3>1. i <= c - d => i \in 1..(c - d)
      OBVIOUS
    <3>2. ~ (i <= c - d) => i - (c - d) \in 1..k /\ c - d + (i - (c - d)) = i
      OBVIOUS
    <3> QED  BY <1>1, <1>3, <2>2, <3>1, <3>2
  <2> QED  BY <2>2, <2>3
<1> HIDE DEF both
<1>5. Run(g, N) /\ \A i \in 1..N : g[i] = IF i <= m THEN s[i] ELSE 0
  <2>1. m \in Nat /\ \A i \in 1..N : i <= m \/ i - m \in 1..z
    OBVIOUS
  <2> HIDE DEF m
  <2>2. Run(g, N) /\ \A i \in 1..N : g[i] = IF i <= m THEN both[i] ELSE Zeros(z)[i - m]
    <3> DEFINE o == Zeros(z)
    <3>1. Run(o, z)
      BY ZerosRun
    <3> HIDE DEF o
    <3>2. Joins(both \o o, both, m, o, z)
      BY <1>4, <2>1, <3>1, Joined
    <3>3. g = both \o o /\ N = m + z
      BY DEF o
    <3> HIDE DEF g, N
    <3> QED  BY <3>2, <3>3 DEF Joins, o
  <2> HIDE DEF g
  <2> QED  BY <1>4, <2>1, <2>2, ZerosRun
<1> HIDE DEF g
<1>6. ASSUME NEW i \in 1..c PROVE i \in 1..N /\ g[i] = s[i]
  <2>1. i \in 1..N
    OBVIOUS
  <2>2. i > m => s[i] = 0
    <3>1. SUFFICES ASSUME i > m PROVE s[i] = 0
      OBVIOUS
    <3>2. i - (c - d) \in (k + 1)..d /\ i - (c - d) \in 1..d /\ c - d + (i - (c - d)) = i
      BY <3>1
    <3>3. last[i - (c - d)] = 0
      BY <3>2 DEF last
    <3> QED  BY <1>2, <3>2, <3>3
  <2> QED  BY <1>5, <2>1, <2>2
<1>7. Digits(g) = Written(g, N)
  <2>1. N \in Nat
    OBVIOUS
  <2> HIDE DEF N
  <2> QED  BY <1>5, <2>1, DigitsAre
<1>8. Written(g, c) = Written(s, c)
  <2>1. [i \in 1..c |-> g[i] * Pow10(c - i)] = [i \in 1..c |-> s[i] * Pow10(c - i)]
    BY <1>6
  <2> QED  BY <2>1 DEF Written
<1>9. Written(g, N) = Written(g, c) * Pow10(z - (d - k))
  <2> DEFINE y == z - (d - k)
  <2>1. y \in Nat /\ N = c + y /\ c + y \in Nat
    OBVIOUS
  <2>2. \A i \in 1..N : g[i] \in Int
    <3>1. ASSUME NEW i \in 1..N, i <= m PROVE s[i] \in Int
      <4>1. i \in 1..c
        BY <3>1
      <4> QED  BY <4>1 DEF Run
    <3> QED  BY <1>5, <3>1
  <2>3. \A i \in 1..N : i > c => g[i] = 0
    <3>1. ASSUME NEW i \in 1..N, i > c PROVE ~ (i <= m)
      BY <3>1
    <3> QED  BY <1>5, <3>1
  <2> HIDE DEF y, N
  <2>4. Written(g, c + y) = Written(g, c) * Pow10(y)
    BY <2>1, <2>2, <2>3, ZerosBehind
  <2> QED  BY <2>1, <2>4 DEF y
<1> QED  BY <1>1, <1>3, <1>7, <1>8, <1>9 DEF g, both, frac, int, last, ReadCut, WholeDigits, FracDigits

\* What is written of a number, and what a text of those digits is read as.
WritesOut(t, value, decimals, scale) ==
  /\ t = [negative |-> value < 0, int |-> t.int, frac |-> t.frac]
  /\ Len(t.frac) \in 0..decimals
  /\ Digits(t.int \o t.frac \o Zeros(scale - Len(t.frac))) = AbsInt(value) * Pow10(scale - decimals)

LEMMA WrittenOut ==
  ASSUME NEW value \in Int, NEW decimals \in Nat, decimals < MaxDigits,
         AbsInt(value) < Pow10(MaxDigits), NEW trim \in BOOLEAN, NEW scale \in Nat, decimals <= scale
  PROVE  WritesOut(FormatDecimal(value, decimals, trim), value, decimals, scale)
<1> DEFINE n == AbsInt(value)
           all == DigitsOf(n, decimals + 1)
<1>1. n \in Nat /\ decimals + 1 \in Nat /\ decimals + 1 <= MaxDigits
  BY DEF AbsInt, MaxDigits
<1>2. PICK c \in (decimals + 1)..MaxDigits : Run(all, c) /\ Written(all, c) = n
  <2> DEFINE w == decimals + 1
  <2>1. w \in Nat /\ w <= MaxDigits
    BY <1>1
  <2> HIDE DEF n, w
  <2>2. n < Pow10(MaxDigits)
    BY DEF n
  <2>3. \E c \in w..MaxDigits : Run(DigitsOf(n, w), c) /\ Written(DigitsOf(n, w), c) = n
    BY <1>1, <2>1, <2>2, DigitsOfIs
  <2> QED  BY <2>3 DEF w
<1> HIDE DEF n, all
<1>3. c \in Nat /\ decimals \in 0..c /\ Len(all) = c
  BY <1>2 DEF Run, MaxDigits
<1> DEFINE whole == SubSeq(all, 1, c - decimals)
           last == SubSeq(all, c - decimals + 1, c)
           frac == IF trim THEN Trimmed(last) ELSE last
           t == FormatDecimal(value, decimals, trim)
<1>4. t = [negative |-> value < 0, int |-> whole, frac |-> frac]
  BY <1>3 DEF FormatDecimal, all, n
<1>5. Run(last, decimals)
  <2> DEFINE a == c - decimals + 1
  <2>1. a \in 1..(c + 1) /\ c \in (a - 1)..c /\ c - a + 1 = decimals
    BY <1>3
  <2> HIDE DEF a
  <2>2. Run(SubSeq(all, a, c), c - a + 1)
    BY <1>2, <1>3, <2>1, PartOf
  <2> QED  BY <2>1, <2>2 DEF a
<1>6. PICK k \in 0..decimals : /\ frac = SubSeq(last, 1, k)
                               /\ \A i \in (k + 1)..decimals : last[i] = 0
  <2> HIDE DEF last
  <2>1. CASE trim
    BY <1>5, <2>1, TrimmedIs
  <2>2. CASE ~trim
    <3>1. frac = last /\ SubSeq(last, 1, decimals) = last /\ decimals \in 0..decimals
      BY <1>5, <2>2 DEF Run
    <3>2. \A i \in (decimals + 1)..decimals : last[i] = 0
      OBVIOUS
    <3> QED  BY <3>1, <3>2
  <2> QED  BY <2>1, <2>2
<1>7. /\ Run(whole, c - decimals) /\ Run(frac, k)
      /\ Digits(whole \o frac \o Zeros(scale - k)) = Written(all, c) * Pow10(scale - decimals)
  <2> DEFINE z == scale - k
  <2>1. z \in Nat /\ decimals - k <= z /\ z - (decimals - k) = scale - decimals
    OBVIOUS
  <2> HIDE DEF z
  <2>2. /\ Run(whole, c - decimals) /\ Run(SubSeq(last, 1, k), k)
        /\ Digits(whole \o SubSeq(last, 1, k) \o Zeros(z)) = Written(all, c) * Pow10(z - (decimals - k))
    <3>1. \A i \in (k + 1)..decimals : SubSeq(all, c - decimals + 1, c)[i] = 0
      BY <1>6
    <3>2. ReadCut(all, c, decimals, k, z)
      BY <1>2, <1>3, <1>6, <2>1, <3>1, RunRead
    <3> QED  BY <3>2 DEF ReadCut, WholeDigits, FracDigits
  <2> HIDE DEF whole, frac, last
  <2> QED  BY <1>6, <2>1, <2>2 DEF z
<1> HIDE DEF whole, frac
<1>8. t.int = whole /\ t.frac = frac /\ Len(frac) = k
  BY <1>4, <1>7 DEF Run
<1> QED  BY <1>2, <1>4, <1>7, <1>8 DEF n, WritesOut

LEMMA ReadAs ==
  ASSUME NEW t, NEW scale \in Nat, Len(t.frac) \in 0..scale, NEW mode
  PROVE  ParseDecimal(t, scale, FALSE, mode)
           = <<IF t.negative THEN -Digits(t.int \o t.frac \o Zeros(scale - Len(t.frac)))
               ELSE Digits(t.int \o t.frac \o Zeros(scale - Len(t.frac)))>>
BY DEF ParseDecimal

\* A number read at a larger scale than it was written with is worth the same.
LEMMA ReadLarger ==
  ASSUME NEW value \in Int, NEW decimals \in Nat, decimals < MaxDigits,
         AbsInt(value) < Pow10(MaxDigits), NEW trim \in BOOLEAN, NEW scale \in Nat, decimals <= scale
  PROVE  ParseDecimal(FormatDecimal(value, decimals, trim), scale, FALSE, "trunc")
           = <<value * Pow10(scale - decimals)>>
<1> DEFINE t == FormatDecimal(value, decimals, trim)
           p == Pow10(scale - decimals)
           x == Digits(t.int \o t.frac \o Zeros(scale - Len(t.frac)))
<1>1. /\ t = [negative |-> value < 0, int |-> t.int, frac |-> t.frac]
      /\ Len(t.frac) \in 0..decimals /\ x = AbsInt(value) * p
  BY WrittenOut DEF WritesOut
<1>2. t.negative = (value < 0) /\ Len(t.frac) \in 0..scale
  BY <1>1
<1>3. ParseDecimal(t, scale, FALSE, "trunc") = <<IF t.negative THEN -x ELSE x>>
  BY <1>2, ReadAs
<1>4. p \in Nat
  BY PowerTyped
<1> HIDE DEF t, x, p
<1>5. (IF value < 0 THEN -(AbsInt(value) * p) ELSE AbsInt(value) * p) = value * p
  BY <1>4 DEF AbsInt
<1> QED  BY <1>1, <1>2, <1>3, <1>5 DEF t, p

\* What is written of an amount is read back as the same amount, trimmed or not, with
\* any number of decimals (formatDecimal and parseDecimal of
\* packages/shared/src/money/fixed-point.ts), as far as the model counts.
THEOREM AmountsReadBack ==
  ASSUME NEW value \in Int, NEW decimals \in Nat, decimals < MaxDigits,
         AbsInt(value) < Pow10(MaxDigits), NEW trim \in BOOLEAN
  PROVE  ReadBack(value, decimals, trim)
<1>1. ParseDecimal(FormatDecimal(value, decimals, trim), decimals, FALSE, "trunc")
        = <<value * Pow10(decimals - decimals)>>
  <2>1. decimals <= decimals
    OBVIOUS
  <2> QED  BY <2>1, ReadLarger
<1>2. decimals - decimals = 0 /\ value * 1 = value
  OBVIOUS
<1> QED  BY <1>1, <1>2, Powers DEF ReadBack

\* What has more places than the scale is refused, not cut, and nothing else is
\* (parseDecimal of packages/shared/src/money/fixed-point.ts).
THEOREM NeverCut ==
  ASSUME NEW text, NEW decimals \in Nat, Len(text.frac) \in Nat
  PROVE  RefusedNotCut(text, decimals)
<1>1. \A x : <<x>> # <<>>
  OBVIOUS
<1> QED  BY <1>1 DEF RefusedNotCut, ParseDecimal

LEMMA TruncOdd ==
  ASSUME NEW n \in Int, NEW d \in Nat \ {0} PROVE TruncDiv(-n, d) = -TruncDiv(n, d)
<1>1. CASE n = 0
  <2>1. 0 \div d = 0
    OBVIOUS
  <2> QED  BY <1>1, <2>1 DEF TruncDiv
<1>2. CASE n > 0
  <2>1. n \div d \in Nat /\ -(-n) = n /\ -n < 0 /\ ~ (n < 0)
    BY <1>2
  <2> QED  BY <2>1 DEF TruncDiv
<1>3. CASE n < 0
  <2>1. (-n) \div d \in Nat /\ ~ (-n < 0)
    BY <1>3
  <2> DEFINE q == (-n) \div d
  <2> HIDE DEF q
  <2>2. TruncDiv(n, d) = -q /\ TruncDiv(-n, d) = q /\ -(-q) = q
    BY <1>3, <2>1 DEF TruncDiv, q
  <2> QED  BY <2>2
<1> QED  BY <1>1, <1>2, <1>3

\* Half away from zero is the same on both sides of it.
LEMMA HalfUpOdd ==
  ASSUME NEW n \in Int, NEW d \in Nat \ {0}
  PROVE  /\ DivideRounded(-n, d, "half-up") = -DivideRounded(n, d, "half-up")
         /\ n >= 0 => DivideRounded(n, d, "half-up") >= 0
         /\ DivideRounded(n, d, "half-up") \in Int
<1> DEFINE q == TruncDiv(n, d)
           p == q * d
           o == TruncDiv(-n, d)
           r == n - p
<1>1. q \in Int /\ p \in Int /\ AbsInt(n - p) < d /\ (n >= 0 => q >= 0)
  BY TruncDivides, TruncSigned
<1>2. o = -q
  BY TruncOdd
<1>3. o * d = -p
  <2> HIDE DEF q, o
  <2>1. (-q) * d = -(q * d)
    BY <1>1
  <2> QED  BY <1>2, <2>1
<1>4. \A m : DivideRounded(m, d, "half-up") = Rounded(m, d, "half-up")
  BY DEF DivideRounded
<1>5. Rounded(n, d, "half-up") = IF r = 0 THEN q ELSE IF 2 * AbsInt(r) >= d THEN AwayFromZero(n, q) ELSE q
  BY DEF Rounded
<1>6. Rounded(-n, d, "half-up")
        = LET s == -n - o * d
          IN  IF s = 0 THEN o ELSE IF 2 * AbsInt(s) >= d THEN AwayFromZero(-n, o) ELSE o
  BY DEF Rounded
<1>7. n = 0 => r = 0
  BY <1>1 DEF AbsInt
<1> HIDE DEF q, o, p
<1>8. -n - o * d = -r /\ AbsInt(-r) = AbsInt(r) /\ r \in Int
  BY <1>1, <1>3 DEF AbsInt
<1> DEFINE s == -n - o * d
<1>9. /\ Rounded(n, d, "half-up") \in Int
      /\ n >= 0 => Rounded(n, d, "half-up") >= 0
  BY <1>1, <1>5 DEF AwayFromZero
<1>10. Rounded(-n, d, "half-up") = -Rounded(n, d, "half-up")
  <2>1. Rounded(-n, d, "half-up")
        = IF s = 0 THEN o ELSE IF 2 * AbsInt(s) >= d THEN AwayFromZero(-n, o) ELSE o
    BY <1>6
  <2>2. s = -r /\ AbsInt(s) = AbsInt(r)
    BY <1>8
  <2> HIDE DEF s, r
  <2>3. r \in Int /\ (n = 0 => r = 0) /\ (s = 0 <=> r = 0)
    BY <1>7, <1>8, <2>2
  <2>4. n # 0 => AwayFromZero(-n, o) = -AwayFromZero(n, q)
    BY <1>1, <1>2 DEF AwayFromZero
  <2> QED  BY <1>1, <1>2, <1>5, <2>1, <2>2, <2>3, <2>4
<1> QED  BY <1>4, <1>9, <1>10

\* A multiple of u within half of u of an amount that is not larger.
LEMMA NotLarger ==
  ASSUME NEW v \in Nat, NEW u \in Nat, u >= 2, NEW r \in Nat, NEW x, x = r * u, 2 * AbsInt(x - v) <= u
  PROVE  r <= v
<1> SUFFICES ASSUME v + 1 <= r PROVE FALSE
  OBVIOUS
<1> DEFINE y == v * u
<1>1. x \in Nat /\ y \in Nat /\ x >= y + u
  <2>1. r * u >= v * u + 1 * u
    BY Apart
  <2> QED  BY <2>1
<1>2. y >= v
  BY v * u >= v * 1
<1> HIDE DEF y
<1> QED  BY <1>1, <1>2 DEF AbsInt

\* What an amount is rounded to for the eye, and the same of its magnitude.
LEMMA Rescaled ==
  ASSUME NEW value \in Int, NEW decimals \in Nat, NEW places \in 0..decimals
  PROVE  LET u == Pow10(decimals - places)
             r == Rescale(value, decimals, places, "half-up")
             f == Rescale(AbsInt(value), decimals, places, "half-up")
         IN  /\ u \in Nat \ {0} /\ r \in Int /\ f \in Nat /\ r * u \in Int
             /\ r = IF value < 0 THEN -f ELSE f
             /\ f <= AbsInt(value) /\ 2 * AbsInt(r * u - value) <= u
<1> DEFINE u == Pow10(decimals - places)
           r == Rescale(value, decimals, places, "half-up")
           f == Rescale(AbsInt(value), decimals, places, "half-up")
           v == AbsInt(value)
<1>1. u \in Nat \ {0} /\ v \in Nat /\ value \in Int /\ (value = IF value < 0 THEN -v ELSE v)
  BY PowerTyped DEF AbsInt
<1>2. CASE places = decimals
  <2>1. r = value * 1 /\ f = v * 1 /\ u = 1
    BY <1>2, Powers DEF Rescale
  <2>2. r = value /\ f = v /\ r * u = value /\ 2 * AbsInt(value - value) <= 1
    BY <1>1, <2>1 DEF AbsInt
  <2> HIDE DEF r, f, u, v
  <2> QED  BY <1>1, <2>1, <2>2 DEF v, r, f, u
<1>3. CASE places < decimals
  <2>1. r = DivideRounded(value, u, "half-up") /\ f = DivideRounded(v, u, "half-up")
    BY <1>3 DEF Rescale
  <2>2. u >= 2
    <3> DEFINE n == decimals - places - 1
    <3>1. n \in Nat /\ n + 1 = decimals - places
      BY <1>3
    <3> HIDE DEF n
    <3>2. Pow10(n) \in Nat \ {0} /\ Pow10(n + 1) = 10 * Pow10(n)
      BY <3>1, PowerTyped, Powers
    <3> QED  BY <3>1, <3>2
  <2> HIDE DEF u, r, f, v
  <2>3. ASSUME NEW n \in Int
        PROVE  /\ DivideRounded(n, u, "half-up") \in Int /\ DivideRounded(n, u, "half-up") * u \in Int
               /\ 2 * AbsInt(DivideRounded(n, u, "half-up") * u - n) <= u
    <3> DEFINE q == DivideRounded(n, u, "half-up")
               e == q * u
    <3>1. u \in Int \ {0} /\ AbsInt(u) = u /\ ~ (u < 0) /\ "half-up" \in RoundingModes
      BY <1>1 DEF AbsInt, RoundingModes
    <3>2. q \in Int /\ RoundsAs(n, u, "half-up")
      BY <3>1, RoundedAsNamed
    <3>3. 2 * AbsInt((e - n) * 1) <= u
      BY <3>1, <3>2 DEF RoundsAs
    <3>4. e \in Int
      <4> HIDE DEF q
      <4> QED  BY <1>1, <3>2
    <3> HIDE DEF e, q
    <3>5. (e - n) * 1 = e - n
      BY <3>4
    <3> QED  BY <3>2, <3>3, <3>4, <3>5 DEF e, q
  <2>4. r \in Int /\ r * u \in Int /\ 2 * AbsInt(r * u - value) <= u
    BY <1>1, <2>1, <2>3
  <2>5. f \in Nat /\ 2 * AbsInt(f * u - v) <= u
    <3>1. f \in Int /\ f >= 0
      BY <1>1, <2>1, HalfUpOdd
    <3> QED  BY <1>1, <2>1, <2>3, <3>1
  <2>6. r = IF value < 0 THEN -f ELSE f
    <3>1. DivideRounded(-v, u, "half-up") = -f
      BY <1>1, <2>1, HalfUpOdd
    <3> QED  BY <1>1, <2>1, <3>1
  <2>7. f <= v
    <3> DEFINE x == f * u
    <3>1. x = f * u /\ 2 * AbsInt(x - v) <= u /\ u \in Nat
      BY <1>1, <2>5
    <3> HIDE DEF x
    <3> QED  BY <1>1, <2>2, <2>5, <3>1, NotLarger
  <2> QED  BY <1>1, <2>4, <2>5, <2>6, <2>7 DEF u, r, f, v
<1> QED  BY <1>2, <1>3

\* What is shown of an amount is the amount, to within half of the last place shown, for
\* a token and for a currency alike (toDisplayString of
\* packages/shared/src/money/token.ts and formatFiat of format.ts), as far as the model counts.
THEOREM AmountsShown ==
  ASSUME NEW value \in Int, NEW decimals \in Nat, NEW places \in 0..decimals,
         decimals < MaxDigits, AbsInt(value) < Pow10(MaxDigits)
  PROVE  ShownAsIs(value, decimals, places)
<1> DEFINE u == Pow10(decimals - places)
           r == Rescale(value, decimals, places, "half-up")
           f == Rescale(AbsInt(value), decimals, places, "half-up")
           v == AbsInt(value)
           token == ParseDecimal(ToDisplay(value, decimals, places), decimals, FALSE, "trunc")
           fiat == ParseDecimal(FormatFiat(value, decimals, places), decimals, FALSE, "trunc")
           text == FormatDecimal(f, places, FALSE)
           x == Digits(text.int \o text.frac \o Zeros(decimals - Len(text.frac)))
<1>1. /\ u \in Nat \ {0} /\ r \in Int /\ f \in Nat /\ r * u \in Int
      /\ r = IF value < 0 THEN -f ELSE f
      /\ f <= v /\ 2 * AbsInt(r * u - value) <= u
  BY Rescaled
<1>2. MaxDigits \in Nat /\ Pow10(MaxDigits) \in Nat /\ v \in Nat
  BY PowerTyped DEF MaxDigits, AbsInt
<1>3. AbsInt(r) < Pow10(MaxDigits) /\ AbsInt(f) < Pow10(MaxDigits) /\ AbsInt(f) = f
  <2> HIDE DEF u, r, f, v
  <2>1. AbsInt(r) = f /\ AbsInt(f) = f
    BY <1>1 DEF AbsInt
  <2>2. v < Pow10(MaxDigits)
    BY DEF v
  <2> QED  BY <1>1, <1>2, <2>1, <2>2
<1>4. places \in Nat /\ places < MaxDigits /\ places <= decimals /\ decimals \in Nat
  BY <1>2
<1>5. token = <<r * u>>
  <2>1. ToDisplay(value, decimals, places) = FormatDecimal(r, places, TRUE)
    <3>1. MinInt(decimals, places) = places
      BY <1>4 DEF MinInt
    <3> QED  BY <3>1 DEF ToDisplay
  <2> HIDE DEF r
  <2>2. ParseDecimal(FormatDecimal(r, places, TRUE), decimals, FALSE, "trunc")
          = <<r * Pow10(decimals - places)>>
    BY <1>1, <1>3, <1>4, ReadLarger
  <2> QED  BY <2>1, <2>2
<1>6. fiat = <<IF value < 0 THEN -(f * u) ELSE f * u>>
  <2>1. /\ text = [negative |-> f < 0, int |-> text.int, frac |-> text.frac]
        /\ Len(text.frac) \in 0..places /\ x = AbsInt(f) * u
    <3> HIDE DEF f
    <3>0. f \in Int /\ FALSE \in BOOLEAN
      BY <1>1
    <3>1. ASSUME NEW b \in BOOLEAN PROVE WritesOut(FormatDecimal(f, places, b), f, places, decimals)
      BY <1>3, <1>4, <3>0, WrittenOut
    <3>2. WritesOut(text, f, places, decimals)
      BY <3>0, <3>1
    <3> HIDE DEF text
    <3> QED  BY <3>2 DEF WritesOut
  <2> DEFINE t == FormatFiat(value, decimals, places)
  <2>2. t = [text EXCEPT !.negative = value < 0]
    BY DEF FormatFiat
  <2> HIDE DEF text, t
  <2>3. t.negative = (value < 0) /\ t.int = text.int /\ t.frac = text.frac
    BY <2>1, <2>2
  <2>4. Len(t.frac) \in 0..decimals
    BY <1>4, <2>1, <2>3
  <2>5. ParseDecimal(t, decimals, FALSE, "trunc") = <<IF t.negative THEN -x ELSE x>>
    BY <1>4, <2>3, <2>4, ReadAs
  <2> HIDE DEF x, f, u
  <2> QED  BY <1>3, <2>1, <2>3, <2>5 DEF t
<1>7. token[1] = r * u /\ fiat[1] = r * u
  <2> HIDE DEF token, fiat, r, f, u
  <2>1. -(f * u) = (-f) * u
    BY <1>1
  <2> QED  BY <1>1, <1>5, <1>6, <2>1
<1> HIDE DEF r, f
<1> QED  BY <1>1, <1>7 DEF ShownAsIs

\* A rate times its inverse is 1, to within the rounding of the inverse, of any rate
\* written with any number of decimals (invert of
\* packages/shared/src/money/rate.ts).
THEOREM RatesInvert ==
  ASSUME NEW rate \in Nat \ {0}, NEW scale \in Nat
  PROVE  2 * AbsInt(InvertRate(rate, scale) * rate - Pow10(scale) * Pow10(scale)) <= rate
<1> DEFINE n == Pow10(scale) * Pow10(scale)
<1>1. n \in Int
  <2> DEFINE p == Pow10(scale)
  <2>1. p \in Nat
    BY PowerTyped
  <2> HIDE DEF p
  <2>2. p * p \in Int
    BY <2>1
  <2> QED  BY <2>2 DEF p
<1>2. InvertRate(rate, scale) = DivideRounded(n, rate, "half-even")
  BY DEF InvertRate, MulDiv
<1> HIDE DEF n
<1>3. 2 * AbsInt(DivideRounded(n, rate, "half-even") * rate - n) <= rate
  BY <1>1, HalfEven
<1> QED  BY <1>2, <1>3 DEF n

-----------------------------------------------------------------------------
(* The figures the run evaluates are among those: each of its sets is part of    *)
(* what the theorems range over.                                                 *)

LEMMA FirstPowers ==
  /\ Pow10(0) = 1 /\ Pow10(1) = 10 /\ Pow10(2) = 100 /\ Pow10(4) = 10000
  /\ Pow10(MaxDigits) > 1000
<1>1. \A n \in Nat : Pow10(n + 1) = 10 * Pow10(n)
  BY Powers
<1>2. Pow10(0) = 1 /\ Pow10(0 + 1) = 10 * Pow10(0) /\ Pow10(1 + 1) = 10 * Pow10(1)
      /\ Pow10(2 + 1) = 10 * Pow10(2) /\ Pow10(3 + 1) = 10 * Pow10(3) /\ Pow10(4 + 1) = 10 * Pow10(4)
      /\ Pow10(5 + 1) = 10 * Pow10(5) /\ Pow10(6 + 1) = 10 * Pow10(6)
      /\ Pow10(7 + 1) = 10 * Pow10(7) /\ Pow10(8 + 1) = 10 * Pow10(8)
  BY <1>1, Powers
<1>3. 0 + 1 = 1 /\ 1 + 1 = 2 /\ 2 + 1 = 3 /\ 3 + 1 = 4 /\ 4 + 1 = 5 /\ 5 + 1 = 6 /\ 6 + 1 = 7
      /\ 7 + 1 = 8 /\ 8 + 1 = 9
  OBVIOUS
<1> QED  BY <1>2, <1>3 DEF MaxDigits

LEMMA MoneyExact == MoneyIsExact
<1>1. RoundsAsNamed
  <2>1. Small \subseteq Int /\ (-5..5) \ {0} \subseteq Int \ {0}
    BY DEF Small
  <2> QED  BY <2>1, RoundedAsNamed DEF RoundsAsNamed
<1>2. DecimalsRoundTrip
  <2>1. ASSUME NEW value \in -120..120, NEW decimals \in Scales, NEW trim \in BOOLEAN
        PROVE  ReadBack(value, decimals, trim)
    <3>1. value \in Int /\ AbsInt(value) <= 120 /\ AbsInt(value) \in Int
      BY DEF AbsInt
    <3>2. decimals \in Nat /\ decimals < MaxDigits /\ Pow10(MaxDigits) \in Int
      BY PowerTyped DEF Scales, MaxDigits
    <3> QED  BY <3>1, <3>2, FirstPowers, AmountsReadBack
  <2>2. ASSUME NEW text \in Texts, NEW decimals \in Scales PROVE RefusedNotCut(text, decimals)
    <3>1. Len(text.frac) \in Nat /\ decimals \in Nat
      BY DEF Texts, Scales
    <3> QED  BY <3>1, NeverCut
  <2> QED  BY <2>1, <2>2 DEF DecimalsRoundTrip
<1>3. AllocatesAll
  <2>1. Small \subseteq Int /\ 1..5 \subseteq Nat \ {0}
    BY DEF Small
  <2> QED  BY <2>1, AllocatedAll DEF AllocatesAll
<1>4. ConvertsEvenly
  <2>1. ASSUME NEW a \in Small, NEW rate \in {1, 5, 37, 150}
        PROVE  /\ ConvertFiat(a, rate, 1, 2, 2) = WorthOf(a, rate, 10)
               /\ ValueOfToken(a, rate, 1, 2, 1) = WorthOf(a, rate * 10, 1000)
    <3>1. MaxInt(0, 2 - 2) = 0 /\ rate * 1 = rate /\ 10 * 1 = 10 /\ 100 * 10 = 1000
      BY DEF MaxInt
    <3> QED  BY <3>1, FirstPowers DEF ConvertFiat, ValueOfToken
  <2>2. ASSUME NEW a \in Small, NEW b \in Small, NEW rate \in {1, 5, 37, 150}
        PROVE  /\ ConvertFiat(-a, rate, 1, 2, 2) = -ConvertFiat(a, rate, 1, 2, 2)
               /\ ValueOfToken(-a, rate, 1, 2, 1) = -ValueOfToken(a, rate, 1, 2, 1)
               /\ a <= b => /\ ConvertFiat(a, rate, 1, 2, 2) <= ConvertFiat(b, rate, 1, 2, 2)
                            /\ ValueOfToken(a, rate, 1, 2, 1) <= ValueOfToken(b, rate, 1, 2, 1)
    <3>1. -a \in Small /\ a \in Int /\ b \in Int /\ rate \in Nat /\ rate * 10 \in Nat
          /\ 10 \in Nat \ {0} /\ 1000 \in Nat \ {0}
      BY DEF Small
    <3>2. /\ WorthOf(-a, rate, 10) = -WorthOf(a, rate, 10)
          /\ a <= b => WorthOf(a, rate, 10) <= WorthOf(b, rate, 10)
      BY <3>1, ConvertedEvenly
    <3>3. /\ WorthOf(-a, rate * 10, 1000) = -WorthOf(a, rate * 10, 1000)
          /\ a <= b => WorthOf(a, rate * 10, 1000) <= WorthOf(b, rate * 10, 1000)
      BY <3>1, ConvertedEvenly
    <3> QED  BY <2>1, <3>1, <3>2, <3>3
  <2>3. ASSUME NEW rate \in 1..100
        PROVE  2 * AbsInt(InvertRate(rate, 2) * rate - Pow10(4)) <= rate
    <3>1. Pow10(2) * Pow10(2) = Pow10(4) /\ rate \in Nat \ {0} /\ 2 \in Nat
      BY FirstPowers
    <3> QED  BY <3>1, RatesInvert
  <2> QED  BY <2>2, <2>3 DEF ConvertsEvenly
<1>5. ShownRounded
  <2>1. ASSUME NEW value \in -120..120, NEW places \in 0..2 PROVE ShownAsIs(value, 2, places)
    <3>1. value \in Int /\ AbsInt(value) <= 120 /\ AbsInt(value) \in Int
      BY DEF AbsInt
    <3>2. 2 \in Nat /\ 2 < MaxDigits /\ Pow10(MaxDigits) \in Int
      BY PowerTyped DEF MaxDigits
    <3> QED  BY <3>1, <3>2, FirstPowers, AmountsShown
  <2> QED  BY <2>1 DEF ShownRounded
<1> QED  BY <1>1, <1>2, <1>3, <1>4, <1>5 DEF MoneyIsExact

LEMMA PricesHold ==
  ASSUME NEW assets \in [{"bnb", "trx"} -> AssetStates], NEW answers \in PriceAnswerLists
  PROVE  PricesFound(assets, answers, PricePolicy)
<1>1. PricePolicy \in PricePolicies
  BY DEF PricePolicy, PricePolicies
<1>2. ASSUME NEW a \in AssetStates PROVE a \in PriceRows
  <2>1. CASE \E n \in {Null, 0, 2, 4, 5} :
               a = [listed |-> TRUE, loaded |-> Null, age |-> Null, stored |-> n]
    BY <2>1 DEF PriceRows, Ages
  <2>2. CASE \E l \in BOOLEAN, n \in {1, 2} :
               a = [listed |-> l, loaded |-> n, age |-> n + 1, stored |-> Null]
    <3>1. PICK l \in BOOLEAN, n \in {1, 2} :
               a = [listed |-> l, loaded |-> n, age |-> n + 1, stored |-> Null]
      BY <2>2
    <3>2. n \in Ages /\ n + 1 \in Ages /\ n + 1 # Null /\ Null \in Ages
      BY DEF Ages, Null
    <3> QED  BY <3>1, <3>2 DEF PriceRows
  <2> QED  BY <1>2, <2>1, <2>2 DEF AssetStates
<1> DEFINE named == {"bnb", "trx"}
<1>3. answers \in Seq(PriceAnswers(named))
  <2>1. PICK n \in 0..2 : answers \in [1..n -> PriceAnswers(named)]
    BY DEF PriceAnswerLists, PriceAnswers
  <2>2. n \in Nat
    BY <2>1
  <2> HIDE DEF named
  <2> QED  BY <2>1, <2>2
<1> HIDE DEF named
<1> QED  BY <1>1, <1>2, <1>3, PricesAlwaysFound

LEMMA TotalsHold ==
  ASSUME NEW raw \in [{"bnb", "trx"} -> 0..2], NEW prices \in [{"bnb", "trx"} -> PriceStates],
         NEW cash \in [USD : {0, 5}, ILS : {0, 7}], NEW fx \in RateStates
  PROVE  TotalIsWhole(raw, prices, cash, fx, PricePolicy)
<1> DEFINE assets == {"bnb", "trx"}
<1>1. IsFiniteSet(assets)
  <2>1. IsFiniteSet({"bnb"}) /\ assets = {"bnb"} \cup {"trx"} /\ IsFiniteSet({"trx"})
    BY FS_Singleton
  <2> HIDE DEF assets
  <2> QED  BY <2>1, FS_Union
<1>2. raw \in [assets -> Nat]
  OBVIOUS
<1>3. \A a \in assets : prices[a].age \in Ages /\ prices[a].usd \in Nat \ {0}
  BY DEF PriceStates, Ages, Null
<1>4. cash.USD \in Int /\ cash.ILS \in Int
  OBVIOUS
<1>5. /\ \A a \in assets : fx[a] \in Rate0
      /\ fx.USD \in Rate0 /\ fx.ILS \in Rate0 /\ fx.stale \in BOOLEAN
  <2>1. fx["bnb"] = fx.bnb /\ fx["trx"] = fx.trx
    OBVIOUS
  <2>2. /\ fx.USD \in {Null, 3} /\ fx.ILS \in {Null, 3} /\ fx.stale \in BOOLEAN
        /\ fx.bnb \in {Null, 3} /\ fx.trx \in {3}
    BY DEF RateStates
  <2> QED  BY <2>1, <2>2 DEF Rate0, Null
<1>6. PricePolicy.maxStaleness \in Nat
  BY DEF PricePolicy
<1> HIDE DEF assets
<1> QED  BY <1>1, <1>2, <1>3, <1>4, <1>5, <1>6, TotalsAreWhole

LEMMA OverviewsHold ==
  ASSUME NEW rows \in [1..2 -> ShownRows], NEW limit \in 1..2
  PROVE  OverviewAddsUp(rows, 4, 7, 2, limit)
<1>1. IsFiniteSet(DOMAIN rows) /\ DOMAIN rows = 1..2
  <2>1. IsFiniteSet({1}) /\ IsFiniteSet({2})
    BY FS_Singleton
  <2>2. IsFiniteSet({1} \cup {2})
    BY <2>1, FS_Union
  <2>3. DOMAIN rows = {1} \cup {2} /\ DOMAIN rows = 1..2
    OBVIOUS
  <2> QED  BY <2>2, <2>3
<1>2. ASSUME NEW i \in 1..2
      PROVE  /\ rows[i].direction \in {"in", "out"} /\ rows[i].value \in Int
             /\ rows[i].at \in Int /\ rows[i].counts \in BOOLEAN
  <2>1. rows[i] \in RowKinds
    BY DEF ShownRows
  <2>2. {Null, -2, 1} \subseteq Int /\ 0..7 \subseteq Int
    BY DEF Null
  <2> QED  BY <2>1, <2>2 DEF RowKinds
<1>3. PeriodRows(rows)
  BY <1>1, <1>2 DEF PeriodRows
<1> QED  BY <1>3, OverviewsAddUp

LEMMA AlertsHold ==
  ASSUME NEW history \in ShownHistories PROVE AlertsAreTrue(history, [low |-> 20, high |-> 70])
<1>1. history \in RateHistories
  <2>1. PICK m \in [first : 3670..3690, dip : {3300}, last : 3660..3700, days : {1, 5}] :
           history = <<[rate |-> m.first, age |-> 0], [rate |-> m.dip, age |-> 0],
                       [rate |-> m.last, age |-> m.days]>>
    BY DEF ShownHistories
  <2> DEFINE x == [rate |-> m.first, age |-> 0]
             y == [rate |-> m.dip, age |-> 0]
             z == [rate |-> m.last, age |-> m.days]
             R == [rate : Nat, age : Nat]
  <2>2. x \in R /\ y \in R /\ z \in R
    <3>1. m.first \in Nat /\ m.dip \in Nat /\ m.last \in Nat /\ m.days \in Nat
      BY <2>1
    <3> QED  BY <3>1
  <2>3. history = <<x, y, z>>
    BY <2>1
  <2> HIDE DEF x, y, z, R
  <2>4. history \in Seq(R)
    BY <2>2, <2>3
  <2> QED  BY <2>4 DEF R, RateHistories
<1> DEFINE thresholds == [low |-> 20, high |-> 70]
<1>2. thresholds \in [{"low", "high"} -> Nat]
  OBVIOUS
<1> HIDE DEF thresholds
<1>3. AlertsAreTrue(history, thresholds)
  BY <1>1, <1>2, AlertsAlwaysTrue
<1> QED  BY <1>3 DEF thresholds

LEMMA ReportsHold ==
  ASSUME NEW app \in AppStates, NEW current \in 0..3, NEW target \in 0..3
  PROVE  ReportsSpeakTrue(app, [totalUsd |-> IF app.deep THEN Null ELSE 0, partial |-> app.deep],
                          current, target)
<1> DEFINE summary == [totalUsd |-> IF app.deep THEN Null ELSE 0, partial |-> app.deep]
<1>1. app \in Services
  <2>1. /\ 0..1 \subseteq Nat /\ {0, 501} \subseteq Nat /\ {10} \subseteq Nat /\ {2} \subseteq Nat
        /\ {TRUE} \subseteq BOOLEAN
    OBVIOUS
  <2>2. {Null, 0, 9, 11} \subseteq Ages
    BY DEF Ages
  <2> HIDE DEF Null
  <2> DEFINE N == Nat
             A == Ages
             D == 0..1
             Q == {0, 501}
             R == {Null, 0, 9, 11}
             M == {10}
             F == {2}
             S == {TRUE}
             B == BOOLEAN
  <2>3. D \subseteq N /\ Q \subseteq N /\ M \subseteq N /\ F \subseteq N /\ S \subseteq B /\ R \subseteq A
    BY <2>1, <2>2
  <2>4. app \in [database : B, dead : D, queued : Q, rateAge : R, maxStaleness : M, refresh : F,
                 deep : B, chain : B, signer : S, telegram : B]
    BY DEF AppStates
  <2>5. Services = [database : B, dead : N, queued : N, rateAge : A, maxStaleness : N,
                    refresh : N, deep : B, chain : B, signer : B, telegram : B]
    BY DEF Services
  <2> HIDE DEF N, A, D, Q, R, M, F, S, B
  <2>6. app \in [database : B, dead : N, queued : N, rateAge : A, maxStaleness : N,
                    refresh : N, deep : B, chain : B, signer : B, telegram : B]
    BY <2>3, <2>4
  <2> QED  BY <2>5, <2>6
<1>2. summary.totalUsd = Null => summary.partial
  BY <1>1 DEF Null, Services
<1> HIDE DEF summary
<1>3. ReportsSpeakTrue(app, summary, current, target)
  BY <1>1, <1>2, ReportsAlwaysTrue
<1> QED  BY <1>3 DEF summary

\* The figures of the run agree in every instance of the ledger.
THEOREM FiguresAlwaysAgree == Spec => []FiguresAgree
<1>1. FiguresHold
  <2>1. MoneyIsExact
    BY MoneyExact
  <2>2. \A assets \in [{"bnb", "trx"} -> AssetStates], answers \in PriceAnswerLists :
          PricesFound(assets, answers, PricePolicy)
    BY PricesHold
  <2>3. \A raw \in [{"bnb", "trx"} -> 0..2], prices \in [{"bnb", "trx"} -> PriceStates],
          cash \in [USD : {0, 5}, ILS : {0, 7}], fx \in RateStates :
          TotalIsWhole(raw, prices, cash, fx, PricePolicy)
    BY TotalsHold
  <2>4. \A rows \in [1..2 -> ShownRows], limit \in 1..2 : OverviewAddsUp(rows, 4, 7, 2, limit)
    BY OverviewsHold
  <2>5. \A day \in 0..364, first \in 0..6 : PeriodsNest(day, first)
    BY PeriodsAlwaysNest
  <2>6. \A history \in ShownHistories : AlertsAreTrue(history, [low |-> 20, high |-> 70])
    BY AlertsHold
  <2>7. \A app \in AppStates, current \in 0..3, target \in 0..3 :
          ReportsSpeakTrue(app, [totalUsd |-> IF app.deep THEN Null ELSE 0, partial |-> app.deep],
                           current, target)
    BY ReportsHold
  <2> QED  BY <2>1, <2>2, <2>3, <2>4, <2>5, <2>6, <2>7 DEF FiguresHold
<1>2. FiguresAgree
  BY <1>1 DEF FiguresAgree
<1> QED  BY <1>2, PTL
=============================================================================
