----------------------------- MODULE CashLedger -----------------------------
(***************************************************************************)
(* The manual side of the ledger: cash transactions and the balances a     *)
(* trigger keeps beside them (core/src/services/transactions.ts, the cash  *)
(* triggers of 0006_functions.sql), expected income that turns into a      *)
(* ledger row, savings goals (core/src/services/planning.ts), and the      *)
(* paged history.                                                          *)
(*                                                                         *)
(* An execution is one run of a request handler.  Two executions with one  *)
(* key are a double tap, or a request sent again because its answer was    *)
(* lost.  A handler's database transaction is two steps, what it reads     *)
(* first and what it commits: under READ COMMITTED other transactions      *)
(* commit between the two.  One user, one expected income, one goal.       *)
(***************************************************************************)
EXTENDS Money, Sequences, FiniteSets

CONSTANTS
    Executions,     \* runs of request handlers
    Keys,           \* idempotency keys the clients generate
    None,
    Ids,            \* ids of ledger rows: random, so in no order of insertion
    Amounts,        \* amounts a client may send, in minor units
    Times,          \* values of occurred_at
    PageSize        \* rows a page of the history holds

\* The key of the row an expected income records when the client sends none.
IncomeKey == "expected-income"

ASSUME LedgerAssumption ==
    /\ None \notin Keys \cup Ids /\ IncomeKey \notin Keys /\ Ids \subseteq Nat /\ Amounts \subseteq Int
    /\ Times \subseteq Nat /\ PageSize \in Nat \ {0}

VARIABLES
    accounts,   \* cash_accounts, in order of creation
    ledger,     \* transactions: [Ids -> row or None]
    income,     \* the expected_income row
    goal,       \* the financial_goals row
    counted,    \* how often a contribution under each key was added (history)
    exec,       \* what each execution is about and how far it is
    reader      \* a client that reads the history page by page

vars == <<accounts, ledger, income, goal, counted, exec, reader>>

FiatCurrencies == {"USD", "ILS"}
IncomeStatuses == {"pending", "received", "delayed", "cancelled"}

Account == [currency : FiatCurrencies, balance : Int, isDefault : BOOLEAN]
Row == [key : Keys \cup {IncomeKey}, source : {"manual", "system"}, account : Nat,
        amount : Int, at : Nat, deleted : BOOLEAN]

Steps == {"idle", "insert", "replay", "get", "receive", "done"}

Execution == [step : Steps, key : Keys \cup {None, IncomeKey}, amount : Int,
              currency : FiatCurrencies, account : Nat, first : BOOLEAN,
              row : Ids \cup {None}]

\* A client that reads the history: what a page showed it, what two pages did, and
\* what was there when it began and was left alone since.
Reader == [phase : {"closed", "reading", "read"}, cursor : (Nat \X Nat) \cup {None},
           seen : SUBSET Ids, twice : SUBSET Ids, steady : SUBSET Ids]

ASSUME NoneAssumption == None \notin Row \cup (Nat \X Nat)

\* An execution that has nothing in hand: not begun, or answered.
Resting(step) == [step |-> step, key |-> None, amount |-> 0,
                  currency |-> "USD", account |-> 0, first |-> FALSE, row |-> None]
-----------------------------------------------------------------------------
(* The ledger and its balances.                                            *)

Live(row) == row # None /\ ~row.deleted

\* Every row here is kind cash and status confirmed.
CashEffectiveAmount(row) == IF Live(row) THEN row.amount ELSE 0

SyncCashBalance_KeepsDeleted(accts, old, new) ==
    [accts EXCEPT ![new.account].balance =
        @ + (IF old = None THEN new.amount ELSE 0)]

\* The trigger on transactions: the balance moves by the change of the row.
SyncCashBalance(accts, old, new) ==
    [accts EXCEPT ![new.account].balance =
        @ + (CashEffectiveAmount(new) - CashEffectiveAmount(old))]

KeyUsed(k) == \E id \in Ids : ledger[id] # None /\ ledger[id].key = k

\* The account of a currency: the default one if it has it, else the oldest.
FindDefaultCashAccount(currency) ==
    LET mine == {i \in DOMAIN accounts : accounts[i].currency = currency}
        default == {i \in mine : accounts[i].isDefault}
    IN  IF mine = {} THEN 0
        ELSE IF default # {} THEN CHOOSE i \in default : TRUE
        ELSE CHOOSE i \in mine : \A j \in mine : i <= j

\* The unique index on the default account refuses a second one: another
\* transaction committed its own after this one cleared the old default.
DefaultTaken(e) ==
    /\ exec[e].account = 0 /\ exec[e].first
    /\ \E i \in DOMAIN accounts : accounts[i].isDefault

\* The accounts once the one this execution writes to exists.
EnsureCashAccount(e) ==
    LET new == [currency |-> exec[e].currency, balance |-> 0,
                isDefault |-> exec[e].first]
        others == IF exec[e].first
                  THEN [i \in DOMAIN accounts |->
                            [accounts[i] EXCEPT !.isDefault = FALSE]]
                  ELSE accounts
    IN  IF exec[e].account # 0 THEN accounts ELSE Append(others, new)

AccountOf(e) == IF exec[e].account # 0 THEN exec[e].account ELSE Len(accounts) + 1

CreateCashTransaction_IgnoresKey(e, id, source, at) ==
    LET row == [key |-> exec[e].key, source |-> source, account |-> AccountOf(e),
                amount |-> exec[e].amount, at |-> at, deleted |-> FALSE]
    IN  /\ ledger[id] = None
        /\ ledger' = [ledger EXCEPT ![id] = row]
        /\ accounts' = SyncCashBalance(EnsureCashAccount(e), None, row)

\* Insert a row and let the trigger move the balance.
CreateCashTransaction(e, id, source, at) ==
    LET row == [key |-> exec[e].key, source |-> source, account |-> AccountOf(e),
                amount |-> exec[e].amount, at |-> at, deleted |-> FALSE]
    IN  /\ ledger[id] = None /\ ~KeyUsed(exec[e].key)
        /\ ledger' = [ledger EXCEPT ![id] = row]
        /\ accounts' = SyncCashBalance(EnsureCashAccount(e), None, row)

\* The account a request names by its id, or 0: it names none.
Named == {0} \cup DOMAIN accounts

\* A transaction that is to insert a row has found the account it names, or else
\* that of the currency, or seen that there is none (0), or none at all (first).
Begun(step, key, amount, currency, named) ==
    [step |-> step, key |-> key, amount |-> amount, currency |-> currency,
     account |-> IF named # 0 THEN named ELSE FindDefaultCashAccount(currency),
     first |-> accounts = <<>>, row |-> None]

At(e, step) == exec[e].step = step

\* An execution has answered; only the row it answers with still matters.
Finish(e) == exec' = [exec EXCEPT ![e] = Resting("done")]
-----------------------------------------------------------------------------
(* POST /api/transactions.                                                 *)

\* "income" is stored positive and "expense" negative, however it was sent.
SignedAmount(type, amount) ==
    CASE type = "income" -> AbsInt(amount)
      [] type = "expense" -> -AbsInt(amount)
      [] OTHER -> amount

\* An account the request names must hold the currency of the amount.
CurrencyFits(named, currency) == named # 0 => accounts[named].currency = currency

\* The transaction begins: find the account, or see that one is needed.
BeginCash(e) ==
    /\ At(e, "idle")
    /\ \E k \in Keys, type \in {"income", "expense", "adjustment"},
          amount \in Amounts \ {0}, currency \in FiatCurrencies, named \in Named :
          /\ CurrencyFits(named, currency)
          /\ exec' = [exec EXCEPT ![e] =
                Begun("insert", k, SignedAmount(type, amount), currency, named)]
    /\ UNCHANGED <<accounts, ledger, income, goal, counted, reader>>

RefuseCash(e) ==
    /\ At(e, "idle")
    /\ \/ 0 \in Amounts       \* AMOUNT_TOO_SMALL
       \/ \E named \in Named, currency \in FiatCurrencies :
             ~CurrencyFits(named, currency)       \* CURRENCY_MISMATCH
    /\ Finish(e)
    /\ UNCHANGED <<accounts, ledger, income, goal, counted, reader>>

CommitCash(e) ==
    /\ At(e, "insert")
    /\ \E id \in Ids, at \in Times :
          /\ CreateCashTransaction(e, id, "manual", at)
          /\ exec' = [exec EXCEPT ![e].step = "get", ![e].row = id]
    /\ UNCHANGED <<income, goal, counted, reader>>

\* Any unique violation, of the key or of the default account, is a replay.
ConflictCash(e) ==
    /\ At(e, "insert")
    /\ KeyUsed(exec[e].key) \/ DefaultTaken(e)
    /\ exec' = [exec EXCEPT ![e].step = "replay"]
    /\ UNCHANGED <<accounts, ledger, income, goal, counted, reader>>

\* findByIdempotencyKey finds deleted rows too.
ReplayCash(e) ==
    /\ At(e, "replay")
    /\ \/ \E id \in Ids :
             /\ ledger[id] # None /\ ledger[id].key = exec[e].key
             /\ exec' = [exec EXCEPT ![e].step = "get", ![e].row = id]
       \/ ~KeyUsed(exec[e].key) /\ Finish(e)     \* IDEMPOTENCY_KEY_REUSED
    /\ UNCHANGED <<accounts, ledger, income, goal, counted, reader>>

\* The answer is read in a transaction of its own.
GetCash(e) ==
    /\ At(e, "get")
    /\ \/ /\ Live(ledger[exec[e].row])
          /\ exec' = [exec EXCEPT ![e].step = "done"]
       \/ ~Live(ledger[exec[e].row]) /\ Finish(e)       \* TRANSACTION_NOT_FOUND
    /\ UNCHANGED <<accounts, ledger, income, goal, counted, reader>>

\* A row that changes its place, or goes, is not one a page must show.
Unsteady(id) == [reader EXCEPT !.steady = @ \ {id}]

\* Delete a row: only a row that is still there moves the balance.
RemoveCash(e) ==
    /\ At(e, "idle")
    /\ \E id \in Ids :
          LET old == ledger[id]
              new == [old EXCEPT !.deleted = TRUE]
          IN  /\ Live(old)
              /\ ledger' = [ledger EXCEPT ![id] = new]
              /\ accounts' = SyncCashBalance(accounts, old, new)
              /\ reader' = Unsteady(id)
    /\ Finish(e)
    /\ UNCHANGED <<income, goal, counted>>

\* Edit a row: of what is modelled, only when it happened.
UpdateCash(e) ==
    /\ At(e, "idle")
    /\ \E id \in Ids, at \in Times :
          /\ Live(ledger[id]) /\ ledger[id].at # at
          /\ ledger' = [ledger EXCEPT ![id].at = at]
          /\ reader' = Unsteady(id)
    /\ Finish(e)
    /\ UNCHANGED <<accounts, income, goal, counted>>
-----------------------------------------------------------------------------
(* Expected income.                                                        *)

\* The trigger on the status, and the CHECK that received has a ledger row.
AllowedIncomeStatuses(from) ==
    {from} \cup CASE from = "pending" -> {"received", "delayed", "cancelled"}
                  [] from = "delayed" -> {"received", "cancelled", "pending"}
                  [] from = "cancelled" -> {"pending"}
                  [] OTHER -> {}

\* Mark received and record the money: the row is read, nothing is locked.  A
\* client may send a key of its own, and name an account of whatever currency.
BeginReceive(e) ==
    /\ At(e, "idle") /\ ~income.deleted
    /\ \E k \in Keys \cup {IncomeKey}, named \in Named :
          exec' = [exec EXCEPT ![e] =
              Begun("receive", k, income.amount, income.currency, named)]
    /\ UNCHANGED <<accounts, ledger, income, goal, counted, reader>>

IncomeAccepts(status) ==
    ~income.deleted /\ status \in AllowedIncomeStatuses(income.status)

\* The row, its balance, the status and the link are one transaction.
CommitReceive(e) ==
    /\ At(e, "receive") /\ IncomeAccepts("received")
    /\ \E id \in Ids, at \in Times :
          /\ CreateCashTransaction(e, id, "system", at)
          /\ income' = [income EXCEPT !.status = "received", !.received = id]
    /\ Finish(e)
    /\ UNCHANGED <<goal, counted, reader>>

RefuseReceive_KeepsRow(e) ==
    /\ At(e, "receive")
    /\ ~KeyUsed(exec[e].key) /\ ~IncomeAccepts("received")
    /\ \E id \in Ids, at \in Times :
          CreateCashTransaction(e, id, "system", at)
    /\ Finish(e)
    /\ UNCHANGED <<income, goal, counted, reader>>

\* What fails in it undoes all of it.
RefuseReceive(e) ==
    /\ At(e, "receive")
    /\ KeyUsed(exec[e].key) \/ DefaultTaken(e) \/ ~IncomeAccepts("received")
    /\ Finish(e)
    /\ UNCHANGED <<accounts, ledger, income, goal, counted, reader>>

\* Any other change of the status; "received" without a row only repeats.
SetExpectedIncomeStatus(e) ==
    /\ At(e, "idle")
    /\ \E status \in IncomeStatuses :
          /\ IncomeAccepts(status)
          /\ status = "received" => income.received # None
          /\ income' = [income EXCEPT !.status = status]
    /\ Finish(e)
    /\ UNCHANGED <<accounts, ledger, goal, counted, reader>>

UpdateExpectedIncome(e) ==
    /\ At(e, "idle") /\ ~income.deleted
    /\ \E amount \in Amounts, currency \in FiatCurrencies :
          /\ amount > 0       \* the CHECK of the table
          /\ income' = [income EXCEPT !.amount = amount, !.currency = currency]
    /\ Finish(e)
    /\ UNCHANGED <<accounts, ledger, goal, counted, reader>>

RemoveExpectedIncome(e) ==
    /\ At(e, "idle") /\ ~income.deleted
    /\ income' = [income EXCEPT !.deleted = TRUE]
    /\ Finish(e)
    /\ UNCHANGED <<accounts, ledger, goal, counted, reader>>
-----------------------------------------------------------------------------
(* Savings goals.                                                          *)

SyncGoalStatus_NeverBack(g) ==
    IF g.status = "active" /\ g.current >= g.target
    THEN [g EXCEPT !.status = "achieved"] ELSE g

\* The trigger on current_minor and target_minor.
SyncGoalStatus(g) ==
    CASE g.status = "active" /\ g.current >= g.target ->
            [g EXCEPT !.status = "achieved"]
      [] g.status = "achieved" /\ g.current < g.target ->
            [g EXCEPT !.status = "active"]
      [] OTHER -> g

\* The key the client sends is checked for its form and used for nothing.
ContributeToGoal(e) ==
    /\ At(e, "idle") /\ ~goal.deleted
    /\ \E k \in Keys, delta \in Amounts :
          /\ goal' = SyncGoalStatus([goal EXCEPT !.current = MaxInt(@ + delta, 0)])
          /\ counted' = [counted EXCEPT ![k] = @ + 1]
    /\ Finish(e)
    /\ UNCHANGED <<accounts, ledger, income, reader>>

\* Every form of the request sets columns the trigger watches.
UpdateGoal(e) ==
    /\ At(e, "idle") /\ ~goal.deleted
    /\ \E target \in Amounts, current \in Amounts,
          status \in {"active", "achieved", "archived"} :
          /\ target > 0 /\ current >= 0      \* the CHECKs of the table
          /\ goal' = SyncGoalStatus([goal EXCEPT !.target = target,
                                       !.current = current, !.status = status])
    /\ Finish(e)
    /\ UNCHANGED <<accounts, ledger, income, counted, reader>>

RemoveGoal(e) ==
    /\ At(e, "idle") /\ ~goal.deleted
    /\ goal' = [goal EXCEPT !.deleted = TRUE]
    /\ Finish(e)
    /\ UNCHANGED <<accounts, ledger, income, counted, reader>>
-----------------------------------------------------------------------------
(* The history, newest first, in pages found by key and not by offset.     *)

\* (occurred_at, id) as PostgreSQL compares rows.
Before(a, b) == a[1] < b[1] \/ (a[1] = b[1] /\ a[2] < b[2])

Position(id) == <<ledger[id].at, id>>

AfterCursor_TimeOnly(id, cursor) == ledger[id].at < cursor[1]

AfterCursor(id, cursor) == Before(Position(id), cursor)

ListTransactions(cursor) ==
    {id \in Ids : Live(ledger[id]) /\ (cursor # None => AfterCursor(id, cursor))}

\* The page: the first rows of what is listed.
Page(cursor) ==
    {id \in ListTransactions(cursor) :
        Cardinality({x \in ListTransactions(cursor) :
                        Before(Position(id), Position(x))}) < PageSize}

OpenHistory ==
    /\ reader.phase = "closed"
    /\ reader' = [phase |-> "reading", cursor |-> None, seen |-> {}, twice |-> {},
                  steady |-> {id \in Ids : Live(ledger[id])}]
    /\ UNCHANGED <<accounts, ledger, income, goal, counted, exec>>

\* One row more than the limit tells that there is a next page.
NextPage ==
    LET page == Page(reader.cursor)
        more == ListTransactions(reader.cursor) # page
        last == CHOOSE id \in page : \A x \in page :
                    x # id => Before(Position(id), Position(x))
    IN  /\ reader.phase = "reading"
        /\ reader' = [reader EXCEPT
               !.phase = IF more THEN "reading" ELSE "read",
               !.cursor = IF more THEN Position(last) ELSE @,
               !.twice = @ \cup (reader.seen \cap page),
               !.seen = @ \cup page]
        /\ UNCHANGED <<accounts, ledger, income, goal, counted, exec>>
-----------------------------------------------------------------------------
Init ==
    /\ accounts = <<>>
    /\ ledger = [id \in Ids |-> None]
    /\ \E amount \in Amounts : /\ amount > 0
          /\ income = [status |-> "pending", amount |-> amount, currency |-> "ILS",
                       received |-> None, deleted |-> FALSE]
          /\ goal = [status |-> "active", target |-> amount, current |-> 0,
                     deleted |-> FALSE]
    /\ counted = [k \in Keys |-> 0]
    /\ exec = [e \in Executions |-> Resting("idle")]
    /\ reader = [phase |-> "closed", cursor |-> None, seen |-> {}, twice |-> {},
                 steady |-> {}]

Execute(e) ==
    \/ BeginCash(e) \/ RefuseCash(e) \/ CommitCash(e) \/ ConflictCash(e)
    \/ ReplayCash(e) \/ GetCash(e) \/ RemoveCash(e) \/ UpdateCash(e)
    \/ BeginReceive(e) \/ CommitReceive(e) \/ RefuseReceive(e)
    \/ SetExpectedIncomeStatus(e) \/ UpdateExpectedIncome(e) \/ RemoveExpectedIncome(e)
    \/ ContributeToGoal(e) \/ UpdateGoal(e) \/ RemoveGoal(e)

Next == (\E e \in Executions : Execute(e)) \/ OpenHistory \/ NextPage

Spec == Init /\ [][Next]_vars
-----------------------------------------------------------------------------
TablesOK ==
    /\ accounts \in Seq(Account)
    /\ ledger \in [Ids -> Row \cup {None}]
    /\ income \in [status : IncomeStatuses, amount : Int, currency : FiatCurrencies,
                   received : Ids \cup {None}, deleted : BOOLEAN]
    /\ goal \in [status : {"active", "achieved", "archived"}, target : Int,
                 current : Nat, deleted : BOOLEAN]
    /\ counted \in [Keys -> Nat]
    /\ exec \in [Executions -> Execution]

TypeOK == TablesOK /\ reader \in Reader

\* The balance the trigger keeps of an account is the sum of its confirmed
\* rows that are not deleted (recomputeCashBalance, "cache == sum(ledger)").
RecomputeCashBalance(i) ==
    SumInts([id \in {x \in Ids : ledger[x] # None /\ ledger[x].account = i} |->
                CashEffectiveAmount(ledger[id])])

\* Whatever handlers interleave, a cached balance is the sum of its rows.
BalanceIsSum ==
    \A i \in DOMAIN accounts : accounts[i].balance = RecomputeCashBalance(i)

\* However often a request is sent, its money is recorded at most once, and an
\* execution that answers with a row answers with the row of its own key.
RecordedOnce ==
    /\ \A a, b \in Ids :
          ledger[a] # None /\ ledger[b] # None /\ ledger[a].key = ledger[b].key
              => a = b
    /\ \A e \in Executions :
          exec[e].row # None => /\ ledger[exec[e].row] # None
                                /\ ledger[exec[e].row].key = exec[e].key

\* The rows that marking the income received has recorded, deleted ones too.
Recorded == {id \in Ids : ledger[id] # None /\ ledger[id].source = "system"}

\* The expected income and the ledger do not disagree about whether the money
\* arrived: it is received exactly when a row was recorded for it, and it points
\* to such a row.  It is the only one unless a client sent a key of its own with
\* "received": a row it does not point to then stands beside it, for the same money.
IncomeAgrees ==
    /\ (income.status = "received") <=> (income.received # None)
    /\ (income.received # None) <=> (Recorded # {})
    /\ income.received # None => income.received \in Recorded
    /\ (\A id \in Recorded : ledger[id].key = IncomeKey) => Recorded \subseteq {income.received}

\* A goal in use is achieved exactly when its target is reached.
GoalAgrees ==
    goal.status # "archived" =>
        ((goal.status = "achieved") <=> (goal.current >= goal.target))

\* A client that read all pages saw every row that was there when it began
\* and was left alone, and none of those twice, whatever was recorded between.
PagesComplete ==
    /\ reader.phase = "read" => reader.steady \subseteq reader.seen
    /\ reader.twice \cap reader.steady = {}

=============================================================================
