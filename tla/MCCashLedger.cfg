SPECIFICATION Spec
CONSTANTS
  Executions = {e1, e2, e3}
  Keys = {k1, k2}
  None = None
  Ids = {1, 2}
  Amounts <- MCAmounts
  Times = {1, 2}
  PageSize = 1
SYMMETRY Symmetry
CHECK_DEADLOCK FALSE
INVARIANTS BalanceIsSum RecordedOnce IncomeAgrees PagesComplete FiguresAgree
