\* Three reservations on a daily and a per-order budget; four instants and two
\* day boundaries; holds live two instants, so that they can outlive the day they
\* were placed in and can expire before they are committed.
CONSTANTS
  wallet = wallet
  single = single
  Ids = {r1, r2, r3}
  Contracts = {wallet, single}
  Cap <- MCCap
  Period <- MCDailyAndPerOrder
  CalendarStart <- MCCalendarStart
  Timeout = 2
  MaxAmount = 2
  MaxTime = 3
  MaxLag = 1
  NoRow = NoRow
SPECIFICATION Spec
SYMMETRY IdSymmetry
INVARIANTS TypeOK BudgetRespected
PROPERTIES SettledOnce ImplementsAccount
