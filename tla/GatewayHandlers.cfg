\* Two authorize requests of one transaction race for one budget; two payments of
\* it, which may fail, the user, the clock and one restart interfere; holds expire
\* after one instant.
CONSTANTS
  wallet = wallet
  demo = demo
  tv = tv
  t1 = t1
  t2 = t2
  k1 = k1
  k2 = k2
  Auths = {a1, a2}
  Pays = {p1, p2}
  Txs = {t1}
  Keys = {k1}
  Skus = {tv}
  Contracts = {wallet}
  EmptyKey = EmptyKey
  Unlisted = Unlisted
  Orders <- RivalOrders
  Payments <- NonEmptyKeys
  Expiries <- MCExpiries
  SeedStock <- MCSeedStock
  SeedContracts = {wallet}
  SeedRevoked = {}
  Validity = 1
  Cap <- MCCap
  Period <- MCPeriod
  CalendarStart <- MCCalendarStart
  Timeout = 1
  MaxAmount = 2
  MaxTime = 1
  NoRow = NoRow
  MaxRestarts = 1
  None = None
SPECIFICATION Spec
SYMMETRY Symmetry
INVARIANTS AllowHoldsBudget AuditNeverAhead UnapprovedChargesNothing PaymentSettlesHold
PROPERTY UsesLedger
