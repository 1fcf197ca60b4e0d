\* One decision and three payments, under either transaction id and either key, of
\* a scarce product, in a positive or a negative quantity; one restart; one instant.
CONSTANTS
  wallet = wallet
  demo = demo
  tv = tv
  t1 = t1
  t2 = t2
  k1 = k1
  k2 = k2
  Auths = {a1}
  Pays = {p1, p2, p3}
  Txs = {t1, t2}
  Keys = {k1, k2}
  Skus = {tv}
  Contracts = {wallet}
  EmptyKey = EmptyKey
  Unlisted = Unlisted
  Orders <- AnyQuantity
  Payments <- NonEmptyKeys
  Expiries <- MCExpiries
  SeedStock <- MCScarceStock
  SeedContracts = {wallet}
  SeedRevoked = {}
  Validity = 1
  Cap <- MCCap
  Period <- MCPeriod
  CalendarStart <- MCCalendarStart
  Timeout = 1
  MaxAmount = 2
  MaxTime = 0
  NoRow = NoRow
  MaxRestarts = 1
  None = None
SPECIFICATION Spec
SYMMETRY Symmetry
INVARIANTS TypeOK SpentBudgetHasPayment SoleKeyRetrySafe StockFollowsSales
PROPERTY StatusOverwrittenByRace
