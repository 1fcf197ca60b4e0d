\* One order that needs the user's approval, and its payment.
CONSTANTS
  wallet = wallet
  demo = demo
  tv = tv
  t1 = t1
  t2 = t2
  k1 = k1
  k2 = k2
  Auths = {a1}
  Pays = {p1}
  Txs = {t1}
  Keys = {k1}
  Skus = {tv}
  Contracts = {wallet}
  EmptyKey = EmptyKey
  Unlisted = Unlisted
  Orders <- OneChallenge
  Payments <- NonEmptyKeys
  Expiries = {0}
  SeedStock <- MCSeedStock
  SeedContracts = {}
  SeedRevoked = {}
  Validity = 1
  Cap <- MCCap
  Period <- MCLifetime
  CalendarStart <- MCCalendarStart
  Timeout = 1
  MaxAmount = 2
  MaxTime = 0
  NoRow = NoRow
  MaxRestarts = 0
  None = None
SPECIFICATION Spec
PROPERTY ApprovedIsPayable
