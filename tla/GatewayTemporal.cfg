\* One request of each kind, on a contract the user creates or on one of the demo
\* data, which may be revoked, with one restart, which seeds the latter again; no
\* symmetry, since liveness is checked.
CONSTANTS
  wallet = wallet
  demo = demo
  tv = tv
  t1 = t1
  t2 = t2
  k1 = k1
  k2 = k2
  Auths = {a1}
  Pays = {p1}
  Txs = {t1}
  Keys = {k1}
  Skus = {tv}
  Contracts = {wallet, demo}
  EmptyKey = EmptyKey
  Unlisted = Unlisted
  Orders <- AnyContract
  Payments <- Successes
  Expiries = {0}
  SeedStock <- MCSeedStock
  SeedContracts = {demo}
  SeedRevoked = {}
  Validity = 1
  Cap <- MCCap
  Period <- MCPeriod
  CalendarStart <- MCCalendarStart
  Timeout = 1
  MaxAmount = 2
  MaxTime = 1
  NoRow = NoRow
  MaxRestarts = 1
  None = None
SPECIFICATION FairSpec
PROPERTIES RevokedStaysDenied HoldsSettled RequestsAudited
